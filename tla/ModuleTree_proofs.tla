-------------------------- MODULE ModuleTree_proofs --------------------------
(***************************************************************************)
(* Proofs about ModuleTree, for every tree of modules, every choice of the  *)
(* overrides and every change of the tree during a walk.                    *)
(*                                                                          *)
(* The walks are a stack, but what the proofs need of it is the set of its  *)
(* frames: no container is walked twice at a time.  A slot is reached when  *)
(* the virtual call of its module has been made, or will not be made any    *)
(* more, in the phase the program is in; it is done when the base call has  *)
(* been made too.  Steps of a walk only add to what is reached and done.    *)
(***************************************************************************)
EXTENDS ModuleTree, SequenceTheorems, TLAPS

Frame == [mod : Containers, ph : DOMAIN Phases, call : {"virtual", "base"}, i : Int]
Elements(s) == {s[k] : k \in DOMAIN s}
Frames == Elements(stack)

(* No container has two walks.                                              *)
Apart(s) == \A j, k \in DOMAIN s : s[j].mod = s[k].mod => j = k

(* The walk f is beyond slot j.                                             *)
Past(f, j) == IF f.ph \in Forward THEN j < f.i ELSE j > f.i

(* The walk f has made the virtual call for slot j.                         *)
Called(f, j) == Past(f, j) \/ (j = f.i /\ f.call = "base")

Marked(c) == prog \in m_state[c]
Reached(c, j) == Marked(c) /\ \A f \in Frames : f.mod = c => Called(f, j)
Done(c, j) == Marked(c) /\ \A f \in Frames : f.mod = c => Past(f, j)

Occupied(c, j) == c \in Containers /\ j \in DOMAIN m_dep_idx[c] /\ m_dep_idx[c][j] # Null

-----------------------------------------------------------------------------

(* The tree: containers stay where they were, what is in the tree was there *)
(* from the beginning or registered since, and what left is not registered  *)
(* again.                                                                   *)
Placed ==
    /\ FirstMods \subseteq st_register
    /\ \A c \in Containers : \A i \in DOMAIN FirstDeps[c] :
          /\ i \in DOMAIN m_dep_idx[c]
          /\ FirstDeps[c][i] \in Containers => m_dep_idx[c][i] = FirstDeps[c][i]
    /\ InTree \subseteq FirstMods \cup Late \cup (Solo \cap st_register)
    /\ st_register \subseteq FirstMods \cup Late \cup Solo

(* The stack: all walks are of the phase the program is in, each of a       *)
(* container of its own that is marked, and within the array.               *)
Walks ==
    /\ Apart(stack)
    /\ \A f \in Frames :
          /\ f.ph = prog /\ Marked(f.mod)
          /\ IF f.ph \in Forward THEN f.i >= 1 ELSE f.i <= m_dep_cnt(f.mod)
    /\ \A c \in Containers : m_state[c] \subseteq 1..prog
    /\ prog > 0 => Marked(Root)
    /\ prog = 0 => stack = <<>>

(* What a phase has to reach, and the start phases that are complete.       *)
Expectations ==
    /\ expected \subseteq InTree
    /\ prog > 0 => InTree \ (Late \cup Solo) \subseteq expected
    /\ \A m \in InTree \ (Late \cup Solo), p \in Start :
          p < prog /\ <<m, p>> \in Overrides => Ran(p, m)

(* What was reached did its work, what was done was walked; and a container *)
(* that was walked was reached.                                             *)
Progressed ==
    \A c \in Containers : \A j \in DOMAIN m_dep_idx[c] : LET m == m_dep_idx[c][j] IN
        /\ Reached(c, j) /\ m \in expected /\ <<m, prog>> \in Overrides => Ran(prog, m)
        /\ Done(c, j) /\ m \in Containers => Marked(m)
        /\ m \in Containers /\ Marked(m) => Reached(c, j)

(* A module that did its work is known to the tree; it did so in a phase    *)
(* that has begun, and was reached.                                         *)
Worked ==
    \A e \in DOMAIN ran : LET m == ran[e][2] IN
        /\ m \in Solo \/ m \in InTree \/ m \in st_register
        /\ m \in InTree => ran[e][1] <= prog
        /\ ran[e][1] = prog =>
              \A c \in Containers : \A j \in DOMAIN m_dep_idx[c] :
                  m_dep_idx[c][j] = m => Reached(c, j)

(* The modules that run() starts itself: after the other modules, through   *)
(* all phases, and those it stops itself stay out of the tree.              *)
Alone ==
    /\ \A m \in Solo : m \in st_register \/ (\E e \in DOMAIN ran : ran[e][2] = m) =>
          /\ prog >= 4 /\ (prog = 4 => stack = <<>>)
          /\ \A p \in Start : Ran(p, m)
    /\ \A e \in DOMAIN ran :
          ran[e][2] \in Solo \ st_register /\ ran[e][1] \in Stop =>
             /\ Stopped(ran[e][2])
             /\ ran[e][1] # 7 => ran[e][1] \in m_state[ran[e][2]]
    /\ \A m \in Solo \ st_register : 5 \in m_state[m] => Stopped(m)
    /\ \A d, e \in DOMAIN ran :
          /\ ran[d][2] \notin Solo /\ ran[e][2] \in Solo
          /\ ran[d][1] \in Start /\ ran[e][1] \in Start
          => d < e

(* OncePerPhase, for modules that run() has put into the tree too.          *)
Once ==
    \A i, j \in DOMAIN ran :
        ran[i] = ran[j] /\ ~(ran[i][1] = 7 /\ ran[i][2] \in Solo \ st_register) => i = j

(* SiblingOrder and ContainerFirst, about pairs of entries of the history.  *)
Siblings ==
    \A d, e \in DOMAIN ran : \A c \in Containers : \A j, k \in DOMAIN m_dep_idx[c] :
        /\ d < e /\ ran[d][1] = ran[e][1]
        /\ m_dep_idx[c][j] = ran[d][2] /\ m_dep_idx[c][k] = ran[e][2]
        => IF ran[d][1] \in Start
           THEN j < k \/ {ran[d][2], ran[e][2]} \subseteq Solo
           ELSE j > k

Outer ==
    \A d, e \in DOMAIN ran : \A c \in Containers : \A j \in DOMAIN m_dep_idx[c] :
        /\ d < e /\ ran[d][1] = ran[e][1]
        /\ m_dep_idx[c][j] = ran[d][2]
        => ran[e][2] # c

IInv ==
    /\ TypeOK /\ SlotsAgree /\ Placed /\ Walks /\ Expectations /\ Progressed
    /\ Worked /\ Alone /\ Once /\ Siblings /\ Outer /\ StartedFirst

-----------------------------------------------------------------------------

(* The seven phases.                                                        *)
LEMMA PhaseFacts == /\ DOMAIN Phases = 1..7 /\ Len(Phases) = 7
                    /\ \A p \in 1..7 : (Phases[p] = "cleanup") = (p = 7)
                    /\ Forward = 1..4 /\ Start = 1..4 /\ Stop = 5..7
BY DEF Phases, Forward, Start, Stop

(* The last frame of the stack replaced by one of the same container.       *)
LEMMA TopReplaced ==
    ASSUME NEW s \in Seq(Frame), s # <<>>, Apart(s), NEW f \in Frame,
           f.mod = s[Len(s)].mod
    PROVE  LET r == Append(SubSeq(s, 1, Len(s) - 1), f) IN
           /\ r \in Seq(Frame) /\ r # <<>> /\ Apart(r)
           /\ Elements(r) = (Elements(s) \ {s[Len(s)]}) \cup {f}
<1> DEFINE n == Len(s)
           b == SubSeq(s, 1, n - 1)
           r == Append(b, f)
<1>1. n \in Nat /\ n >= 1 /\ DOMAIN s = 1..n /\ \A k \in 1..n : s[k] \in Frame
  BY EmptySeq, LenProperties
<1>2. b \in Seq(Frame) /\ Len(b) = n - 1 /\ \A k \in 1..(n - 1) : b[k] = s[k]
  BY <1>1, SubSeqProperties
<1> HIDE DEF b
<1>3. /\ r \in Seq(Frame) /\ Len(r) = n /\ DOMAIN r = 1..n
      /\ r[n] = f /\ \A k \in 1..(n - 1) : r[k] = s[k]
  <2>1. /\ r \in Seq(Frame) /\ Len(r) = Len(b) + 1 /\ r[Len(b) + 1] = f
        /\ \A k \in 1..Len(b) : r[k] = b[k]
    BY <1>2, AppendProperties
  <2>2. Len(b) + 1 = n /\ Len(b) = n - 1
    BY <1>1, <1>2
  <2>3. r \in Seq(Frame) /\ Len(r) = n /\ r[n] = f /\ \A k \in 1..(n - 1) : r[k] = s[k]
    BY <2>1, <2>2, <1>2
  <2> HIDE DEF r
  <2> QED BY <2>3, LenProperties
<1> HIDE DEF r, n
<1>4. Apart(r)
  BY <1>1, <1>3 DEF Apart
<1>5. \A k \in 1..(n - 1) : s[k] # s[n]
  BY <1>1 DEF Apart
<1>6. Elements(r) = (Elements(s) \ {s[n]}) \cup {f}
  <2>1. ASSUME NEW x \in Elements(r) PROVE x \in (Elements(s) \ {s[n]}) \cup {f}
    BY <2>1, <1>1, <1>3, <1>5 DEF Elements
  <2>2. ASSUME NEW x \in (Elements(s) \ {s[n]}) \cup {f} PROVE x \in Elements(r)
    BY <2>2, <1>1, <1>3 DEF Elements
  <2> QED BY <2>1, <2>2
<1>7. r # <<>>
  BY <1>1, <1>3
<1> QED BY <1>3, <1>4, <1>6, <1>7 DEF r, b, n

(* A frame of another container put on top.                                 *)
LEMMA TopPushed ==
    ASSUME NEW s \in Seq(Frame), Apart(s), NEW f \in Frame,
           \A g \in Elements(s) : g.mod # f.mod
    PROVE  /\ Append(s, f) \in Seq(Frame) /\ Append(s, f) # <<>> /\ Apart(Append(s, f))
           /\ Elements(Append(s, f)) = Elements(s) \cup {f}
<1> DEFINE n == Len(s)
           r == Append(s, f)
<1>1. n \in Nat /\ DOMAIN s = 1..n /\ \A k \in 1..n : s[k] \in Frame
  BY LenProperties
<1>2. /\ r \in Seq(Frame) /\ Len(r) = n + 1 /\ DOMAIN r = 1..(n + 1)
      /\ r[n + 1] = f /\ \A k \in 1..n : r[k] = s[k]
  BY <1>1, AppendProperties
<1>3. \A k \in 1..n : s[k].mod # f.mod
  BY <1>1 DEF Elements
<1>4. Apart(r)
  BY <1>1, <1>2, <1>3 DEF Apart
<1>5. Elements(r) = Elements(s) \cup {f}
  <2>1. ASSUME NEW x \in Elements(r) PROVE x \in Elements(s) \cup {f}
    BY <2>1, <1>1, <1>2 DEF Elements
  <2>2. ASSUME NEW x \in Elements(s) \cup {f} PROVE x \in Elements(r)
    BY <2>2, <1>1, <1>2 DEF Elements
  <2> QED BY <2>1, <2>2
<1> QED BY <1>1, <1>2, <1>4, <1>5

(* The last frame taken away.                                               *)
LEMMA TopPopped ==
    ASSUME NEW s \in Seq(Frame), s # <<>>, Apart(s)
    PROVE  LET r == SubSeq(s, 1, Len(s) - 1) IN
           /\ r \in Seq(Frame) /\ Apart(r)
           /\ Elements(r) = Elements(s) \ {s[Len(s)]}
           /\ s[Len(s)] \in Elements(s) /\ Elements(s) \subseteq Frame
           /\ \A f, g \in Elements(s) : f.mod = g.mod => f = g
<1> DEFINE n == Len(s)
           r == SubSeq(s, 1, n - 1)
<1>1. n \in Nat /\ n >= 1 /\ DOMAIN s = 1..n /\ \A k \in 1..n : s[k] \in Frame
  BY EmptySeq, LenProperties
<1>2. /\ r \in Seq(Frame) /\ Len(r) = n - 1 /\ DOMAIN r = 1..(n - 1)
      /\ \A k \in 1..(n - 1) : r[k] = s[k]
  BY <1>1, SubSeqProperties
<1> HIDE DEF r, n
<1>3. Apart(r)
  BY <1>1, <1>2 DEF Apart
<1>4. \A k \in 1..(n - 1) : s[k] # s[n]
  BY <1>1 DEF Apart
<1>5. Elements(r) = Elements(s) \ {s[n]}
  <2>1. ASSUME NEW x \in Elements(r) PROVE x \in Elements(s) \ {s[n]}
    BY <2>1, <1>1, <1>2, <1>4 DEF Elements
  <2>2. ASSUME NEW x \in Elements(s) \ {s[n]} PROVE x \in Elements(r)
    BY <2>2, <1>1, <1>2 DEF Elements
  <2> QED BY <2>1, <2>2
<1>6. s[n] \in Elements(s) /\ Elements(s) \subseteq Frame
  BY <1>1 DEF Elements
<1>7. \A f, g \in Elements(s) : f.mod = g.mod => f = g
  BY DEF Elements, Apart
<1> QED BY <1>2, <1>3, <1>5, <1>6, <1>7 DEF r, n

(* An entry added to the history.                                           *)
LEMMA EntryAdded ==
    ASSUME NEW S, NEW s \in Seq(S), NEW x \in S
    PROVE  /\ Append(s, x) \in Seq(S) /\ Len(s) \in Nat
           /\ DOMAIN s = 1..Len(s) /\ DOMAIN Append(s, x) = 1..(Len(s) + 1)
           /\ Append(s, x)[Len(s) + 1] = x
           /\ \A k \in 1..Len(s) : Append(s, x)[k] = s[k] /\ s[k] \in S
BY LenProperties, AppendProperties

-----------------------------------------------------------------------------

(* The override of module m, in slot i of c, is called: it has not been     *)
(* called before, and the slots that were reached lie behind.               *)
Calls(c, i, m) ==
    /\ i \in DOMAIN m_dep_idx[c] /\ m # Null /\ <<m, prog>> \in Overrides
    /\ ~Reached(c, i) /\ Reached(c, i)'
    /\ \A j \in DOMAIN m_dep_idx[c] :
          Reached(c, j) => IF prog \in Start THEN j < i ELSE j > i
    /\ ran' = Append(ran, <<prog, m>>)

(* A step of a walk that is at slot i of container c, with module m in it:  *)
(* only that slot can become reached or done, and only m be marked.         *)
Advance(c, i, m) ==
    /\ stack # <<>> /\ prog > 0
    /\ c \in Containers /\ m = m_dep_idx[c][i]
    /\ UNCHANGED <<treeVars, prog, expected>>
    /\ \A d \in Containers : \A j \in DOMAIN m_dep_idx[d] :
          /\ Reached(d, j) => Reached(d, j)'
          /\ Reached(d, j)' =>
                \/ Reached(d, j)
                \/ d = c /\ j = i /\ (m # Null /\ <<m, prog>> \in Overrides => Ran(prog, m)')
          /\ Done(d, j)' =>
                \/ Done(d, j)
                \/ d = c /\ j = i /\ (m \in Containers => Marked(m)')
    /\ \A d \in Containers :
          /\ Marked(d) => Marked(d)'
          /\ Marked(d)' =>
                \/ Marked(d)
                \/ d = m /\ i \in DOMAIN m_dep_idx[c] /\ Reached(c, i)'
    /\ \A x \in Solo \ st_register : m_state'[x] = m_state[x]
    /\ ran' = ran \/ Calls(c, i, m)

(* The entries of the history after such a step.                            *)
Entries(c, i, m) ==
    /\ DOMAIN ran \subseteq DOMAIN ran'
    /\ \A e \in DOMAIN ran : ran'[e] = ran[e] /\ ran[e] \in (1..7) \X Mods
    /\ \A e \in DOMAIN ran' :
          \/ e \in DOMAIN ran
          \/ /\ Calls(c, i, m) /\ ran'[e] = <<prog, m>> /\ \A d \in DOMAIN ran : d < e
             /\ \A d \in DOMAIN ran' : d \notin DOMAIN ran => d = e

LEMMA AdvanceEntries ==
    ASSUME TypeOK, NEW c, NEW i, NEW m, Advance(c, i, m)
    PROVE  Entries(c, i, m) /\ ran' \in Seq((1..7) \X Mods)
<1>1. ran \in Seq((1..7) \X Mods) /\ prog \in 1..7
  BY PhaseFacts DEF TypeOK, Advance
<1>2. CASE ran' = ran
  <2>1. \A e \in DOMAIN ran : ran[e] \in (1..7) \X Mods
    BY <1>1, ElementOfSeq, LenProperties
  <2> QED BY <2>1, <1>1, <1>2 DEF Entries
<1>3. CASE Calls(c, i, m)
  <2>1. <<prog, m>> \in (1..7) \X Mods /\ ran' = Append(ran, <<prog, m>>)
    <3>1. m_dep_idx[c] \in Seq(Mods \cup {Null}) /\ i \in DOMAIN m_dep_idx[c] /\ m = m_dep_idx[c][i]
      BY <1>3 DEF Calls, Advance, TypeOK
    <3>2. m \in Mods
      BY <3>1, <1>3, ElementOfSeq, LenProperties DEF Calls
    <3> QED BY <3>2, <1>1, <1>3 DEF Calls
  <2> DEFINE S == (1..7) \X Mods
             x == <<prog, m>>
             n == Len(ran)
  <2>2. /\ ran' \in Seq(S) /\ n \in Nat
        /\ DOMAIN ran = 1..n /\ DOMAIN ran' = 1..(n + 1)
        /\ ran'[n + 1] = x
        /\ \A k \in 1..n : ran'[k] = ran[k] /\ ran[k] \in S
    <3> HIDE DEF S, x
    <3>1. ran \in Seq(S) /\ x \in S /\ ran' = Append(ran, x)
      BY <1>1, <2>1 DEF S, x
    <3> QED BY <3>1, EntryAdded
  <2>3. \A e \in 1..(n + 1) : e \in 1..n \/ e = n + 1
    BY <2>2
  <2>4. \A e \in DOMAIN ran' :
          \/ e \in DOMAIN ran
          \/ /\ Calls(c, i, m) /\ ran'[e] = <<prog, m>> /\ \A d \in DOMAIN ran : d < e
             /\ \A d \in DOMAIN ran' : d \notin DOMAIN ran => d = e
    BY <2>2, <2>3, <1>3
  <2>5. DOMAIN ran \subseteq DOMAIN ran' /\ \A e \in DOMAIN ran : ran'[e] = ran[e] /\ ran[e] \in (1..7) \X Mods
    BY <2>2
  <2> QED BY <2>2, <2>4, <2>5 DEF Entries
<1> QED BY <1>2, <1>3 DEF Advance

-----------------------------------------------------------------------------

(* A module is in one slot.                                                 *)
LEMMA SlotUnique ==
    ASSUME TypeOK, SlotsAgree, NEW c \in Containers, NEW d \in Containers,
           NEW i \in DOMAIN m_dep_idx[c], NEW j \in DOMAIN m_dep_idx[d],
           m_dep_idx[c][i] = m_dep_idx[d][j], m_dep_idx[c][i] # Null
    PROVE  c = d /\ i = j
<1>1. m_dep_idx[d][j] \in Slots(d)
  BY DEF Slots
<1>2. c = d
  BY <1>1 DEF SlotsAgree
<1>3. i \in Int /\ j \in Int
  <2>1. m_dep_idx[c] \in Seq(Mods \cup {Null}) /\ m_dep_idx[d] \in Seq(Mods \cup {Null})
    BY DEF TypeOK
  <2> QED BY <2>1, LenProperties
<1>4. m_index[m_dep_idx[c][i]] = i - 1 /\ m_index[m_dep_idx[d][j]] = j - 1
  BY DEF SlotsAgree
<1> QED BY <1>2, <1>3, <1>4

(* The modules of a container's slots.                                      *)
LEMMA SlotTypes ==
    ASSUME TypeOK, NEW c \in Containers
    PROVE  /\ m_dep_idx[c] \in Seq(Mods \cup {Null})
           /\ m_dep_cnt(c) \in Nat /\ DOMAIN m_dep_idx[c] = 1..m_dep_cnt(c)
           /\ \A j \in DOMAIN m_dep_idx[c] : m_dep_idx[c][j] \in Mods \cup {Null}
<1>1. m_dep_idx[c] \in Seq(Mods \cup {Null})
  BY DEF TypeOK
<1> QED BY <1>1, LenProperties, ElementOfSeq DEF m_dep_cnt

(* What is in a slot is in the tree.                                        *)
LEMMA InTreeSlots ==
    \A m : m \in InTree <=> \E c \in Containers : \E j \in DOMAIN m_dep_idx[c] :
                               m_dep_idx[c][j] = m /\ m # Null
BY DEF InTree, Slots

(* Steps of a walk leave the tree alone.                                    *)
LEMMA AdvanceTree ==
    ASSUME NEW c, NEW i, NEW m, Advance(c, i, m), SlotsAgree, Placed
    PROVE  SlotsAgree' /\ Placed' /\ InTree' = InTree
BY DEF Advance, treeVars, SlotsAgree, Placed, InTree, Slots, m_dep_cnt

(* Work that was done stays done.                                           *)
LEMMA RanKept ==
    ASSUME NEW c, NEW i, NEW m, Entries(c, i, m), NEW p, NEW x, Ran(p, x)
    PROVE  Ran(p, x)'
BY DEF Entries, Ran

LEMMA AdvanceExpectations ==
    ASSUME IInv, NEW c, NEW i, NEW m, Advance(c, i, m), Entries(c, i, m)
    PROVE  Expectations'
<1>1. InTree' = InTree
  BY AdvanceTree DEF IInv
<1>2. \A p, x : Ran(p, x) => Ran(p, x)'
  BY RanKept
<1>3. prog' = prog /\ expected' = expected /\ Expectations
  BY DEF Advance, IInv
<1> QED BY <1>1, <1>2, <1>3 DEF Expectations

LEMMA AdvanceProgressed ==
    ASSUME IInv, NEW c, NEW i, NEW m, Advance(c, i, m), Entries(c, i, m)
    PROVE  Progressed'
<1>1. \A p, x : Ran(p, x) => Ran(p, x)'
  BY RanKept
<1>2. prog' = prog /\ expected' = expected /\ m_dep_idx' = m_dep_idx /\ Progressed
  BY DEF Advance, IInv, treeVars
<1> SUFFICES ASSUME NEW d \in Containers, NEW j \in DOMAIN m_dep_idx[d],
                    NEW x, x = m_dep_idx[d][j]
             PROVE  /\ Reached(d, j)' /\ x \in expected /\ <<x, prog>> \in Overrides => Ran(prog, x)'
                    /\ Done(d, j)' /\ x \in Containers => Marked(x)'
                    /\ x \in Containers /\ Marked(x)' => Reached(d, j)'
  BY <1>2 DEF Progressed
<1>3. /\ Reached(d, j) /\ x \in expected /\ <<x, prog>> \in Overrides => Ran(prog, x)
      /\ Done(d, j) /\ x \in Containers => Marked(x)
      /\ x \in Containers /\ Marked(x) => Reached(d, j)
  BY <1>2 DEF Progressed
<1>4. x \in Containers => x # Null
  BY TreeAssumption DEF Mods
<1>5. ASSUME Reached(d, j)', x \in expected, <<x, prog>> \in Overrides PROVE Ran(prog, x)'
  <2>1. x # Null
    <3>1. x \in Mods
      BY <1>5, TreeAssumption
    <3> QED BY <3>1, TreeAssumption
  <2>2. Reached(d, j) \/ (d = c /\ j = i /\ (m # Null /\ <<m, prog>> \in Overrides => Ran(prog, m)'))
    BY <1>5 DEF Advance
  <2>3. d = c /\ j = i => m = x
    BY DEF Advance
  <2> QED BY <1>1, <1>2, <1>3, <1>5, <2>1, <2>2, <2>3
<1>6. ASSUME Done(d, j)', x \in Containers PROVE Marked(x)'
  <2>1. Done(d, j) \/ (d = c /\ j = i /\ (m \in Containers => Marked(m)'))
    BY <1>6 DEF Advance
  <2>2. d = c /\ j = i => m = x
    BY DEF Advance
  <2>3. Marked(x) => Marked(x)'
    BY <1>6 DEF Advance
  <2> QED BY <1>3, <1>6, <2>1, <2>2, <2>3
<1>7. ASSUME x \in Containers, Marked(x)' PROVE Reached(d, j)'
  <2>1. CASE Marked(x)
    BY <2>1, <1>3, <1>7 DEF Advance
  <2>2. CASE x = m /\ i \in DOMAIN m_dep_idx[c] /\ Reached(c, i)'
    <3>1. c = d /\ i = j
      <4>1. c \in Containers /\ m_dep_idx[c][i] = m_dep_idx[d][j] /\ m_dep_idx[c][i] # Null
        BY <2>2, <1>4, <1>7 DEF Advance
      <4>2. TypeOK /\ SlotsAgree /\ i \in DOMAIN m_dep_idx[c]
        BY <2>2 DEF IInv
      <4> QED BY <4>1, <4>2, SlotUnique
    <3> QED BY <2>2, <3>1
  <2>3. Marked(x) \/ (x = m /\ i \in DOMAIN m_dep_idx[c] /\ Reached(c, i)')
    BY <1>7 DEF Advance
  <2> QED BY <2>1, <2>2, <2>3
<1> QED BY <1>5, <1>6, <1>7

LEMMA AdvanceWorked ==
    ASSUME IInv, NEW c, NEW i, NEW m, Advance(c, i, m), Entries(c, i, m)
    PROVE  Worked'
<1>1. prog' = prog /\ m_dep_idx' = m_dep_idx /\ st_register' = st_register /\ InTree' = InTree /\ Worked
  BY AdvanceTree DEF Advance, IInv, treeVars
<1> SUFFICES ASSUME NEW e \in DOMAIN ran'
             PROVE  LET x == ran'[e][2] IN
                    /\ x \in Solo \/ x \in InTree \/ x \in st_register
                    /\ x \in InTree => ran'[e][1] <= prog
                    /\ ran'[e][1] = prog =>
                          \A d \in Containers : \A j \in DOMAIN m_dep_idx[d] :
                              m_dep_idx[d][j] = x => Reached(d, j)'
  BY <1>1 DEF Worked
<1>2. CASE e \in DOMAIN ran
  <2>1. ran'[e] = ran[e]
    BY <1>2 DEF Entries
  <2> QED BY <2>1, <1>1, <1>2 DEF Worked, Advance
<1>3. CASE Calls(c, i, m) /\ ran'[e] = <<prog, m>>
  <2>1. c \in Containers /\ i \in DOMAIN m_dep_idx[c] /\ m = m_dep_idx[c][i] /\ m # Null
    BY <1>3 DEF Advance, Calls
  <2>2. m \in InTree /\ prog <= prog
    BY <2>1, InTreeSlots DEF IInv, TypeOK
  <2>3. ASSUME NEW d \in Containers, NEW j \in DOMAIN m_dep_idx[d], m_dep_idx[d][j] = m
        PROVE  Reached(d, j)'
    <3>1. d = c /\ j = i
      BY <2>1, <2>3, SlotUnique DEF IInv
    <3> QED BY <3>1, <1>3 DEF Advance, Calls
  <2> QED BY <1>3, <2>2, <2>3
<1> QED BY <1>2, <1>3 DEF Entries

LEMMA AdvanceAlone ==
    ASSUME IInv, NEW c, NEW i, NEW m, Advance(c, i, m), Entries(c, i, m), prog \in 1..7
    PROVE  Alone'
<1>1. prog' = prog /\ st_register' = st_register /\ stack # <<>> /\ Alone
  BY DEF Advance, IInv, treeVars
<1>2. \A p, x : Ran(p, x) => Ran(p, x)'
  BY RanKept
<1>4. Calls(c, i, m) => m \in InTree /\ (m \in Solo => m \in st_register)
  <2>1. Calls(c, i, m) => m \in InTree
    BY InTreeSlots DEF Advance, Calls
  <2> QED BY <2>1, ShapeAssumption DEF IInv, Placed
<1>5. ASSUME NEW x \in Solo, x \in st_register \/ (\E e \in DOMAIN ran' : ran'[e][2] = x)
      PROVE  prog > 4 /\ \A p \in Start : Ran(p, x)'
  <2>1. x \in st_register \/ (\E e \in DOMAIN ran : ran[e][2] = x)
    BY <1>4, <1>5 DEF Entries
  <2>2. prog >= 4 /\ prog # 4 /\ \A p \in Start : Ran(p, x)
    BY <1>1, <2>1 DEF Alone
  <2> QED BY <1>2, <2>2
<1>6. ASSUME NEW e \in DOMAIN ran', ran'[e][2] \in Solo \ st_register, ran'[e][1] \in Stop
      PROVE  /\ \E k \in DOMAIN ran' : ran'[k] = <<5, ran'[e][2]>>
             /\ ran'[e][1] # 7 => ran'[e][1] \in m_state'[ran'[e][2]]
  <2>1. e \in DOMAIN ran /\ ran'[e] = ran[e]
    BY <1>4, <1>6 DEF Entries
  <2>2. /\ Stopped(ran[e][2])
        /\ ran[e][1] # 7 => ran[e][1] \in m_state[ran[e][2]]
    BY <1>1, <1>6, <2>1 DEF Alone
  <2>3. m_state'[ran[e][2]] = m_state[ran[e][2]]
    BY <1>6, <2>1 DEF Advance
  <2>4. \E k \in DOMAIN ran' : ran'[k] = <<5, ran[e][2]>>
    BY <2>2 DEF Stopped, Entries
  <2> QED BY <2>1, <2>2, <2>3, <2>4
<1>7. ASSUME NEW d \in DOMAIN ran', NEW e \in DOMAIN ran',
             ran'[d][2] \notin Solo, ran'[e][2] \in Solo,
             ran'[d][1] \in Start, ran'[e][1] \in Start
      PROVE  d < e
  <2>1. prog > 4
    BY <1>5, <1>7
  <2>2. d \in DOMAIN ran /\ e \in DOMAIN ran
    BY <2>1, <1>7, PhaseFacts DEF Entries
  <2> QED BY <2>2, <1>7, <1>1 DEF Entries, Alone
<1>8. \A x \in Solo : x \in st_register' \/ (\E e \in DOMAIN ran' : ran'[e][2] = x) =>
          /\ prog' >= 4 /\ (prog' = 4 => stack' = <<>>)
          /\ \A p \in Start : Ran(p, x)'
  BY <1>1, <1>5
<1>9. ASSUME NEW x \in Solo \ st_register, 5 \in m_state'[x]
      PROVE  \E k \in DOMAIN ran' : ran'[k] = <<5, x>>
  <2>1. Stopped(x)
    BY <1>1, <1>9 DEF Alone, Advance
  <2> QED BY <2>1 DEF Stopped, Entries
<1> QED BY <1>1, <1>6, <1>7, <1>8, <1>9 DEF Alone, Stopped

LEMMA AdvanceOnce ==
    ASSUME IInv, NEW c, NEW i, NEW m, Advance(c, i, m), Entries(c, i, m)
    PROVE  Once'
<1>1. st_register' = st_register /\ Once /\ Worked
  BY DEF Advance, IInv, treeVars
<1>2. ASSUME NEW e \in DOMAIN ran, Calls(c, i, m) PROVE ran[e] # <<prog, m>>
  <2>1. m_dep_idx[c][i] = m /\ c \in Containers /\ i \in DOMAIN m_dep_idx[c] /\ ~Reached(c, i)
    BY <1>2 DEF Advance, Calls
  <2> QED BY <2>1, <1>1 DEF Worked
<1> SUFFICES ASSUME NEW d \in DOMAIN ran', NEW e \in DOMAIN ran', ran'[d] = ran'[e],
                    ~(ran'[d][1] = 7 /\ ran'[d][2] \in Solo \ st_register)
             PROVE  d = e
  BY <1>1 DEF Once
<1>3. CASE d \in DOMAIN ran /\ e \in DOMAIN ran
  BY <1>1, <1>3 DEF Entries, Once
<1>4. CASE d \notin DOMAIN ran
  BY <1>2, <1>4 DEF Entries
<1>5. CASE e \notin DOMAIN ran
  BY <1>2, <1>5 DEF Entries
<1> QED BY <1>3, <1>4, <1>5

LEMMA AdvanceSiblings ==
    ASSUME IInv, NEW c, NEW i, NEW m, Advance(c, i, m), Entries(c, i, m)
    PROVE  Siblings'
<1>1. m_dep_idx' = m_dep_idx /\ Siblings /\ Worked /\ TypeOK /\ SlotsAgree
  BY DEF Advance, IInv, treeVars
<1> SUFFICES ASSUME NEW d \in DOMAIN ran', NEW e \in DOMAIN ran', NEW b \in Containers,
                    NEW j \in DOMAIN m_dep_idx[b], NEW k \in DOMAIN m_dep_idx[b],
                    d < e, ran'[d][1] = ran'[e][1],
                    m_dep_idx[b][j] = ran'[d][2], m_dep_idx[b][k] = ran'[e][2]
             PROVE  IF ran'[d][1] \in Start
                    THEN j < k \/ {ran'[d][2], ran'[e][2]} \subseteq Solo
                    ELSE j > k
  BY <1>1 DEF Siblings
<1>2. DOMAIN ran \subseteq Int /\ DOMAIN ran' \subseteq Int
  <2>1. ran' \in Seq((1..7) \X Mods) /\ ran \in Seq((1..7) \X Mods)
    BY <1>1, AdvanceEntries, PhaseFacts DEF TypeOK
  <2> QED BY <2>1, LenProperties
<1>3. CASE e \in DOMAIN ran
  <2>1. d \in DOMAIN ran
    BY <1>2, <1>3 DEF Entries
  <2>2. ran'[d] = ran[d] /\ ran'[e] = ran[e]
    BY <1>3, <2>1 DEF Entries
  <2> QED BY <2>1, <2>2, <1>1, <1>3 DEF Siblings
<1>4. CASE e \notin DOMAIN ran
  <2>1. Calls(c, i, m) /\ ran'[e] = <<prog, m>>
    BY <1>4 DEF Entries
  <2>2. d \in DOMAIN ran /\ ran'[d] = ran[d]
    BY <1>2, <1>4 DEF Entries
  <2>3. m_dep_idx[c][i] = m /\ c \in Containers /\ i \in DOMAIN m_dep_idx[c] /\ m # Null
    BY <2>1 DEF Advance, Calls
  <2>4. m_dep_idx[c][i] = m_dep_idx[b][k] /\ m_dep_idx[c][i] # Null
    BY <2>1, <2>3
  <2>5. b = c /\ k = i
    BY <2>3, <2>4, <1>1, SlotUnique
  <2>6. ran[d][1] = prog /\ m_dep_idx[c][j] = ran[d][2] /\ j \in DOMAIN m_dep_idx[c]
    BY <2>1, <2>2, <2>5
  <2>7. Reached(c, j)
    BY <1>1, <2>2, <2>3, <2>6 DEF Worked
  <2>8. IF prog \in Start THEN j < i ELSE j > i
    BY <2>1, <2>6, <2>7 DEF Calls
  <2> QED BY <2>1, <2>2, <2>5, <2>6, <2>8
<1> QED BY <1>3, <1>4

LEMMA AdvanceOuter ==
    ASSUME IInv, NEW c, NEW i, NEW m, Advance(c, i, m), Entries(c, i, m)
    PROVE  Outer'
<1>1. m_dep_idx' = m_dep_idx /\ Outer /\ Worked /\ Progressed /\ TypeOK
  BY DEF Advance, IInv, treeVars
<1> SUFFICES ASSUME NEW d \in DOMAIN ran', NEW e \in DOMAIN ran', NEW b \in Containers,
                    NEW j \in DOMAIN m_dep_idx[b],
                    d < e, ran'[d][1] = ran'[e][1],
                    m_dep_idx[b][j] = ran'[d][2], ran'[e][2] = b
             PROVE  FALSE
  BY <1>1 DEF Outer
<1>2. DOMAIN ran \subseteq Int /\ DOMAIN ran' \subseteq Int
  <2>1. ran' \in Seq((1..7) \X Mods) /\ ran \in Seq((1..7) \X Mods)
    BY <1>1, AdvanceEntries, PhaseFacts DEF TypeOK
  <2> QED BY <2>1, LenProperties
<1>3. CASE e \in DOMAIN ran
  <2>1. d \in DOMAIN ran
    BY <1>2, <1>3 DEF Entries
  <2>2. ran'[d] = ran[d] /\ ran'[e] = ran[e]
    BY <1>3, <2>1 DEF Entries
  <2> QED BY <2>1, <2>2, <1>1, <1>3 DEF Outer
<1>4. CASE e \notin DOMAIN ran
  <2>1. Calls(c, i, m) /\ ran'[e] = <<prog, m>>
    BY <1>4 DEF Entries
  <2>2. d \in DOMAIN ran /\ ran'[d] = ran[d]
    BY <1>2, <1>4 DEF Entries
  <2>3. m_dep_idx[c][i] = m /\ c \in Containers /\ i \in DOMAIN m_dep_idx[c] /\ ~Reached(c, i)
    BY <2>1 DEF Advance, Calls
  <2>4. m = b /\ ran[d][1] = prog /\ m_dep_idx[b][j] = ran[d][2]
    BY <2>1, <2>2
  <2>5. Reached(b, j)
    BY <1>1, <2>2, <2>4 DEF Worked
  <2>6. Marked(m)
    BY <2>4, <2>5 DEF Reached
  <2> QED BY <1>1, <2>3, <2>4, <2>6 DEF Progressed
<1> QED BY <1>3, <1>4

LEMMA AdvanceStartedFirst ==
    ASSUME IInv, NEW c, NEW i, NEW m, Advance(c, i, m), Entries(c, i, m), prog \in 1..7
    PROVE  StartedFirst'
<1>1. StartedFirst /\ Expectations /\ Placed /\ Alone
  BY DEF IInv
<1>2. \A p, x : Ran(p, x) => Ran(p, x)'
  BY RanKept
<1>3. ASSUME NEW e \in DOMAIN ran', ran'[e][1] \in Stop, ran'[e][2] \notin Late,
             NEW p \in Start, <<ran'[e][2], p>> \in Overrides
      PROVE  \E k \in DOMAIN ran' : ran'[k] = <<p, ran'[e][2]>>
  <2>1. CASE e \in DOMAIN ran
    <3>1. ran'[e] = ran[e]
      BY <2>1 DEF Entries
    <3>2. Ran(p, ran[e][2])
      BY <1>1, <1>3, <2>1, <3>1 DEF StartedFirst
    <3> QED BY <3>1, <3>2 DEF Ran, Entries
  <2>2. CASE Calls(c, i, m) /\ ran'[e] = <<prog, m>>
    <3>1. m \in InTree
      BY <2>2, InTreeSlots DEF Advance, Calls
    <3>2. Ran(p, m)
      <4>1. CASE m \in Solo
        BY <4>1, <3>1, <1>1, ShapeAssumption DEF Placed, Alone
      <4>2. CASE m \notin Solo
        <5>1. prog \in Stop /\ m \notin Late /\ <<m, p>> \in Overrides
          BY <1>3, <2>2
        <5>2. p < prog
          BY <5>1, PhaseFacts
        <5> QED BY <5>1, <5>2, <4>2, <3>1, <1>1 DEF Expectations
      <4> QED BY <4>1, <4>2
    <3> QED BY <2>2, <3>2 DEF Ran, Entries
  <2> QED BY <2>1, <2>2 DEF Entries
<1> QED BY <1>3 DEF StartedFirst, Ran


(* A step of a walk keeps all that is said of the tree and of the history.  *)
LEMMA AdvanceKeeps ==
    ASSUME IInv, NEW c, NEW i, NEW m, Advance(c, i, m)
    PROVE  /\ SlotsAgree' /\ Placed' /\ Expectations' /\ Progressed' /\ Worked'
           /\ Alone' /\ Once' /\ Siblings' /\ Outer' /\ StartedFirst'
           /\ ran' \in Seq((1..7) \X Mods)
<1>1. Entries(c, i, m) /\ ran' \in Seq((1..7) \X Mods)
  BY AdvanceEntries DEF IInv
<1>2. prog \in 1..7
  BY PhaseFacts DEF IInv, TypeOK, Advance
<1>3. SlotsAgree' /\ Placed'
  BY AdvanceTree DEF IInv
<1> QED BY <1>1, <1>2, <1>3, AdvanceExpectations, AdvanceProgressed, AdvanceWorked,
           AdvanceAlone, AdvanceOnce, AdvanceSiblings, AdvanceOuter, AdvanceStartedFirst

-----------------------------------------------------------------------------

(* The walk g is the walk t one call later.                                 *)
Ahead(t, g) ==
    /\ g \in Frame /\ g.mod = t.mod /\ g.ph = t.ph
    /\ \A j \in Int : /\ Called(t, j) => Called(g, j)
                      /\ Called(g, j) => Called(t, j) \/ j = t.i
                      /\ Past(g, j) => Past(t, j) \/ j = t.i
    /\ Called(g, t.i)
    /\ IF g.ph \in Forward THEN g.i >= t.i ELSE g.i <= t.i

(* The two ways a walk goes on.                                             *)
LEMMA AheadCall ==
    ASSUME NEW t \in Frame, t.call = "virtual"
    PROVE  Ahead(t, [t EXCEPT !.call = "base"])
<1> DEFINE g == [t EXCEPT !.call = "base"]
<1>1. g \in Frame /\ g.mod = t.mod /\ g.ph = t.ph /\ g.i = t.i /\ g.call = "base" /\ t.i \in Int
  BY DEF Frame
<1> HIDE DEF g
<1>2. Ahead(t, g)
  BY <1>1 DEF Ahead, Called, Past
<1> QED BY <1>2 DEF g

LEMMA AheadMove ==
    ASSUME NEW t \in Frame
    PROVE  Ahead(t, Moved(t))
<1> DEFINE v == [t EXCEPT !.call = "virtual"]
           g == Moved(t)
<1>1. v \in Frame /\ v.mod = t.mod /\ v.ph = t.ph /\ v.i = t.i /\ v.call = "virtual" /\ t.i \in Int
  BY DEF Frame
<1>2. ASSUME t.ph \in Forward PROVE Ahead(t, g)
  <2>1. g = [v EXCEPT !.i = t.i + 1]
    BY <1>2 DEF Frame, Moved
  <2> HIDE DEF v, g
  <2>2. g.i = t.i + 1 /\ g.mod = t.mod /\ g.ph = t.ph /\ g.call = "virtual" /\ g \in Frame
    BY <1>1, <2>1 DEF Frame
  <2> QED BY <2>2, <1>1, <1>2 DEF Ahead, Called, Past
<1>3. ASSUME t.ph \notin Forward PROVE Ahead(t, g)
  <2>1. g = [v EXCEPT !.i = t.i - 1]
    BY <1>3 DEF Frame, Moved
  <2> HIDE DEF v, g
  <2>2. g.i = t.i - 1 /\ g.mod = t.mod /\ g.ph = t.ph /\ g.call = "virtual" /\ g \in Frame
    BY <1>1, <2>1 DEF Frame
  <2> QED BY <2>2, <1>1, <1>3 DEF Ahead, Called, Past
<1> QED BY <1>2, <1>3

(* What is known of the innermost walk.                                     *)
LEMMA TopFacts ==
    ASSUME TypeOK, Walks, stack # <<>>
    PROVE  /\ Top \in Frames /\ Frames \subseteq Frame /\ prog \in 1..7
           /\ \A f, g \in Frames : f.mod = g.mod => f = g
           /\ \A f \in Frames : /\ f.ph = prog /\ Marked(f.mod)
                                /\ IF f.ph \in Forward THEN f.i >= 1 ELSE f.i <= m_dep_cnt(f.mod)
           /\ stack \in Seq(Frame) /\ Apart(stack)
<1>1. stack \in Seq(Frame) /\ Apart(stack)
  BY DEF TypeOK, Walks, Frame
<1>2. prog \in 1..7
  BY PhaseFacts DEF TypeOK, Walks
<1> QED BY <1>1, <1>2, TopPopped DEF Top, Frames, Walks

(* The innermost walk goes on to g, and the walks of new, of containers     *)
(* that were not marked, begin above it.                                    *)
Goes(t, g, new) ==
    /\ t \in Frames /\ Ahead(t, g)
    /\ \A n \in new : /\ n \in Frame /\ n.ph = prog /\ ~Marked(n.mod)
                      /\ \A j \in DOMAIN m_dep_idx[n.mod] : ~Called(n, j)
                      /\ IF n.ph \in Forward THEN n.i >= 1 ELSE n.i <= m_dep_cnt(n.mod)
    /\ Frames' = (Frames \ {t}) \cup {g} \cup new
    /\ prog' = prog /\ m_dep_idx' = m_dep_idx
    /\ \A d \in Containers : Marked(d)' <=> (Marked(d) \/ \E n \in new : n.mod = d)

LEMMA GoesReached ==
    ASSUME TypeOK, Walks, stack # <<>>, NEW t, NEW g, NEW new, Goes(t, g, new),
           NEW d \in Containers, NEW j \in DOMAIN m_dep_idx[d]
    PROVE  /\ Reached(d, j) => Reached(d, j)'
           /\ Reached(d, j)' => Reached(d, j) \/ (d = t.mod /\ j = t.i)
           /\ Done(d, j)' => Done(d, j) \/ (d = t.mod /\ j = t.i)
           /\ d = t.mod /\ j = t.i => Reached(d, j)'
           /\ d = t.mod => (Reached(d, j) <=> Called(t, j))
           /\ d = t.mod => (Done(d, j) <=> Past(t, j)) /\ (Done(d, j)' <=> Past(g, j))
<1>1. j \in Int
  BY SlotTypes
<1>2. /\ Frames \subseteq Frame
      /\ \A f, h \in Frames : f.mod = h.mod => f = h
      /\ \A f \in Frames : f.ph = prog /\ Marked(f.mod)
  BY TopFacts
<1>3. CASE d = t.mod
  <2>1. Marked(d) /\ Marked(d)'
    BY <1>2, <1>3 DEF Goes
  <2>2. \A f \in Frames : f.mod = d <=> f = t
    BY <1>2, <1>3 DEF Goes
  <2>3. \A f \in Frames' : f.mod = d <=> f = g
    BY <2>1, <2>2, <1>3 DEF Goes, Ahead
  <2>4. g \in Frames' /\ t \in Frames
    BY DEF Goes
  <2>5. Reached(d, j) <=> Called(t, j)
    BY <2>1, <2>2, <2>4, <1>3 DEF Reached
  <2>6. Reached(d, j)' <=> Called(g, j)
    BY <2>1, <2>3, <2>4, <1>3 DEF Reached, Called, Past
  <2>7. Done(d, j) <=> Past(t, j)
    BY <2>1, <2>2, <2>4, <1>3 DEF Done
  <2>8. Done(d, j)' <=> Past(g, j)
    BY <2>1, <2>3, <2>4, <1>3 DEF Done, Past
  <2>9. /\ Called(t, j) => Called(g, j)
        /\ Called(g, j) => Called(t, j) \/ j = t.i
        /\ Past(g, j) => Past(t, j) \/ j = t.i
        /\ j = t.i => Called(g, j)
    BY <1>1 DEF Goes, Ahead
  <2> QED BY <2>5, <2>6, <2>7, <2>8, <2>9, <1>3
<1>4. CASE d # t.mod /\ Marked(d)
  <2>1. Marked(d)' /\ \A n \in new : n.mod # d
    BY <1>4 DEF Goes
  <2>2. \A f : f \in Frames' /\ f.mod = d <=> f \in Frames /\ f.mod = d
    BY <2>1, <1>4 DEF Goes, Ahead
  <2>3. Reached(d, j)' <=> Reached(d, j)
    BY <2>1, <2>2, <1>4 DEF Reached, Called, Past
  <2>4. Done(d, j)' <=> Done(d, j)
    BY <2>1, <2>2, <1>4 DEF Done, Past
  <2> QED BY <2>3, <2>4, <1>4
<1>5. CASE d # t.mod /\ ~Marked(d)
  <2>1. ~Reached(d, j) /\ ~Done(d, j)
    BY <1>5 DEF Reached, Done
  <2>2. CASE Marked(d)'
    <3>1. PICK n \in new : n.mod = d
      BY <2>2, <1>5 DEF Goes
    <3>2. n \in Frames' /\ ~Called(n, j)
      BY <3>1 DEF Goes
    <3>3. ~Past(n, j)
      BY <3>2 DEF Called
    <3>4. ~Reached(d, j)' /\ ~Done(d, j)'
      BY <3>1, <3>2, <3>3 DEF Reached, Done, Called, Past
    <3> QED BY <2>1, <3>4, <1>5
  <2>3. CASE ~Marked(d)'
    BY <2>1, <2>3, <1>5 DEF Reached, Done
  <2> QED BY <2>2, <2>3
<1> QED BY <1>3, <1>4, <1>5

(* The walks stay within their arrays and of their phase.                   *)
LEMMA GoesWalks ==
    ASSUME TypeOK, Walks, stack # <<>>, NEW t, NEW g, NEW new, Goes(t, g, new),
           Apart(stack'), stack' # <<>>,
           \A d \in Containers : m_state'[d] \subseteq m_state[d] \cup {prog}
    PROVE  Walks'
<1>1. /\ Frames \subseteq Frame /\ t \in Frames /\ prog \in 1..7
      /\ \A f \in Frames : /\ f.ph = prog /\ Marked(f.mod)
                           /\ IF f.ph \in Forward THEN f.i >= 1 ELSE f.i <= m_dep_cnt(f.mod)
  BY TopFacts DEF Goes
<1>2. prog' = prog /\ m_dep_idx' = m_dep_idx
  BY DEF Goes
<1>3. ASSUME NEW f \in Frames'
      PROVE  /\ f.ph = prog /\ Marked(f.mod)'
             /\ IF f.ph \in Forward THEN f.i >= 1 ELSE f.i <= m_dep_cnt(f.mod)
  <2>1. CASE f \in Frames
    <3>1. f.mod \in Containers /\ Marked(f.mod)
      BY <1>1, <2>1 DEF Frame
    <3>2. ASSUME NEW d \in Containers, Marked(d) PROVE Marked(d)'
      BY <3>2 DEF Goes
    <3>3. prog' \in m_state'[f.mod]
      BY <3>1, <3>2 DEF Marked
    <3> QED BY <1>1, <2>1, <3>3 DEF Marked
  <2>2. CASE f = g
    <3>1. t.mod \in Containers /\ Marked(t.mod) /\ f.mod = t.mod /\ f.ph = t.ph /\ f.i \in Int /\ t.i \in Int
      BY <1>1, <2>2 DEF Frame, Goes, Ahead
    <3>2. prog' \in m_state'[t.mod]
      BY <3>1 DEF Marked, Goes
    <3>3. IF f.ph \in Forward THEN f.i >= t.i ELSE f.i <= t.i
      BY <2>2 DEF Goes, Ahead
    <3>4. m_dep_cnt(f.mod) \in Nat
      BY <3>1, SlotTypes
    <3> QED BY <1>1, <3>1, <3>2, <3>3, <3>4 DEF Marked
  <2>3. CASE f \in new
    <3>1. /\ f \in Frame /\ f.ph = prog
          /\ IF f.ph \in Forward THEN f.i >= 1 ELSE f.i <= m_dep_cnt(f.mod)
      BY <2>3 DEF Goes
    <3>2. f.mod \in Containers
      BY <3>1 DEF Frame
    <3>3. prog' \in m_state'[f.mod]
      BY <2>3, <3>2 DEF Marked, Goes
    <3> QED BY <3>1, <3>3 DEF Marked
  <2> QED BY <2>1, <2>2, <2>3 DEF Goes
<1>4. \A d \in Containers : m_state'[d] \subseteq 1..prog
  BY <1>1 DEF Walks
<1>5. Marked(Root)'
  <2>1. Root \in Containers /\ Marked(Root)
    BY <1>1, TreeAssumption DEF Walks
  <2> QED BY <2>1 DEF Goes, Marked
<1>6. \A f \in Frames' :
          /\ f.ph = prog' /\ Marked(f.mod)'
          /\ IF f.ph \in Forward THEN f.i >= 1 ELSE f.i <= m_dep_cnt(f.mod)'
  BY <1>2, <1>3 DEF m_dep_cnt
<1> QED BY <1>1, <1>2, <1>4, <1>5, <1>6 DEF Walks

(* A walk that is about to begin.                                           *)
LEMMA NewWalk ==
    ASSUME TypeOK, NEW c \in Containers, NEW p \in 1..7
    PROVE  LET n == Walk(c, p) IN
           /\ n \in Frame /\ n.mod = c /\ n.ph = p
           /\ \A j \in DOMAIN m_dep_idx[c] : ~Called(n, j)
           /\ IF p \in Forward THEN n.i >= 1 ELSE n.i <= m_dep_cnt(c)
<1>1. m_dep_cnt(c) \in Nat /\ DOMAIN m_dep_idx[c] = 1..m_dep_cnt(c)
  BY SlotTypes
<1> DEFINE n == Walk(c, p)
<1>2. /\ n \in Frame /\ n.mod = c /\ n.ph = p /\ n.call = "virtual"
      /\ n.i = IF p \in Forward THEN 1 ELSE m_dep_cnt(c)
  BY <1>1, PhaseFacts DEF Walk, Frame
<1> HIDE DEF n
<1>3. \A j \in 1..m_dep_cnt(c) : ~Called(n, j)
  BY <1>1, <1>2 DEF Called, Past
<1> QED BY <1>1, <1>2, <1>3 DEF n

(* What Module::mod_init ... mod_cleanup do when called for m.              *)
LEMMA BaseEffect ==
    ASSUME TypeOK, NEW m \in Mods, NEW p \in 1..7, NEW below, BasePhase(m, p, below)
    PROVE  /\ m_state' \in [Mods -> SUBSET (1..7)]
           /\ \A x \in Mods \ {m} : m_state'[x] = m_state[x]
           /\ \/ /\ m \in Containers => m_state'[m] = m_state[m] /\ p \in m_state[m]
                 /\ stack' = below
              \/ /\ m \in Containers /\ p \notin m_state[m]
                 /\ m_state'[m] = m_state[m] \cup {p}
                 /\ stack' = Append(below, Walk(m, p))
<1>1. m_state \in [Mods -> SUBSET (1..7)]
  BY PhaseFacts DEF TypeOK
<1>2. m \in Containers => m \notin Leaves
  BY TreeAssumption
<1>3. m \notin Leaves => m \in Containers
  BY DEF Mods
<1>4. CASE m \in Leaves \/ p \in m_state[m]
  <2>1. /\ m_state' = [m_state EXCEPT ![m] = IF Phases[p] = "cleanup" THEN @ ELSE @ \cup {p}]
        /\ stack' = below
    BY <1>4 DEF BasePhase
  <2>2. m_state' \in [Mods -> SUBSET (1..7)] /\ \A x \in Mods \ {m} : m_state'[x] = m_state[x]
    BY <2>1, <1>1
  <2>3. m \in Containers => m_state'[m] = m_state[m] /\ p \in m_state[m]
    BY <2>1, <1>1, <1>2, <1>4
  <2> QED BY <2>1, <2>2, <2>3
<1>5. CASE ~(m \in Leaves \/ p \in m_state[m])
  <2>1. /\ m_state' = [m_state EXCEPT ![m] = @ \cup {p}]
        /\ stack' = Append(below, Walk(m, p))
    BY <1>5 DEF BasePhase
  <2> QED BY <2>1, <1>1, <1>3, <1>5
<1> QED BY <1>4, <1>5

(* The types of what a walk changes.                                        *)
LEMMA WalkTypes ==
    ASSUME TypeOK, stack' \in Seq(Frame), m_state' \in [Mods -> SUBSET (1..7)],
           ran' \in Seq((1..7) \X Mods),
           UNCHANGED <<treeVars, prog, solo, expected>>
    PROVE  TypeOK'
BY PhaseFacts DEF TypeOK, treeVars, Frame

(* A step in which the innermost walk goes on to g and calls no base        *)
(* version.                                                                 *)
LEMMA MoveStep ==
    ASSUME IInv, stack # <<>>, NEW t, t = Top, NEW g, Ahead(t, g),
           stack' = Append(Below, g), m_state' = m_state,
           UNCHANGED <<treeVars, prog, solo, expected>>
    PROVE  /\ Goes(t, g, {}) /\ Walks' /\ stack' \in Seq(Frame)
           /\ m_state' \in [Mods -> SUBSET (1..7)]
<1>1. /\ t \in Frames /\ Frames \subseteq Frame /\ prog \in 1..7
      /\ stack \in Seq(Frame) /\ Apart(stack)
  BY TopFacts DEF IInv
<1>2. g \in Frame /\ g.mod = stack[Len(stack)].mod /\ t = stack[Len(stack)]
  BY DEF Ahead, Top
<1>3. /\ stack' \in Seq(Frame) /\ stack' # <<>> /\ Apart(stack')
      /\ Elements(stack') = (Elements(stack) \ {t}) \cup {g}
  BY <1>1, <1>2, TopReplaced DEF Below
<1>4. Frames' = (Frames \ {t}) \cup {g}
  BY <1>3 DEF Frames
<1>5. \A d \in Containers : Marked(d)' <=> Marked(d)
  BY DEF Marked
<1>6. Goes(t, g, {})
  BY <1>1, <1>4, <1>5 DEF Goes, treeVars
<1>7. Walks'
  <2>1. TypeOK /\ Walks /\ \A d \in Containers : m_state'[d] \subseteq m_state[d] \cup {prog}
    BY DEF IInv
  <2> QED BY <2>1, <1>3, <1>6, GoesWalks
<1>8. m_state' \in [Mods -> SUBSET (1..7)]
  BY PhaseFacts DEF IInv, TypeOK
<1> QED BY <1>3, <1>6, <1>7, <1>8

(* A step in which the innermost walk goes on to g and calls the base       *)
(* version for m: either nothing is walked, or a walk of m begins.          *)
LEMMA BaseStep ==
    ASSUME IInv, stack # <<>>, NEW t, t = Top, NEW g, Ahead(t, g), NEW m \in Mods,
           BasePhase(m, prog, Append(Below, g)),
           UNCHANGED <<treeVars, prog, solo, expected>>
    PROVE  /\ \E new : Goes(t, g, new)
           /\ m \in Containers => Marked(m)'
           /\ \A d \in Containers \ {m} : m_state'[d] = m_state[d]
           /\ \A x \in Mods \ {m} : m_state'[x] = m_state[x]
           /\ Walks' /\ stack' \in Seq(Frame) /\ m_state' \in [Mods -> SUBSET (1..7)]
<1> DEFINE s == Append(Below, g)
<1>1. /\ t \in Frames /\ Frames \subseteq Frame /\ prog \in 1..7
      /\ stack \in Seq(Frame) /\ Apart(stack)
      /\ \A f \in Frames : Marked(f.mod)
      /\ TypeOK /\ Walks
  BY TopFacts DEF IInv
<1>2. g \in Frame /\ g.mod = stack[Len(stack)].mod /\ t = stack[Len(stack)] /\ g.mod = t.mod
  BY DEF Ahead, Top
<1>3. /\ s \in Seq(Frame) /\ s # <<>> /\ Apart(s)
      /\ Elements(s) = (Elements(stack) \ {t}) \cup {g}
  BY <1>1, <1>2, TopReplaced DEF Below
<1>4. /\ m_state' \in [Mods -> SUBSET (1..7)]
      /\ \A x \in Mods \ {m} : m_state'[x] = m_state[x]
      /\ \/ /\ m \in Containers => m_state'[m] = m_state[m] /\ prog \in m_state[m]
            /\ stack' = s
         \/ /\ m \in Containers /\ prog \notin m_state[m]
            /\ m_state'[m] = m_state[m] \cup {prog}
            /\ stack' = Append(s, Walk(m, prog))
  BY <1>1, BaseEffect
<1>5. Containers \subseteq Mods /\ prog' = prog /\ m_dep_idx' = m_dep_idx
  BY DEF Mods, treeVars
<1>6. ASSUME m \in Containers => m_state'[m] = m_state[m] /\ prog \in m_state[m], stack' = s
      PROVE  Goes(t, g, {}) /\ Walks' /\ stack' \in Seq(Frame) /\ (m \in Containers => Marked(m)')
  <2>1. \A d \in Containers : m_state'[d] = m_state[d]
    BY <1>4, <1>5, <1>6
  <2>2. \A d \in Containers : Marked(d)' <=> Marked(d)
    BY <2>1, <1>5 DEF Marked
  <2>3. Frames' = (Frames \ {t}) \cup {g}
    BY <1>3, <1>6 DEF Frames
  <2>4. Goes(t, g, {})
    BY <1>1, <1>5, <2>2, <2>3 DEF Goes
  <2>5. Walks'
    <3>1. Apart(stack') /\ stack' # <<>> /\ \A d \in Containers : m_state'[d] \subseteq m_state[d] \cup {prog}
      BY <1>3, <1>6, <2>1
    <3> QED BY <3>1, <1>1, <2>4, GoesWalks
  <2>6. m \in Containers => Marked(m)'
    BY <1>5, <1>6 DEF Marked
  <2> QED BY <2>4, <2>5, <2>6, <1>3, <1>6
<1>7. ASSUME m \in Containers, prog \notin m_state[m], m_state'[m] = m_state[m] \cup {prog},
             stack' = Append(s, Walk(m, prog))
      PROVE  Goes(t, g, {Walk(m, prog)}) /\ Walks' /\ stack' \in Seq(Frame) /\ Marked(m)'
  <2>1. PICK n : n = Walk(m, prog)
    OBVIOUS
  <2>2. /\ n \in Frame /\ n.mod = m /\ n.ph = prog
        /\ \A j \in DOMAIN m_dep_idx[m] : ~Called(n, j)
        /\ IF prog \in Forward THEN n.i >= 1 ELSE n.i <= m_dep_cnt(m)
    BY <1>1, <1>7, <2>1, NewWalk
  <2>3. ~Marked(m)
    BY <1>7 DEF Marked
  <2>4. \A f \in Elements(s) : f.mod # n.mod
    BY <1>1, <1>2, <1>3, <2>2, <2>3 DEF Frames
  <2>5. /\ stack' \in Seq(Frame) /\ stack' # <<>> /\ Apart(stack')
        /\ Elements(stack') = Elements(s) \cup {n}
    BY <1>3, <1>7, <2>1, <2>2, <2>4, TopPushed
  <2>6. Frames' = (Frames \ {t}) \cup {g} \cup {n}
    BY <1>3, <2>5 DEF Frames
  <2>7. \A d \in Containers : Marked(d)' <=> (Marked(d) \/ \E x \in {n} : x.mod = d)
    BY <1>4, <1>5, <1>7, <2>2 DEF Marked
  <2>8. Goes(t, g, {n})
    BY <1>1, <1>5, <2>2, <2>3, <2>6, <2>7 DEF Goes
  <2>9. Walks'
    <3>1. \A d \in Containers : m_state'[d] \subseteq m_state[d] \cup {prog}
      BY <1>4, <1>5, <1>7
    <3> QED BY <3>1, <1>1, <2>5, <2>8, GoesWalks
  <2> QED BY <2>1, <2>5, <2>7, <2>8, <2>9, <1>7, <2>2
<1>8. \A d \in Containers \ {m} : m_state'[d] = m_state[d]
  BY <1>4, <1>5
<1> HIDE DEF s
<1> QED BY <1>4, <1>6, <1>7, <1>8

-----------------------------------------------------------------------------

(* A walk that goes on advances.                                            *)
LEMMA GoesAdvance ==
    ASSUME IInv, stack # <<>>, NEW t, NEW g, NEW new, Goes(t, g, new),
           NEW m, m = m_dep_idx[t.mod][t.i], t.i \in DOMAIN m_dep_idx[t.mod],
           UNCHANGED <<treeVars, prog, solo, expected>>,
           (m \in Containers => Marked(m)') \/ (\A j \in Int : Past(g, j) => Past(t, j)),
           \A d \in Containers : Marked(d)' => Marked(d) \/ d = m,
           \A x \in Mods \ {m} : m_state'[x] = m_state[x],
           m # Null /\ <<m, prog>> \in Overrides => Ran(prog, m)' \/ Called(t, t.i),
           ran' = ran \/ Calls(t.mod, t.i, m)
    PROVE  Advance(t.mod, t.i, m)
<1>1. t \in Frame /\ t.mod \in Containers /\ prog > 0
  <2>1. t \in Frame /\ prog \in 1..7
    BY TopFacts DEF IInv, Goes
  <2> QED BY <2>1 DEF Frame
<1>2. ASSUME NEW d \in Containers, NEW j \in DOMAIN m_dep_idx[d]
      PROVE  /\ Reached(d, j) => Reached(d, j)'
             /\ Reached(d, j)' => Reached(d, j) \/ (d = t.mod /\ j = t.i)
             /\ Done(d, j)' => Done(d, j) \/ (d = t.mod /\ j = t.i)
             /\ d = t.mod /\ j = t.i => Reached(d, j)'
             /\ d = t.mod => (Reached(d, j) <=> Called(t, j))
             /\ d = t.mod => (Done(d, j) <=> Past(t, j)) /\ (Done(d, j)' <=> Past(g, j))
             /\ j \in Int
  BY GoesReached, SlotTypes DEF IInv
<1>3. ASSUME NEW d \in Containers, Marked(d) PROVE Marked(d)'
  BY <1>3 DEF Goes
<1>4. Reached(t.mod, t.i)' /\ (Reached(t.mod, t.i) <=> Called(t, t.i))
  BY <1>1, <1>2
<1>5. \A x \in Solo \ st_register : m_state'[x] = m_state[x]
  <2>1. ASSUME m \in Solo PROVE m \in st_register
    <3>1. m \in Mods /\ m # Null
      BY <2>1, TreeAssumption DEF Mods
    <3>2. m \in InTree
      BY <3>1, <1>1, InTreeSlots
    <3> QED BY <3>2, <2>1, ShapeAssumption DEF IInv, Placed
  <2> QED BY <2>1, TreeAssumption DEF Mods
<1>6. \A d \in Containers : \A j \in DOMAIN m_dep_idx[d] :
          /\ Reached(d, j) => Reached(d, j)'
          /\ Reached(d, j)' =>
                \/ Reached(d, j)
                \/ d = t.mod /\ j = t.i /\ (m # Null /\ <<m, prog>> \in Overrides => Ran(prog, m)')
          /\ Done(d, j)' =>
                \/ Done(d, j)
                \/ d = t.mod /\ j = t.i /\ (m \in Containers => Marked(m)')
  BY <1>2, <1>4
<1>7. \A d \in Containers :
          /\ Marked(d) => Marked(d)'
          /\ Marked(d)' =>
                \/ Marked(d)
                \/ d = m /\ t.i \in DOMAIN m_dep_idx[t.mod] /\ Reached(t.mod, t.i)'
  BY <1>3, <1>4
<1> QED BY <1>1, <1>5, <1>6, <1>7 DEF Advance

(* The slot the innermost walk is at.                                       *)
LEMMA SubFacts ==
    ASSUME IInv, stack # <<>>, NEW t, t = Top, InRange(t)
    PROVE  /\ t \in Frame /\ t \in Frames /\ t.mod \in Containers /\ t.ph = prog
           /\ t.i \in DOMAIN m_dep_idx[t.mod] /\ t.i \in Int
           /\ Sub = m_dep_idx[t.mod][t.i] /\ (Sub # Null => Sub \in Mods)
           /\ prog \in 1..7
<1>1. t \in Frame /\ t \in Frames /\ t.ph = prog /\ prog \in 1..7
  BY TopFacts DEF IInv
<1>2. t.mod \in Containers /\ t.i \in Int
  BY <1>1 DEF Frame
<1>3. m_dep_idx[t.mod][t.i] \in Mods \cup {Null}
  BY <1>2, SlotTypes DEF IInv, InRange
<1> QED BY <1>1, <1>2, <1>3 DEF InRange, Sub

LEMMA StepNull ==
    ASSUME IInv, walk_null
    PROVE  IInv'
<1>1. PICK t : t = Top
  OBVIOUS
<1>2. stack # <<>> /\ InRange(t) /\ Sub = Null /\ stack' = Append(Below, Moved(t))
  BY <1>1 DEF walk_null
<1>3. UNCHANGED <<treeVars, prog, solo, expected>> /\ ran' = ran /\ m_state' = m_state
  BY DEF walk_null
<1>4. /\ t \in Frame /\ t.i \in DOMAIN m_dep_idx[t.mod]
      /\ Sub = m_dep_idx[t.mod][t.i]
  BY <1>1, <1>2, SubFacts
<1>5. PICK g : g = Moved(t)
  OBVIOUS
<1>6. Ahead(t, g)
  BY <1>4, <1>5, AheadMove
<1>7. /\ Goes(t, g, {}) /\ Walks' /\ stack' \in Seq(Frame)
      /\ m_state' \in [Mods -> SUBSET (1..7)]
  BY <1>1, <1>2, <1>3, <1>5, <1>6, MoveStep
<1>8. PICK m : m = Null
  OBVIOUS
<1>9. Advance(t.mod, t.i, m)
  <2>1. m \notin Containers
    BY <1>8, TreeAssumption DEF Mods
  <2>2. \A d \in Containers : Marked(d)' => Marked(d)
    BY <1>3 DEF Marked
  <2>3. m = m_dep_idx[t.mod][t.i]
    BY <1>2, <1>4, <1>8
  <2> QED BY <2>1, <2>2, <2>3, <1>2, <1>3, <1>4, <1>7, <1>8, GoesAdvance
<1>10. /\ SlotsAgree' /\ Placed' /\ Expectations' /\ Progressed' /\ Worked'
       /\ Alone' /\ Once' /\ Siblings' /\ Outer' /\ StartedFirst'
       /\ ran' \in Seq((1..7) \X Mods)
  BY <1>9, AdvanceKeeps
<1>11. TypeOK'
  BY <1>3, <1>7, <1>10, WalkTypes DEF IInv
<1> QED BY <1>7, <1>10, <1>11 DEF IInv

LEMMA StepOverride ==
    ASSUME IInv, walk_override
    PROVE  IInv'
<1>1. PICK t : t = Top
  OBVIOUS
<1>2. PICK m : m = Sub
  OBVIOUS
<1>3. PICK g : g = [t EXCEPT !.call = "base"]
  OBVIOUS
<1>4. /\ stack # <<>> /\ InRange(t) /\ m # Null /\ t.call = "virtual" /\ <<m, t.ph>> \in Overrides
      /\ ran' = Append(ran, <<t.ph, m>>) /\ stack' = Append(Below, g)
      /\ UNCHANGED <<treeVars, prog, solo, expected>> /\ m_state' = m_state
  BY <1>1, <1>2, <1>3 DEF walk_override
<1>5. /\ t \in Frame /\ t \in Frames /\ t.mod \in Containers /\ t.ph = prog
      /\ t.i \in DOMAIN m_dep_idx[t.mod] /\ t.i \in Int
      /\ m = m_dep_idx[t.mod][t.i] /\ m \in Mods /\ prog \in 1..7
  BY <1>1, <1>2, <1>4, SubFacts
<1>6. Ahead(t, g)
  BY <1>3, <1>4, <1>5, AheadCall
<1>7. /\ Goes(t, g, {}) /\ Walks' /\ stack' \in Seq(Frame)
      /\ m_state' \in [Mods -> SUBSET (1..7)]
  BY <1>1, <1>4, <1>6, MoveStep
<1>8. Calls(t.mod, t.i, m)
  <2>1. ASSUME NEW j \in DOMAIN m_dep_idx[t.mod]
        PROVE  /\ j = t.i => Reached(t.mod, j)'
               /\ Reached(t.mod, j) <=> Called(t, j)
    BY <1>4, <1>5, <1>7, GoesReached DEF IInv
  <2>2. \A j \in DOMAIN m_dep_idx[t.mod] : j \in Int
    BY <1>5, SlotTypes DEF IInv
  <2>3. ASSUME NEW j \in DOMAIN m_dep_idx[t.mod], Called(t, j)
        PROVE  IF prog \in Start THEN j < t.i ELSE j > t.i
    BY <2>2, <2>3, <1>4, <1>5 DEF Called, Past, Forward
  <2>4. ~Called(t, t.i)
    BY <1>4, <1>5 DEF Called, Past
  <2>5. ~Reached(t.mod, t.i) /\ Reached(t.mod, t.i)'
    BY <2>1, <2>4, <1>5
  <2> QED BY <2>1, <2>3, <2>5, <1>4, <1>5 DEF Calls
<1>9. Advance(t.mod, t.i, m)
  <2>1. \A d \in Containers : Marked(d)' <=> Marked(d)
    BY <1>4 DEF Marked
  <2>2. Ran(prog, m)'
    <3>1. ran \in Seq((1..7) \X Mods) /\ <<prog, m>> \in (1..7) \X Mods /\ ran' = Append(ran, <<prog, m>>)
      BY <1>4, <1>5, PhaseFacts DEF IInv, TypeOK
    <3>2. Len(ran) + 1 \in DOMAIN ran' /\ ran'[Len(ran) + 1] = <<prog, m>>
      BY <3>1, EntryAdded
    <3> QED BY <3>2, <1>4 DEF Ran
  <2>3. \A j \in Int : Past(g, j) => Past(t, j)
    <3>1. g.ph = t.ph /\ g.i = t.i
      BY <1>3, <1>5 DEF Frame
    <3> QED BY <3>1 DEF Past
  <2> QED BY <2>1, <2>2, <2>3, <1>4, <1>5, <1>7, <1>8, GoesAdvance
<1>10. /\ SlotsAgree' /\ Placed' /\ Expectations' /\ Progressed' /\ Worked'
       /\ Alone' /\ Once' /\ Siblings' /\ Outer' /\ StartedFirst'
       /\ ran' \in Seq((1..7) \X Mods)
  BY <1>9, AdvanceKeeps
<1>11. TypeOK'
  BY <1>4, <1>7, <1>10, WalkTypes DEF IInv
<1> QED BY <1>7, <1>10, <1>11 DEF IInv

(* The two base calls, after the virtual call reached the base version or   *)
(* by name.                                                                 *)
LEMMA StepBase ==
    ASSUME IInv, stack # <<>>, NEW t, t = Top, InRange(t), NEW m, m = Sub, m # Null,
           NEW g, Ahead(t, g), BasePhase(m, t.ph, Append(Below, g)),
           <<m, t.ph>> \notin Overrides \/ Called(t, t.i),
           UNCHANGED <<treeVars, prog, solo, ran, expected>>
    PROVE  IInv'
<1>1. /\ t \in Frame /\ t \in Frames /\ t.mod \in Containers /\ t.ph = prog
      /\ t.i \in DOMAIN m_dep_idx[t.mod] /\ t.i \in Int
      /\ m = m_dep_idx[t.mod][t.i] /\ m \in Mods /\ prog \in 1..7
  BY SubFacts
<1>2. /\ \E new : Goes(t, g, new)
      /\ m \in Containers => Marked(m)'
      /\ \A d \in Containers \ {m} : m_state'[d] = m_state[d]
      /\ \A x \in Mods \ {m} : m_state'[x] = m_state[x]
      /\ Walks' /\ stack' \in Seq(Frame) /\ m_state' \in [Mods -> SUBSET (1..7)]
  BY <1>1, BaseStep
<1>3. PICK new : Goes(t, g, new)
  BY <1>2
<1>4. \A d \in Containers : Marked(d)' => Marked(d) \/ d = m
  BY <1>2 DEF Marked
<1>5. Advance(t.mod, t.i, m)
  BY <1>1, <1>2, <1>3, <1>4, GoesAdvance
<1>6. /\ SlotsAgree' /\ Placed' /\ Expectations' /\ Progressed' /\ Worked'
      /\ Alone' /\ Once' /\ Siblings' /\ Outer' /\ StartedFirst'
      /\ ran' \in Seq((1..7) \X Mods)
  BY <1>5, AdvanceKeeps
<1>7. TypeOK'
  BY <1>2, <1>6, WalkTypes DEF IInv
<1> QED BY <1>2, <1>6, <1>7 DEF IInv

LEMMA StepVirtual ==
    ASSUME IInv, walk_virtual
    PROVE  IInv'
<1>1. PICK t : t = Top
  OBVIOUS
<1>2. PICK m : m = Sub
  OBVIOUS
<1>3. PICK g : g = [t EXCEPT !.call = "base"]
  OBVIOUS
<1>4. /\ stack # <<>> /\ InRange(t) /\ m # Null /\ t.call = "virtual" /\ <<m, t.ph>> \notin Overrides
      /\ BasePhase(m, t.ph, Append(Below, g)) /\ UNCHANGED <<treeVars, prog, solo, ran, expected>>
  BY <1>1, <1>2, <1>3 DEF walk_virtual
<1>5. Ahead(t, g)
  BY <1>1, <1>3, <1>4, SubFacts, AheadCall
<1> QED BY <1>1, <1>2, <1>4, <1>5, StepBase

LEMMA StepBaseCall ==
    ASSUME IInv, walk_base
    PROVE  IInv'
<1>1. PICK t : t = Top
  OBVIOUS
<1>2. PICK m : m = Sub
  OBVIOUS
<1>3. PICK g : g = Moved(t)
  OBVIOUS
<1>4. /\ stack # <<>> /\ InRange(t) /\ m # Null /\ t.call = "base"
      /\ BasePhase(m, t.ph, Append(Below, g)) /\ UNCHANGED <<treeVars, prog, solo, ran, expected>>
  BY <1>1, <1>2, <1>3 DEF walk_base
<1>5. Ahead(t, g) /\ Called(t, t.i)
  BY <1>1, <1>3, <1>4, SubFacts, AheadMove DEF Called
<1> QED BY <1>1, <1>2, <1>4, <1>5, StepBase

(* The innermost walk ends: all its slots are behind it.                    *)
LEMMA StepReturn ==
    ASSUME IInv, walk_return
    PROVE  IInv'
<1>1. PICK t : t = Top
  OBVIOUS
<1>2. /\ stack # <<>> /\ ~InRange(t) /\ stack' = Below /\ m_state' = m_state /\ ran' = ran
      /\ UNCHANGED <<treeVars, prog, solo, expected>>
      /\ prog' = prog /\ m_dep_idx' = m_dep_idx /\ expected' = expected
  BY <1>1 DEF walk_return, treeVars
<1>3. /\ t \in Frames /\ Frames \subseteq Frame /\ prog \in 1..7
      /\ \A f, g \in Frames : f.mod = g.mod => f = g
      /\ \A f \in Frames : /\ f.ph = prog /\ Marked(f.mod)
                           /\ IF f.ph \in Forward THEN f.i >= 1 ELSE f.i <= m_dep_cnt(f.mod)
      /\ stack \in Seq(Frame) /\ Apart(stack) /\ TypeOK /\ Walks
  BY <1>1, <1>2, TopFacts DEF IInv
<1>4. /\ stack' \in Seq(Frame) /\ Apart(stack') /\ Frames' = Frames \ {t}
  BY <1>1, <1>2, <1>3, TopPopped DEF Below, Top, Frames
<1>5. t.mod \in Containers /\ t.i \in Int
  BY <1>3 DEF Frame
<1>6. \A j \in DOMAIN m_dep_idx[t.mod] : Past(t, j) /\ Called(t, j)
  <2>1. m_dep_cnt(t.mod) \in Nat /\ DOMAIN m_dep_idx[t.mod] = 1..m_dep_cnt(t.mod)
    BY <1>3, <1>5, SlotTypes
  <2>2. t.i \notin 1..m_dep_cnt(t.mod)
    BY <1>2, <2>1 DEF InRange
  <2>3. IF t.ph \in Forward THEN t.i > m_dep_cnt(t.mod) ELSE t.i < 1
    BY <1>3, <1>5, <2>1, <2>2
  <2> QED BY <2>1, <2>3, <1>5 DEF Past, Called
<1>7. \A d \in Containers : Marked(d)' <=> Marked(d)
  BY <1>2 DEF Marked
<1>8. ASSUME NEW d \in Containers, NEW j \in DOMAIN m_dep_idx[d]
      PROVE  (Reached(d, j)' <=> Reached(d, j)) /\ (Done(d, j)' <=> Done(d, j))
  BY <1>3, <1>4, <1>6, <1>7 DEF Reached, Done, Called, Past
<1>9. PICK m : m = m_dep_idx[t.mod][t.i]
  OBVIOUS
<1>10. Advance(t.mod, t.i, m)
  BY <1>2, <1>3, <1>5, <1>7, <1>8, <1>9 DEF Advance
<1>11. /\ SlotsAgree' /\ Placed' /\ Expectations' /\ Progressed' /\ Worked'
       /\ Alone' /\ Once' /\ Siblings' /\ Outer' /\ StartedFirst'
       /\ ran' \in Seq((1..7) \X Mods)
  BY <1>10, AdvanceKeeps
<1>12. m_state' \in [Mods -> SUBSET (1..7)]
  BY <1>2, <1>3, PhaseFacts DEF TypeOK
<1>13. TypeOK'
  BY <1>2, <1>3, <1>4, <1>11, <1>12, WalkTypes
<1>14. Walks'
  BY <1>2, <1>3, <1>4 DEF Walks, Marked, m_dep_cnt
<1> QED BY <1>11, <1>13, <1>14 DEF IInv

-----------------------------------------------------------------------------

(* When no walk is left, the phase has reached everything: the marked       *)
(* containers contain p_module and, with a container, those in its slots.   *)
LEMMA Complete ==
    ASSUME IInv, stack = <<>>, prog > 0
    PROVE  /\ \A c \in Containers : Marked(c)
           /\ \A c \in Containers : \A j \in DOMAIN m_dep_idx[c] : Reached(c, j)
<1>1. Frames = {}
  BY DEF Frames, Elements
<1> DEFINE D == {c \in Containers : Marked(c)}
<1>2. Root \in D
  BY TreeAssumption DEF IInv, Walks
<1>3. ASSUME NEW c \in D, NEW i \in DOMAIN FirstDeps[c], FirstDeps[c][i] \in Containers
      PROVE  FirstDeps[c][i] \in D
  <2>1. i \in DOMAIN m_dep_idx[c] /\ m_dep_idx[c][i] = FirstDeps[c][i]
    BY <1>3 DEF IInv, Placed
  <2>2. Done(c, i)
    BY <1>1 DEF Done
  <2>3. Marked(m_dep_idx[c][i])
    BY <1>3, <2>1, <2>2 DEF IInv, Progressed
  <2> QED BY <1>3, <2>1, <2>3
<1>4. D \in SUBSET Containers
  OBVIOUS
<1> HIDE DEF D
<1>5. D = Containers
  BY <1>2, <1>3, <1>4, ShapeAssumption
<1>6. \A c \in Containers : Marked(c)
  BY <1>5 DEF D
<1> QED BY <1>1, <1>6 DEF Reached

(* PhaseComplete, for every module of the tree that was expected.           *)
LEMMA CompleteRan ==
    ASSUME IInv, stack = <<>>, prog > 0, NEW m \in expected, <<m, prog>> \in Overrides
    PROVE  Ran(prog, m)
<1>1. PICK c \in Containers : \E j \in DOMAIN m_dep_idx[c] : m_dep_idx[c][j] = m
  BY InTreeSlots DEF IInv, Expectations
<1>2. PICK j \in DOMAIN m_dep_idx[c] : m_dep_idx[c][j] = m
  BY <1>1
<1>3. Reached(c, j)
  BY Complete
<1> QED BY <1>2, <1>3 DEF IInv, Progressed

(* p_module is in no slot.                                                  *)
LEMMA RootOutside ==
    ASSUME Placed
    PROVE  Root \notin InTree
BY TreeAssumption, ShapeAssumption DEF Placed

LEMMA StepPhase ==
    ASSUME IInv, prog_phase
    PROVE  IInv'
<1>1. /\ stack = <<>> /\ prog \in 0..6 /\ prog' = prog + 1 /\ expected' = InTree
      /\ BasePhase(Root, prog + 1, <<>>)
      /\ UNCHANGED <<treeVars, solo, ran>>
      /\ m_dep_idx' = m_dep_idx /\ st_register' = st_register /\ ran' = ran
  BY PhaseFacts DEF prog_phase, IInv, TypeOK, treeVars
<1>2. PICK p : p = prog + 1
  OBVIOUS
<1>3. p \in 1..7 /\ prog' = p
  BY <1>1, <1>2
<1>4. /\ TypeOK /\ Walks /\ Placed /\ SlotsAgree /\ Expectations /\ Worked /\ Alone
      /\ Root \in Containers /\ Root \in Mods /\ Containers \subseteq Mods
      /\ \A c \in Containers : p \notin m_state[c] /\ m_state[c] \subseteq 1..prog
  BY <1>1, <1>2, TreeAssumption DEF IInv, Walks, Mods
<1>5. /\ m_state' \in [Mods -> SUBSET (1..7)]
      /\ \A x \in Mods \ {Root} : m_state'[x] = m_state[x]
      /\ m_state'[Root] = m_state[Root] \cup {p}
      /\ stack' = Append(<<>>, Walk(Root, p))
  <2>1. BasePhase(Root, p, <<>>)
    BY <1>1, <1>2
  <2> QED BY <2>1, <1>3, <1>4, BaseEffect
<1>6. PICK n : n = Walk(Root, p)
  OBVIOUS
<1>7. /\ n \in Frame /\ n.mod = Root /\ n.ph = p
      /\ \A j \in DOMAIN m_dep_idx[Root] : ~Called(n, j)
      /\ IF p \in Forward THEN n.i >= 1 ELSE n.i <= m_dep_cnt(Root)
  BY <1>3, <1>4, <1>6, NewWalk
<1>8. stack' \in Seq(Frame) /\ stack' # <<>> /\ Apart(stack') /\ Frames' = {n}
  <2>1. <<>> \in Seq(Frame) /\ Apart(<<>>) /\ Elements(<<>>) = {}
    BY DEF Apart, Elements
  <2>2. PICK s : s = <<>>
    OBVIOUS
  <2>3. /\ Append(s, n) \in Seq(Frame) /\ Append(s, n) # <<>> /\ Apart(Append(s, n))
        /\ Elements(Append(s, n)) = Elements(s) \cup {n}
    BY <2>1, <2>2, <1>7, TopPushed
  <2>4. stack' = Append(s, n)
    BY <2>2, <1>5, <1>6
  <2>5. Elements(stack') = {n}
    BY <2>1, <2>2, <2>3, <2>4
  <2> QED BY <2>3, <2>4, <2>5 DEF Frames
<1>9. \A c \in Containers : Marked(c)' <=> c = Root
  BY <1>3, <1>4, <1>5 DEF Marked
<1>10. Walks'
  <2>1. \A c \in Containers : m_state'[c] \subseteq 1..prog'
    BY <1>1, <1>2, <1>3, <1>4, <1>5
  <2>2. \A f \in Frames' : f.ph = prog' /\ Marked(f.mod)'
    BY <1>3, <1>4, <1>7, <1>8, <1>9
  <2>3. \A f \in Frames' : IF f.ph \in Forward THEN f.i >= 1 ELSE f.i <= m_dep_cnt(f.mod)'
    BY <1>1, <1>7, <1>8 DEF m_dep_cnt
  <2> QED BY <2>1, <2>2, <2>3, <1>3, <1>4, <1>8, <1>9 DEF Walks
<1>11. InTree' = InTree /\ Placed' /\ SlotsAgree'
  BY <1>1, <1>4 DEF InTree, Slots, Placed, SlotsAgree, treeVars, m_dep_cnt
<1>12. \A x, q : Ran(q, x)' <=> Ran(q, x)
  BY <1>1 DEF Ran
<1>13. Expectations'
  <2>1. ASSUME NEW m \in InTree \ (Late \cup Solo), NEW q \in Start, q < p, <<m, q>> \in Overrides
        PROVE  Ran(q, m)
    <3>1. CASE q < prog
      BY <3>1, <2>1, <1>4 DEF Expectations
    <3>2. CASE q = prog
      <4>1. prog > 0 /\ m \in expected
        BY <3>2, <2>1, <1>1, <1>4, PhaseFacts DEF Expectations
      <4> QED BY <4>1, <3>2, <2>1, <1>1, CompleteRan
    <3> QED BY <3>1, <3>2, <2>1, <1>1, <1>2, PhaseFacts
  <2> QED BY <2>1, <1>1, <1>3, <1>11, <1>12 DEF Expectations
<1>14. ASSUME NEW c \in Containers, NEW j \in DOMAIN m_dep_idx[c]
       PROVE  ~Reached(c, j)' /\ ~Done(c, j)'
  <2>1. CASE c = Root
    <3>1. ~Called(n, j) /\ ~Past(n, j)
      BY <2>1, <1>7 DEF Called
    <3> QED BY <3>1, <2>1, <1>7, <1>8 DEF Reached, Done, Called, Past
  <2>2. CASE c # Root
    BY <2>2, <1>9 DEF Reached, Done
  <2> QED BY <2>1, <2>2
<1>15. Progressed'
  <2>1. ASSUME NEW c \in Containers, NEW j \in DOMAIN m_dep_idx[c], NEW x \in Containers,
               x = m_dep_idx[c][j]
        PROVE  ~Marked(x)'
    <3>1. x # Null
      BY TreeAssumption DEF Mods
    <3>2. x \in InTree
      BY <2>1, <3>1, InTreeSlots
    <3>3. x # Root
      BY <3>2, <1>4, RootOutside
    <3> QED BY <3>3, <1>9
  <2>2. ASSUME NEW c \in Containers, NEW j \in DOMAIN m_dep_idx[c], NEW x, x = m_dep_idx[c][j]
        PROVE  /\ ~Reached(c, j)' /\ ~Done(c, j)' /\ ~(x \in Containers /\ Marked(x)')
    BY <1>14, <2>1, <2>2
  <2> QED BY <2>2, <1>1 DEF Progressed
<1>16. Worked'
  <2>1. ASSUME NEW e \in DOMAIN ran
        PROVE  /\ ran[e][2] \in Solo \/ ran[e][2] \in InTree \/ ran[e][2] \in st_register
               /\ ran[e][2] \in InTree => ran[e][1] <= p /\ ran[e][1] # p
               /\ ran[e][2] \in Mods
    <3>1. ran[e] \in (1..7) \X Mods
      BY <1>4, PhaseFacts, ElementOfSeq, LenProperties DEF TypeOK
    <3>2. ran[e][1] \in 1..7 /\ ran[e][2] \in Mods
      BY <3>1
    <3> QED BY <3>2, <1>1, <1>2, <1>4 DEF Worked
  <2>2. ASSUME NEW e \in DOMAIN ran, NEW c \in Containers, NEW j \in DOMAIN m_dep_idx[c],
               m_dep_idx[c][j] = ran[e][2]
        PROVE  ran[e][1] # p
    <3>1. ran[e][2] # Null
      BY <2>1, TreeAssumption
    <3>2. ran[e][2] \in InTree
      BY <2>2, <3>1, InTreeSlots
    <3> QED BY <3>2, <2>1
  <2> QED BY <2>1, <2>2, <1>1, <1>3, <1>11 DEF Worked
<1>17. Alone'
  <2>1. \A x \in Solo : m_state'[x] = m_state[x]
    BY <1>4, <1>5, TreeAssumption DEF Mods
  <2>2. ASSUME NEW x \in Solo, x \in st_register \/ (\E e \in DOMAIN ran : ran[e][2] = x)
        PROVE  p > 4 /\ \A q \in Start : Ran(q, x)'
    BY <2>2, <1>1, <1>2, <1>4, <1>12 DEF Alone
  <2>3. \A e \in DOMAIN ran :
          ran[e][2] \in Solo \ st_register /\ ran[e][1] \in Stop =>
             /\ Stopped(ran[e][2])
             /\ ran[e][1] # 7 => ran[e][1] \in m_state[ran[e][2]]
    BY <1>4 DEF Alone
  <2>4. \A x \in Solo \ st_register : 5 \in m_state[x] => Stopped(x)
    BY <1>4 DEF Alone
  <2>5. \A d, e \in DOMAIN ran :
          /\ ran[d][2] \notin Solo /\ ran[e][2] \in Solo
          /\ ran[d][1] \in Start /\ ran[e][1] \in Start
          => d < e
    BY <1>4 DEF Alone
  <2> QED BY <2>1, <2>2, <2>3, <2>4, <2>5, <1>1, <1>3 DEF Alone, Stopped
<1>18. Once' /\ Siblings' /\ Outer' /\ StartedFirst'
  BY <1>1, <1>12 DEF IInv, Once, Siblings, Outer, StartedFirst, Ran
<1>19. TypeOK'
  <2>1. expected' \subseteq Mods
    BY <1>1, <1>4, TreeAssumption, ShapeAssumption DEF Placed, TypeOK, Mods
  <2>2. /\ st_register' \subseteq Mods /\ m_dep_idx' \in [Containers -> Seq(Mods \cup {Null})]
        /\ m_dep_siz' \in [Containers -> Nat] /\ m_index' \in [Mods -> Int]
        /\ solo' \in 0..MaxSolo /\ ran' \in Seq((DOMAIN Phases) \X Mods)
    BY <1>1, <1>4 DEF TypeOK, treeVars
  <2>3. /\ m_state' \in [Mods -> SUBSET DOMAIN Phases] /\ prog' \in 0..Len(Phases)
    BY <1>3, <1>5, PhaseFacts
  <2>4. stack' \in Seq([mod : Containers, ph : DOMAIN Phases,
                        call : {"virtual", "base"}, i : Int])
    BY <1>8 DEF Frame
  <2> QED BY <2>1, <2>2, <2>3, <2>4 DEF TypeOK
<1> QED BY <1>10, <1>11, <1>13, <1>15, <1>16, <1>17, <1>18, <1>19 DEF IInv

-----------------------------------------------------------------------------

(* mod_register and mod_register_index: module m, which is not in the tree  *)
(* and was not registered before, comes into slot k of container c.         *)
Places(c, k, m) ==
    /\ c \in Containers /\ m \in Late \cup Solo /\ m \notin InTree /\ m \notin st_register
    /\ prog > 0
    /\ DOMAIN m_dep_idx' = Containers
    /\ \A d \in Containers \ {c} : m_dep_idx'[d] = m_dep_idx[d]
    /\ DOMAIN m_dep_idx'[c] = DOMAIN m_dep_idx[c] \cup {k}
    /\ m_dep_idx'[c][k] = m
    /\ \A j \in DOMAIN m_dep_idx[c] \ {k} : m_dep_idx'[c][j] = m_dep_idx[c][j]
    /\ k \in DOMAIN m_dep_idx[c] => m_dep_idx[c][k] = Null
    /\ k \in Int /\ (m \in Solo => \A j \in DOMAIN m_dep_idx[c] : j < k)
    /\ st_register \subseteq st_register' /\ st_register' \subseteq st_register \cup {m}
    /\ m \in Solo => m \in st_register' /\ InRun /\ Started(m) /\ ~Stopped(m)
    /\ UNCHANGED <<m_state, stack, prog, solo, ran, expected>>

(* The slots after such a step.                                             *)
LEMMA PlacesSlots ==
    ASSUME IInv, NEW c, NEW k, NEW m, Places(c, k, m),
           NEW d \in Containers, NEW j \in DOMAIN m_dep_idx'[d]
    PROVE  \/ d = c /\ j = k /\ m_dep_idx'[d][j] = m
           \/ /\ j \in DOMAIN m_dep_idx[d] /\ m_dep_idx'[d][j] = m_dep_idx[d][j]
              /\ m_dep_idx[d][j] # m
<1>1. m \in Mods /\ m # Null
  BY TreeAssumption DEF Places, Mods
<1>2. ASSUME j \in DOMAIN m_dep_idx[d] PROVE m_dep_idx[d][j] # m
  BY <1>1, <1>2, InTreeSlots DEF Places
<1> QED BY <1>2 DEF Places

LEMMA PlacesInTree ==
    ASSUME IInv, NEW c, NEW k, NEW m, Places(c, k, m)
    PROVE  InTree' = InTree \cup {m}
<1>1. m \in Mods /\ m # Null
  BY TreeAssumption DEF Places, Mods
<1>2. \A x : x \in InTree' <=> \E d \in Containers : \E j \in DOMAIN m_dep_idx'[d] :
                                  m_dep_idx'[d][j] = x /\ x # Null
  BY DEF InTree, Slots
<1>3. ASSUME NEW x \in InTree' PROVE x \in InTree \cup {m}
  <2>1. PICK d \in Containers : \E j \in DOMAIN m_dep_idx'[d] : m_dep_idx'[d][j] = x /\ x # Null
    BY <1>2, <1>3
  <2>2. PICK j \in DOMAIN m_dep_idx'[d] : m_dep_idx'[d][j] = x /\ x # Null
    BY <2>1
  <2> QED BY <2>2, PlacesSlots, InTreeSlots
<1>4. ASSUME NEW x \in InTree PROVE x \in InTree'
  <2>1. PICK d \in Containers : \E j \in DOMAIN m_dep_idx[d] : m_dep_idx[d][j] = x /\ x # Null
    BY <1>4, InTreeSlots
  <2>2. PICK j \in DOMAIN m_dep_idx[d] : m_dep_idx[d][j] = x /\ x # Null
    BY <2>1
  <2>3. j \in DOMAIN m_dep_idx'[d] /\ m_dep_idx'[d][j] = x
    BY <2>2 DEF Places
  <2> QED BY <2>2, <2>3, <1>2
<1>5. m \in InTree'
  BY <1>1, <1>2 DEF Places
<1> QED BY <1>3, <1>4, <1>5

(* What the module has done before: nothing, or the start phases.           *)
LEMMA PlacesPast ==
    ASSUME IInv, NEW c, NEW k, NEW m, Places(c, k, m), NEW e \in DOMAIN ran, ran[e][2] = m
    PROVE  m \in Solo /\ ran[e][1] \in Start /\ prog = 4 /\ stack = <<>>
<1>1. Worked /\ Alone /\ TypeOK
  BY DEF IInv
<1>2. m \in Solo
  BY <1>1 DEF Worked, Places
<1>3. ran[e][1] \in 1..7
  <2>1. ran[e] \in (1..7) \X Mods
    BY <1>1, PhaseFacts, ElementOfSeq, LenProperties DEF TypeOK
  <2> QED BY <2>1
<1>4. ran[e][1] \notin Stop
  BY <1>1, <1>2 DEF Alone, Places
<1> QED BY <1>2, <1>3, <1>4, PhaseFacts DEF Places, InRun

LEMMA PlacesHistory ==
    ASSUME IInv, NEW c, NEW k, NEW m, Places(c, k, m)
    PROVE  /\ Expectations' /\ Progressed' /\ Worked' /\ Alone' /\ Once'
           /\ Siblings' /\ Outer' /\ StartedFirst'
<1>1. /\ m_state' = m_state /\ stack' = stack /\ prog' = prog /\ ran' = ran /\ expected' = expected
      /\ c \in Containers /\ m \in Late \cup Solo /\ m \notin InTree /\ m \notin st_register
  BY DEF Places
<1>2. InTree' = InTree \cup {m}
  BY PlacesInTree
<1>3. Expectations /\ Progressed /\ Worked /\ Alone /\ Once /\ Siblings /\ Outer /\ StartedFirst
      /\ Placed /\ TypeOK
  BY DEF IInv
<1>4. \A x, q : Ran(q, x)' <=> Ran(q, x)
  BY <1>1 DEF Ran
<1>5. \A d, j : (Reached(d, j)' <=> Reached(d, j)) /\ (Done(d, j)' <=> Done(d, j))
  BY <1>1 DEF Reached, Done, Marked, Frames, Called, Past
<1>6. \A d : Marked(d)' <=> Marked(d)
  BY <1>1 DEF Marked
<1>7. m \notin Containers /\ m \notin expected /\ m \in Mods /\ m # Null
  BY <1>1, <1>3, TreeAssumption DEF Expectations, Mods
<1>8. Expectations'
  <2>1. InTree' \ (Late \cup Solo) = InTree \ (Late \cup Solo)
    BY <1>1, <1>2
  <2> QED BY <2>1, <1>1, <1>2, <1>3, <1>4 DEF Expectations
<1>9. Progressed'
  <2> SUFFICES ASSUME NEW d \in Containers, NEW j \in DOMAIN m_dep_idx'[d],
                      NEW x, x = m_dep_idx'[d][j]
               PROVE  /\ Reached(d, j)' /\ x \in expected /\ <<x, prog>> \in Overrides => Ran(prog, x)
                      /\ Done(d, j)' /\ x \in Containers => Marked(x)'
                      /\ x \in Containers /\ Marked(x)' => Reached(d, j)'
    BY <1>1, <1>4 DEF Progressed, Ran
  <2>1. CASE x = m
    BY <2>1, <1>7
  <2>2. CASE x # m
    <3>1. j \in DOMAIN m_dep_idx[d] /\ x = m_dep_idx[d][j]
      BY <2>2, PlacesSlots
    <3> QED BY <3>1, <1>3, <1>5, <1>6 DEF Progressed
  <2> QED BY <2>1, <2>2
<1>10. Worked'
  <2> SUFFICES ASSUME NEW e \in DOMAIN ran
               PROVE  /\ ran[e][2] \in Solo \/ ran[e][2] \in InTree' \/ ran[e][2] \in st_register'
                      /\ ran[e][2] \in InTree' => ran[e][1] <= prog
                      /\ ran[e][1] = prog =>
                            \A d \in Containers : \A j \in DOMAIN m_dep_idx'[d] :
                                m_dep_idx'[d][j] = ran[e][2] => Reached(d, j)'
    BY <1>1 DEF Worked
  <2>1. CASE ran[e][2] = m
    <3>1. m \in Solo /\ ran[e][1] \in Start /\ prog = 4 /\ stack = <<>>
      BY <2>1, PlacesPast
    <3>2. ran[e][1] <= prog
      BY <3>1, PhaseFacts
    <3>3. ASSUME NEW d \in Containers, NEW j \in DOMAIN m_dep_idx'[d] PROVE Reached(d, j)'
      <4>1. Marked(d)
        BY <3>1, Complete
      <4>2. Frames = {}
        BY <3>1 DEF Frames, Elements
      <4>3. Reached(d, j)
        BY <4>1, <4>2 DEF Reached
      <4> QED BY <4>3, <1>5
    <3> QED BY <2>1, <3>1, <3>2, <3>3
  <2>2. CASE ran[e][2] # m
    <3>1. ASSUME NEW d \in Containers, NEW j \in DOMAIN m_dep_idx'[d], m_dep_idx'[d][j] = ran[e][2]
          PROVE  j \in DOMAIN m_dep_idx[d] /\ m_dep_idx[d][j] = ran[e][2]
      BY <2>2, <3>1, PlacesSlots
    <3>2. st_register \subseteq st_register'
      BY DEF Places
    <3> QED BY <3>1, <3>2, <2>2, <1>2, <1>3, <1>5 DEF Worked
  <2> QED BY <2>1, <2>2
<1>11. Alone'
  <2>1. ASSUME NEW x \in Solo, x \in st_register' \/ (\E e \in DOMAIN ran : ran[e][2] = x)
        PROVE  prog >= 4 /\ (prog = 4 => stack = <<>>) /\ \A q \in Start : Ran(q, x)
    <3>1. x \in st_register \/ (\E e \in DOMAIN ran : ran[e][2] = x)
      <4>1. CASE x = m
        BY <4>1, <2>1 DEF Places, Started
      <4>2. CASE x # m
        BY <4>2, <2>1 DEF Places
      <4> QED BY <4>1, <4>2
    <3> QED BY <3>1, <1>3 DEF Alone
  <2>2. st_register \subseteq st_register'
    BY DEF Places
  <2>3. \A e \in DOMAIN ran :
          ran[e][2] \in Solo \ st_register /\ ran[e][1] \in Stop =>
             /\ Stopped(ran[e][2])
             /\ ran[e][1] # 7 => ran[e][1] \in m_state[ran[e][2]]
    BY <1>3 DEF Alone
  <2>4. \A x \in Solo \ st_register : 5 \in m_state[x] => Stopped(x)
    BY <1>3 DEF Alone
  <2>5. \A d, e \in DOMAIN ran :
          /\ ran[d][2] \notin Solo /\ ran[e][2] \in Solo
          /\ ran[d][1] \in Start /\ ran[e][1] \in Start
          => d < e
    BY <1>3 DEF Alone
  <2>6. \A x \in Solo : x \in st_register' \/ (\E e \in DOMAIN ran' : ran'[e][2] = x) =>
          /\ prog' >= 4 /\ (prog' = 4 => stack' = <<>>)
          /\ \A p \in Start : Ran(p, x)'
    BY <2>1, <1>1, <1>4
  <2>7. \A e \in DOMAIN ran' :
          ran'[e][2] \in Solo \ st_register' /\ ran'[e][1] \in Stop =>
             /\ \E i \in DOMAIN ran' : ran'[i] = <<5, ran'[e][2]>>
             /\ ran'[e][1] # 7 => ran'[e][1] \in m_state'[ran'[e][2]]
    BY <2>2, <2>3, <1>1 DEF Stopped
  <2>8. \A x \in Solo \ st_register' : 5 \in m_state'[x] => \E i \in DOMAIN ran' : ran'[i] = <<5, x>>
    BY <2>2, <2>4, <1>1 DEF Stopped
  <2> QED BY <2>5, <2>6, <2>7, <2>8, <1>1 DEF Alone, Stopped
<1>12. Once'
  <2> SUFFICES ASSUME NEW d \in DOMAIN ran, NEW e \in DOMAIN ran, ran[d] = ran[e],
                      ~(ran[d][1] = 7 /\ ran[d][2] \in Solo \ st_register')
               PROVE  d = e
    BY <1>1 DEF Once
  <2>1. CASE ran[d][2] = m
    <3>1. ran[d][1] \in Start
      BY <2>1, PlacesPast
    <3>2. ran[d][1] # 7
      BY <3>1, PhaseFacts
    <3> QED BY <3>2, <1>3 DEF Once
  <2>2. CASE ran[d][2] # m
    <3>1. ran[d][2] \notin st_register => ran[d][2] \notin st_register'
      BY <2>2 DEF Places
    <3> QED BY <3>1, <1>3 DEF Once
  <2> QED BY <2>1, <2>2
<1>13. DOMAIN ran \subseteq Int
  BY <1>3, LenProperties DEF TypeOK
<1>14. Siblings'
  <2> SUFFICES ASSUME NEW d \in DOMAIN ran, NEW e \in DOMAIN ran, NEW b \in Containers,
                      NEW j \in DOMAIN m_dep_idx'[b], NEW l \in DOMAIN m_dep_idx'[b],
                      d < e, ran[d][1] = ran[e][1],
                      m_dep_idx'[b][j] = ran[d][2], m_dep_idx'[b][l] = ran[e][2]
               PROVE  IF ran[d][1] \in Start
                      THEN j < l \/ {ran[d][2], ran[e][2]} \subseteq Solo
                      ELSE j > l
    BY <1>1 DEF Siblings
  <2>1. CASE ran[d][2] = m
    <3>1. m \in Solo /\ ran[d][1] \in Start
      BY <2>1, PlacesPast
    <3>2. ran[e][2] \in Solo
      <4>1. ran[e][2] \notin Solo => e < d
        BY <3>1, <2>1, <1>3 DEF Alone
      <4> QED BY <4>1, <1>13
    <3> QED BY <3>1, <3>2, <2>1
  <2>2. CASE ran[d][2] # m /\ ran[e][2] = m
    <3>1. m \in Solo /\ ran[e][1] \in Start
      BY <2>2, PlacesPast
    <3>2. b = c /\ l = k
      BY <2>2, PlacesSlots
    <3>3. j \in DOMAIN m_dep_idx[c]
      BY <2>2, <3>2, PlacesSlots
    <3>4. j < k
      BY <3>1, <3>3 DEF Places
    <3> QED BY <3>1, <3>2, <3>4
  <2>3. CASE ran[d][2] # m /\ ran[e][2] # m
    <3>1. /\ j \in DOMAIN m_dep_idx[b] /\ m_dep_idx[b][j] = ran[d][2]
          /\ l \in DOMAIN m_dep_idx[b] /\ m_dep_idx[b][l] = ran[e][2]
      BY <2>3, PlacesSlots
    <3> QED BY <3>1, <1>3 DEF Siblings
  <2> QED BY <2>1, <2>2, <2>3
<1>15. Outer'
  <2> SUFFICES ASSUME NEW d \in DOMAIN ran, NEW e \in DOMAIN ran, NEW b \in Containers,
                      NEW j \in DOMAIN m_dep_idx'[b],
                      d < e, ran[d][1] = ran[e][1],
                      m_dep_idx'[b][j] = ran[d][2], ran[e][2] = b
               PROVE  FALSE
    BY <1>1 DEF Outer
  <2>1. CASE ran[d][2] = m
    <3>1. m \in Solo /\ ran[d][1] \in Start
      BY <2>1, PlacesPast
    <3>2. b \notin Solo
      BY TreeAssumption
    <3>3. e < d
      BY <3>1, <3>2, <2>1, <1>3 DEF Alone
    <3> QED BY <3>3, <1>13
  <2>2. CASE ran[d][2] # m
    <3>1. j \in DOMAIN m_dep_idx[b] /\ m_dep_idx[b][j] = ran[d][2]
      BY <2>2, PlacesSlots
    <3> QED BY <3>1, <1>3 DEF Outer
  <2> QED BY <2>1, <2>2
<1>16. StartedFirst'
  BY <1>1, <1>3 DEF StartedFirst, Ran
<1> QED BY <1>8, <1>9, <1>10, <1>11, <1>12, <1>14, <1>15, <1>16

(* A module that is placed knows its slot, and leaves the others theirs.    *)
LEMMA StepPlaces ==
    ASSUME IInv, NEW c, NEW k, NEW m, Places(c, k, m),
           m_index' = [m_index EXCEPT ![m] = k - 1],
           m_dep_idx' \in [Containers -> Seq(Mods \cup {Null})],
           m_dep_siz' \in [Containers -> Nat],
           \A d \in Containers : /\ m_dep_cnt(d) <= m_dep_cnt(d)'
                                 /\ m_dep_cnt(d)' < m_dep_siz'[d]
    PROVE  IInv'
<1>1. /\ m_state' = m_state /\ stack' = stack /\ prog' = prog /\ ran' = ran /\ expected' = expected
      /\ solo' = solo /\ st_register' \subseteq st_register \cup {m} /\ st_register \subseteq st_register'
      /\ c \in Containers /\ m \in Late \cup Solo /\ m \notin InTree /\ m \notin st_register
      /\ k \in Int
  BY DEF Places
<1>2. m \in Mods /\ m # Null /\ m \notin Containers /\ m \notin FirstMods
  BY <1>1, TreeAssumption, ShapeAssumption DEF Mods
<1>3. TypeOK /\ SlotsAgree /\ Placed /\ Walks
  BY DEF IInv
<1>4. TypeOK'
  BY <1>1, <1>2, <1>3, SMTT(60) DEF TypeOK
<1>5. Walks'
  <2>1. Frames' = Frames
    BY <1>1 DEF Frames
  <2>2. ASSUME NEW f \in Frames
        PROVE  /\ f.ph = prog /\ Marked(f.mod)'
               /\ IF f.ph \in Forward THEN f.i >= 1 ELSE f.i <= m_dep_cnt(f.mod)'
    <3>1. stack \in Seq(Frame)
      BY <1>3 DEF TypeOK, Frame
    <3>2. f \in Frame
      BY <2>2, <3>1, ElementOfSeq, LenProperties DEF Frames, Elements
    <3>3. f.mod \in Containers /\ f.i \in Int
      BY <3>2 DEF Frame
    <3>4. f.ph = prog /\ Marked(f.mod) /\ IF f.ph \in Forward THEN f.i >= 1 ELSE f.i <= m_dep_cnt(f.mod)
      BY <1>3, <2>2 DEF Walks
    <3>5. m_dep_cnt(f.mod) \in Nat /\ m_dep_cnt(f.mod)' \in Nat
      <4>1. ASSUME NEW d \in Containers PROVE m_dep_cnt(d) \in Nat /\ m_dep_cnt(d)' \in Nat
        <5>1. m_dep_idx[d] \in Seq(Mods \cup {Null}) /\ m_dep_idx'[d] \in Seq(Mods \cup {Null})
          BY <1>3 DEF TypeOK
        <5> QED BY <5>1, LenProperties DEF m_dep_cnt
      <4> QED BY <3>3, <4>1
    <3>6. m_dep_cnt(f.mod) <= m_dep_cnt(f.mod)'
      BY <3>3
    <3>7. Marked(f.mod)'
      BY <3>4, <1>1 DEF Marked
    <3> QED BY <3>3, <3>4, <3>5, <3>6, <3>7
  <2> QED BY <2>1, <2>2, <1>1, <1>3 DEF Walks, Marked
<1>6. SlotsAgree'
  <2>1. ASSUME NEW d \in Containers, NEW j \in DOMAIN m_dep_idx'[d], m_dep_idx'[d][j] # Null
        PROVE  m_index'[m_dep_idx'[d][j]] = j - 1
    <3>1. m_index \in [Mods -> Int]
      BY <1>3 DEF TypeOK
    <3>2. CASE d = c /\ j = k /\ m_dep_idx'[d][j] = m
      BY <3>1, <3>2, <1>2
    <3>3. CASE /\ j \in DOMAIN m_dep_idx[d] /\ m_dep_idx'[d][j] = m_dep_idx[d][j]
               /\ m_dep_idx[d][j] # m
      <4>1. m_dep_idx[d][j] \in Mods /\ m_index[m_dep_idx[d][j]] = j - 1
        BY <3>3, <2>1, <1>3, SlotTypes DEF SlotsAgree
      <4> QED BY <4>1, <3>1, <3>3
    <3> QED BY <3>2, <3>3, PlacesSlots
  <2>2. ASSUME NEW d \in Containers, NEW j \in DOMAIN m_dep_idx'[d], m_dep_idx'[d][j] # Null,
               NEW b \in Containers \ {d}, NEW i \in DOMAIN m_dep_idx'[b],
               m_dep_idx'[b][i] = m_dep_idx'[d][j]
        PROVE  FALSE
    <3>1. \/ d = c /\ j = k /\ m_dep_idx'[d][j] = m
          \/ /\ j \in DOMAIN m_dep_idx[d] /\ m_dep_idx'[d][j] = m_dep_idx[d][j]
             /\ m_dep_idx[d][j] # m
      BY PlacesSlots
    <3>2. \/ b = c /\ i = k /\ m_dep_idx'[b][i] = m
          \/ /\ i \in DOMAIN m_dep_idx[b] /\ m_dep_idx'[b][i] = m_dep_idx[b][i]
             /\ m_dep_idx[b][i] # m
      BY PlacesSlots
    <3>3. /\ j \in DOMAIN m_dep_idx[d] /\ i \in DOMAIN m_dep_idx[b]
          /\ m_dep_idx[d][j] = m_dep_idx[b][i] /\ m_dep_idx[d][j] # Null
      BY <2>2, <3>1, <3>2
    <3> QED BY <2>2, <3>3, <1>3, SlotUnique
  <2>3. ASSUME NEW d \in Containers, NEW j \in DOMAIN m_dep_idx'[d], m_dep_idx'[d][j] # Null
        PROVE  \A b \in Containers \ {d} : m_dep_idx'[d][j] \notin Slots(b)'
    BY <2>2, <2>3 DEF Slots
  <2> QED BY <2>1, <2>3 DEF SlotsAgree
<1>7. Placed'
  <2>1. InTree' = InTree \cup {m}
    BY PlacesInTree
  <2>2. m \in Solo => m \in st_register'
    BY DEF Places
  <2>3. ASSUME NEW d \in Containers, NEW i \in DOMAIN FirstDeps[d]
        PROVE  /\ i \in DOMAIN m_dep_idx'[d]
               /\ FirstDeps[d][i] \in Containers => m_dep_idx'[d][i] = FirstDeps[d][i]
    <3>1. /\ i \in DOMAIN m_dep_idx[d]
          /\ FirstDeps[d][i] \in Containers => m_dep_idx[d][i] = FirstDeps[d][i]
      BY <1>3 DEF Placed
    <3>2. FirstDeps[d][i] \in Containers => FirstDeps[d][i] # Null
      BY TreeAssumption DEF Mods
    <3> QED BY <3>1, <3>2 DEF Places
  <2> QED BY <2>1, <2>2, <2>3, <1>1, <1>3 DEF Placed
<1>8. /\ Expectations' /\ Progressed' /\ Worked' /\ Alone' /\ Once'
      /\ Siblings' /\ Outer' /\ StartedFirst'
  BY PlacesHistory
<1> QED BY <1>4, <1>5, <1>6, <1>7, <1>8 DEF IInv

LEMMA StepRegister ==
    ASSUME IInv, NEW c \in Containers, NEW m \in Mods, mod_register(c, m)
    PROVE  IInv'
<1>1. TypeOK /\ SlotsAgree
  BY DEF IInv
<1> DEFINE n == m_dep_cnt(c)
<1>2. /\ m_dep_idx[c] \in Seq(Mods \cup {Null}) /\ n \in Nat /\ DOMAIN m_dep_idx[c] = 1..n
      /\ n < m_dep_siz[c] /\ m_dep_siz[c] \in Nat
  BY <1>1, SlotTypes DEF TypeOK, SlotsAgree
<1>3. /\ m \in (Late \cup Solo) \ st_register /\ m \notin InTree
      /\ IF m \in Solo THEN InRun /\ Started(m) /\ ~Stopped(m) ELSE prog > 0
      /\ st_register' = st_register \cup {m}
      /\ m_index' = [m_index EXCEPT ![m] = n]
      /\ m_dep_idx' = [m_dep_idx EXCEPT ![c] = Append(@, m)]
      /\ m_dep_siz' = [m_dep_siz EXCEPT ![c] = IF n + 1 = m_dep_siz[c] THEN 2 * @ ELSE @]
      /\ UNCHANGED <<m_state, stack, prog, solo, ran, expected>>
  BY DEF mod_register, Register
<1>4. PICK s : s = Append(m_dep_idx[c], m)
  OBVIOUS
<1>5. /\ s \in Seq(Mods \cup {Null}) /\ DOMAIN s = 1..(n + 1) /\ s[n + 1] = m /\ Len(s) = n + 1
      /\ \A j \in 1..n : s[j] = m_dep_idx[c][j]
  <2>1. m \in Mods \cup {Null} /\ n = Len(m_dep_idx[c])
    BY DEF m_dep_cnt
  <2> QED BY <1>2, <1>4, <2>1, AppendProperties, LenProperties
<1>6. /\ m_dep_idx \in [Containers -> Seq(Mods \cup {Null})]
      /\ m_dep_siz \in [Containers -> Nat]
  BY <1>1 DEF TypeOK
<1>7. /\ m_dep_idx' \in [Containers -> Seq(Mods \cup {Null})] /\ m_dep_idx'[c] = s
      /\ \A d \in Containers \ {c} : m_dep_idx'[d] = m_dep_idx[d]
  BY <1>3, <1>4, <1>5, <1>6
<1>8. /\ m_dep_siz' \in [Containers -> Nat] /\ n + 1 < m_dep_siz'[c]
      /\ \A d \in Containers \ {c} : m_dep_siz'[d] = m_dep_siz[d]
  <2>1. CASE n + 1 = m_dep_siz[c]
    <3>1. m_dep_siz' = [m_dep_siz EXCEPT ![c] = 2 * m_dep_siz[c]]
      BY <1>3, <2>1
    <3> QED BY <3>1, <2>1, <1>2, <1>6
  <2>2. CASE n + 1 # m_dep_siz[c]
    <3>1. m_dep_siz' = [m_dep_siz EXCEPT ![c] = m_dep_siz[c]]
      BY <1>3, <2>2
    <3> QED BY <3>1, <2>2, <1>2, <1>6
  <2> QED BY <2>1, <2>2
<1>9. ASSUME NEW d \in Containers
      PROVE  m_dep_cnt(d) <= m_dep_cnt(d)' /\ m_dep_cnt(d)' < m_dep_siz'[d]
  <2>1. CASE d = c
    <3>1. Len(m_dep_idx'[c]) = n + 1
      BY <1>5, <1>7
    <3>2. m_dep_cnt(d)' = n + 1
      BY <2>1, <3>1 DEF m_dep_cnt
    <3> QED BY <2>1, <3>2, <1>2, <1>8
  <2>2. CASE d # c
    <3>1. m_dep_cnt(d)' = m_dep_cnt(d)
      BY <2>2, <1>7 DEF m_dep_cnt
    <3>2. m_dep_cnt(d) \in Nat /\ m_dep_cnt(d) < m_dep_siz[d]
      BY <1>1, SlotTypes DEF SlotsAgree
    <3> QED BY <2>2, <3>1, <3>2, <1>8
  <2> QED BY <2>1, <2>2
<1>10. Places(c, n + 1, m)
  <2>1. DOMAIN m_dep_idx'[c] = DOMAIN m_dep_idx[c] \cup {n + 1} /\ n + 1 \notin DOMAIN m_dep_idx[c]
    BY <1>2, <1>5, <1>7
  <2>2. \A j \in DOMAIN m_dep_idx[c] : j < n + 1 /\ m_dep_idx'[c][j] = m_dep_idx[c][j]
    BY <1>2, <1>5, <1>7
  <2>3. prog > 0
    BY <1>3 DEF InRun
  <2>4. m_dep_idx'[c][n + 1] = m /\ n + 1 \in Int /\ DOMAIN m_dep_idx' = Containers
    BY <1>2, <1>5, <1>7
  <2> QED BY <2>1, <2>2, <2>3, <2>4, <1>3, <1>7 DEF Places
<1>11. m_index' = [m_index EXCEPT ![m] = (n + 1) - 1]
  <2>1. (n + 1) - 1 = n
    BY <1>2
  <2> HIDE DEF n
  <2> QED BY <2>1, <1>3
<1> HIDE DEF n
<1> QED BY <1>7, <1>8, <1>9, <1>10, <1>11, StepPlaces

LEMMA StepRegisterIndex ==
    ASSUME IInv, NEW c \in Containers, NEW m \in Mods, NEW i, mod_register_index(c, m, i)
    PROVE  IInv'
<1>1. TypeOK /\ SlotsAgree
  BY DEF IInv
<1>2. /\ m_dep_idx[c] \in Seq(Mods \cup {Null}) /\ m_dep_cnt(c) \in Nat
      /\ DOMAIN m_dep_idx[c] = 1..m_dep_cnt(c) /\ m_dep_cnt(c) = Len(m_dep_idx[c])
  BY <1>1, SlotTypes DEF m_dep_cnt
<1>3. /\ m \in Late \ st_register /\ m \notin InTree /\ prog > 0
      /\ i \in DOMAIN m_dep_idx[c] /\ m_dep_idx[c][i] = Null /\ i \in Int
      /\ m_index' = [m_index EXCEPT ![m] = i - 1]
      /\ m_dep_idx' = [m_dep_idx EXCEPT ![c][i] = m]
      /\ st_register' = st_register /\ m_dep_siz' = m_dep_siz
      /\ UNCHANGED <<m_state, stack, prog, solo, ran, expected>>
  BY <1>2 DEF mod_register_index
<1>4. PICK s : s = [m_dep_idx[c] EXCEPT ![i] = m]
  OBVIOUS
<1>5. /\ s \in Seq(Mods \cup {Null}) /\ DOMAIN s = DOMAIN m_dep_idx[c] /\ s[i] = m
      /\ Len(s) = m_dep_cnt(c)
      /\ \A j \in DOMAIN m_dep_idx[c] \ {i} : s[j] = m_dep_idx[c][j]
  <2>1. s \in Seq(Mods \cup {Null}) /\ Len(s) = Len(m_dep_idx[c])
    BY <1>2, <1>3, <1>4, ExceptSeq
  <2> QED BY <2>1, <1>2, <1>3, <1>4
<1>6. /\ m_dep_idx \in [Containers -> Seq(Mods \cup {Null})]
      /\ m_dep_siz \in [Containers -> Nat]
  BY <1>1 DEF TypeOK
<1>7. /\ m_dep_idx' \in [Containers -> Seq(Mods \cup {Null})] /\ m_dep_idx'[c] = s
      /\ \A d \in Containers \ {c} : m_dep_idx'[d] = m_dep_idx[d]
  BY <1>3, <1>4, <1>5, <1>6
<1>8. ASSUME NEW d \in Containers
      PROVE  m_dep_cnt(d) <= m_dep_cnt(d)' /\ m_dep_cnt(d)' < m_dep_siz'[d]
  <2>1. m_dep_cnt(d)' = m_dep_cnt(d)
    BY <1>5, <1>7 DEF m_dep_cnt
  <2>2. m_dep_cnt(d) \in Nat /\ m_dep_cnt(d) < m_dep_siz[d]
    BY <1>1, SlotTypes DEF SlotsAgree
  <2> QED BY <2>1, <2>2, <1>3
<1>9. m \notin Solo
  BY <1>3, ShapeAssumption
<1>10. Places(c, i, m)
  <2>1. /\ DOMAIN m_dep_idx'[c] = DOMAIN m_dep_idx[c] \cup {i} /\ DOMAIN m_dep_idx' = Containers
        /\ m_dep_idx'[c][i] = m
        /\ \A j \in DOMAIN m_dep_idx[c] \ {i} : m_dep_idx'[c][j] = m_dep_idx[c][j]
    BY <1>3, <1>5, <1>7
  <2> QED BY <2>1, <1>3, <1>7, <1>9 DEF Places
<1>11. m_dep_siz' \in [Containers -> Nat]
  BY <1>3, <1>6
<1> QED BY <1>3, <1>7, <1>8, <1>10, <1>11, StepPlaces

(* mod_unregister: a leaf goes out of its slot and of what is expected.     *)
LEMMA StepUnregister ==
    ASSUME IInv, NEW c \in Containers, NEW m \in Mods, mod_unregister(c, m)
    PROVE  IInv'
<1>1. TypeOK /\ SlotsAgree /\ Placed /\ Walks
  BY DEF IInv
<1>2. /\ m \in Slots(c) /\ m \in Leaving /\ m \in st_register /\ prog > 0
      /\ m_dep_idx' = [m_dep_idx EXCEPT ![c][m_index[m] + 1] = Null]
      /\ expected' = expected \ {m}
      /\ m_state' = m_state /\ st_register' = st_register /\ m_dep_siz' = m_dep_siz
      /\ m_index' = m_index /\ stack' = stack /\ prog' = prog /\ solo' = solo /\ ran' = ran
  BY DEF mod_unregister
<1>3. PICK k \in DOMAIN m_dep_idx[c] : m_dep_idx[c][k] = m
  BY <1>2 DEF Slots
<1>4. /\ m_dep_idx[c] \in Seq(Mods \cup {Null}) /\ m_dep_cnt(c) \in Nat /\ k \in Int
      /\ DOMAIN m_dep_idx[c] = 1..m_dep_cnt(c) /\ m_dep_cnt(c) = Len(m_dep_idx[c])
  <2>1. /\ m_dep_idx[c] \in Seq(Mods \cup {Null}) /\ m_dep_cnt(c) \in Nat
        /\ DOMAIN m_dep_idx[c] = 1..m_dep_cnt(c)
    BY <1>1, SlotTypes
  <2> QED BY <2>1, <1>3 DEF m_dep_cnt
<1>5. m # Null /\ m \notin Containers /\ m \in Leaves
  BY <1>2, TreeAssumption
<1>6. m_index[m] + 1 = k
  <2>1. m_index[m] = k - 1
    BY <1>1, <1>3, <1>5 DEF SlotsAgree
  <2> QED BY <2>1, <1>4
<1>7. PICK s : s = [m_dep_idx[c] EXCEPT ![k] = Null]
  OBVIOUS
<1>8. /\ s \in Seq(Mods \cup {Null}) /\ DOMAIN s = DOMAIN m_dep_idx[c] /\ s[k] = Null
      /\ Len(s) = m_dep_cnt(c)
      /\ \A j \in DOMAIN m_dep_idx[c] \ {k} : s[j] = m_dep_idx[c][j]
  <2>1. s \in Seq(Mods \cup {Null}) /\ Len(s) = Len(m_dep_idx[c])
    BY <1>3, <1>4, <1>7, ExceptSeq
  <2> QED BY <2>1, <1>3, <1>4, <1>7
<1>9. /\ m_dep_idx' \in [Containers -> Seq(Mods \cup {Null})] /\ m_dep_idx'[c] = s
      /\ \A d \in Containers \ {c} : m_dep_idx'[d] = m_dep_idx[d]
  <2>1. m_dep_idx' = [m_dep_idx EXCEPT ![c][k] = Null]
    BY <1>2, <1>6
  <2>2. m_dep_idx \in [Containers -> Seq(Mods \cup {Null})]
    BY <1>1 DEF TypeOK
  <2> QED BY <2>1, <2>2, <1>7, <1>8
<1>10. ASSUME NEW d \in Containers
       PROVE  /\ DOMAIN m_dep_idx'[d] = DOMAIN m_dep_idx[d] /\ m_dep_cnt(d)' = m_dep_cnt(d)
              /\ \A j \in DOMAIN m_dep_idx[d] : m_dep_idx'[d][j] # Null =>
                    m_dep_idx'[d][j] = m_dep_idx[d][j] /\ m_dep_idx[d][j] # m
              /\ \A j \in DOMAIN m_dep_idx[d] : m_dep_idx[d][j] # m => m_dep_idx'[d][j] = m_dep_idx[d][j]
  <2>1. ASSUME NEW j \in DOMAIN m_dep_idx[d], m_dep_idx[d][j] = m PROVE d = c /\ j = k
    BY <2>1, <1>1, <1>3, <1>5, SlotUnique
  <2>2. DOMAIN m_dep_idx'[d] = DOMAIN m_dep_idx[d] /\ m_dep_cnt(d)' = m_dep_cnt(d)
    BY <1>8, <1>9 DEF m_dep_cnt
  <2>3. \A j \in DOMAIN m_dep_idx[d] : m_dep_idx[d][j] # m => m_dep_idx'[d][j] = m_dep_idx[d][j]
    BY <1>3, <1>8, <1>9
  <2>4. \A j \in DOMAIN m_dep_idx[d] : m_dep_idx[d][j] = m => m_dep_idx'[d][j] = Null
    BY <2>1, <1>8, <1>9
  <2> QED BY <2>2, <2>3, <2>4
<1>11. InTree' = InTree \ {m}
  <2>1. \A x : x \in InTree' <=> \E d \in Containers : \E j \in DOMAIN m_dep_idx'[d] :
                                    m_dep_idx'[d][j] = x /\ x # Null
    BY DEF InTree, Slots
  <2>2. ASSUME NEW x \in InTree' PROVE x \in InTree \ {m}
    <3>1. PICK d \in Containers : \E j \in DOMAIN m_dep_idx'[d] : m_dep_idx'[d][j] = x /\ x # Null
      BY <2>1, <2>2
    <3>2. PICK j \in DOMAIN m_dep_idx'[d] : m_dep_idx'[d][j] = x /\ x # Null
      BY <3>1
    <3> QED BY <3>2, <1>10, InTreeSlots
  <2>3. ASSUME NEW x \in InTree \ {m} PROVE x \in InTree'
    <3>1. PICK d \in Containers : \E j \in DOMAIN m_dep_idx[d] : m_dep_idx[d][j] = x /\ x # Null
      BY <2>3, InTreeSlots
    <3>2. PICK j \in DOMAIN m_dep_idx[d] : m_dep_idx[d][j] = x /\ x # Null
      BY <3>1
    <3>3. j \in DOMAIN m_dep_idx'[d] /\ m_dep_idx'[d][j] = x
      BY <3>2, <2>3, <1>10
    <3> QED BY <3>2, <3>3, <2>1
  <2> QED BY <2>2, <2>3
<1>12. TypeOK'
  BY <1>1, <1>2, <1>9 DEF TypeOK
<1>13. SlotsAgree'
  <2>1. ASSUME NEW d \in Containers, NEW j \in DOMAIN m_dep_idx'[d], m_dep_idx'[d][j] # Null
        PROVE  /\ m_index'[m_dep_idx'[d][j]] = j - 1
               /\ \A b \in Containers \ {d} : m_dep_idx'[d][j] \notin Slots(b)'
    <3>1. j \in DOMAIN m_dep_idx[d] /\ m_dep_idx'[d][j] = m_dep_idx[d][j]
      BY <2>1, <1>10
    <3>2. ASSUME NEW b \in Containers PROVE Slots(b)' \subseteq Slots(b)
      BY <1>10 DEF Slots
    <3> QED BY <2>1, <3>1, <3>2, <1>1, <1>2 DEF SlotsAgree
  <2>2. \A d \in Containers : m_dep_cnt(d)' < m_dep_siz'[d]
    BY <1>1, <1>2, <1>10 DEF SlotsAgree
  <2> QED BY <2>1, <2>2 DEF SlotsAgree
<1>14. Placed'
  <2>1. ASSUME NEW d \in Containers, NEW i \in DOMAIN FirstDeps[d]
        PROVE  /\ i \in DOMAIN m_dep_idx'[d]
               /\ FirstDeps[d][i] \in Containers => m_dep_idx'[d][i] = FirstDeps[d][i]
    BY <1>1, <1>5, <1>10 DEF Placed
  <2> QED BY <2>1, <1>1, <1>2, <1>11 DEF Placed
<1>15. Walks'
  <2>1. Frames' = Frames /\ \A d : Marked(d)' <=> Marked(d)
    BY <1>2 DEF Frames, Marked
  <2>2. ASSUME NEW f \in Frames PROVE f.mod \in Containers
    <3>1. stack \in Seq(Frame)
      BY <1>1 DEF TypeOK, Frame
    <3>2. f \in Frame
      BY <2>2, <3>1, ElementOfSeq, LenProperties DEF Frames, Elements
    <3> QED BY <3>2 DEF Frame
  <2> QED BY <2>1, <2>2, <1>1, <1>2, <1>10 DEF Walks
<1>16. \A x, q : Ran(q, x)' <=> Ran(q, x)
  BY <1>2 DEF Ran
<1>17. Expectations'
  BY <1>2, <1>11, <1>16 DEF IInv, Expectations
<1>18. \A d, j : (Reached(d, j)' <=> Reached(d, j)) /\ (Done(d, j)' <=> Done(d, j))
  BY <1>2 DEF Reached, Done, Marked, Frames, Called, Past
<1>19. Progressed'
  <2> SUFFICES ASSUME NEW d \in Containers, NEW j \in DOMAIN m_dep_idx'[d],
                      NEW x, x = m_dep_idx'[d][j]
               PROVE  /\ Reached(d, j)' /\ x \in expected' /\ <<x, prog>> \in Overrides => Ran(prog, x)
                      /\ Done(d, j)' /\ x \in Containers => Marked(x)'
                      /\ x \in Containers /\ Marked(x)' => Reached(d, j)'
    BY <1>2, <1>16 DEF Progressed, Ran
  <2>1. CASE x = Null
    <3>1. x \notin Containers /\ x \notin expected'
      BY <2>1, <1>12, TreeAssumption DEF TypeOK, Mods
    <3> QED BY <3>1
  <2>2. CASE x # Null
    <3>1. j \in DOMAIN m_dep_idx[d] /\ x = m_dep_idx[d][j]
      BY <2>2, <1>10
    <3>2. Marked(x)' <=> Marked(x)
      BY <1>2 DEF Marked
    <3> QED BY <3>1, <3>2, <1>2, <1>18 DEF IInv, Progressed
  <2> QED BY <2>1, <2>2
<1>20. ASSUME NEW d \in Containers, NEW j \in DOMAIN m_dep_idx'[d], NEW e \in DOMAIN ran,
              m_dep_idx'[d][j] = ran[e][2]
       PROVE  j \in DOMAIN m_dep_idx[d] /\ m_dep_idx[d][j] = ran[e][2]
  <2>1. ran[e] \in (1..7) \X Mods
    BY <1>1, PhaseFacts, ElementOfSeq, LenProperties DEF TypeOK
  <2>2. ran[e][2] # Null
    BY <2>1, TreeAssumption
  <2> QED BY <2>2, <1>10, <1>20
<1>21. Worked'
  <2> SUFFICES ASSUME NEW e \in DOMAIN ran
               PROVE  /\ ran[e][2] \in Solo \/ ran[e][2] \in InTree' \/ ran[e][2] \in st_register
                      /\ ran[e][2] \in InTree' => ran[e][1] <= prog
                      /\ ran[e][1] = prog =>
                            \A d \in Containers : \A j \in DOMAIN m_dep_idx'[d] :
                                m_dep_idx'[d][j] = ran[e][2] => Reached(d, j)'
    BY <1>2 DEF Worked
  <2> QED BY <1>2, <1>11, <1>18, <1>20 DEF IInv, Worked
<1>22. Alone' /\ Once' /\ StartedFirst'
  BY <1>2 DEF IInv, Alone, Once, StartedFirst, Ran, Stopped
<1>23. Siblings'
  <2> SUFFICES ASSUME NEW d \in DOMAIN ran, NEW e \in DOMAIN ran, NEW b \in Containers,
                      NEW j \in DOMAIN m_dep_idx'[b], NEW l \in DOMAIN m_dep_idx'[b],
                      d < e, ran[d][1] = ran[e][1],
                      m_dep_idx'[b][j] = ran[d][2], m_dep_idx'[b][l] = ran[e][2]
               PROVE  IF ran[d][1] \in Start
                      THEN j < l \/ {ran[d][2], ran[e][2]} \subseteq Solo
                      ELSE j > l
    BY <1>2 DEF Siblings
  <2> QED BY <1>20 DEF IInv, Siblings
<1>24. Outer'
  <2> SUFFICES ASSUME NEW d \in DOMAIN ran, NEW e \in DOMAIN ran, NEW b \in Containers,
                      NEW j \in DOMAIN m_dep_idx'[b],
                      d < e, ran[d][1] = ran[e][1],
                      m_dep_idx'[b][j] = ran[d][2], ran[e][2] = b
               PROVE  FALSE
    BY <1>2 DEF Outer
  <2> QED BY <1>20 DEF IInv, Outer
<1> QED BY <1>12, <1>13, <1>14, <1>15, <1>17, <1>19, <1>21, <1>22, <1>23, <1>24 DEF IInv

-----------------------------------------------------------------------------

(* The history s is r with each entry of X added once behind it.            *)
Extends(r, s, X) ==
    /\ DOMAIN r \subseteq DOMAIN s
    /\ \A e \in DOMAIN r : s[e] = r[e]
    /\ \A d \in DOMAIN r, e \in DOMAIN s \ DOMAIN r : d < e
    /\ \A e \in DOMAIN s \ DOMAIN r : s[e] \in X
    /\ \A x \in X : \E e \in DOMAIN s \ DOMAIN r : s[e] = x
    /\ \A d, e \in DOMAIN s \ DOMAIN r : s[d] = s[e] => d = e

LEMMA ExtendsOne ==
    ASSUME NEW S, NEW r \in Seq(S), NEW x \in S
    PROVE  r \o <<x>> \in Seq(S) /\ Extends(r, r \o <<x>>, {x})
<1>1. r \o <<x>> = Append(r, x)
  BY AppendIsConcat
<1>2. PICK s : s = Append(r, x)
  OBVIOUS
<1>3. /\ s \in Seq(S) /\ Len(r) \in Nat
      /\ DOMAIN r = 1..Len(r) /\ DOMAIN s = 1..(Len(r) + 1)
      /\ s[Len(r) + 1] = x
      /\ \A k \in 1..Len(r) : s[k] = r[k]
  BY <1>2, EntryAdded
<1>4. \A e : e \in DOMAIN s \ DOMAIN r <=> e = Len(r) + 1
  BY <1>3
<1>5. Extends(r, s, {x})
  BY <1>3, <1>4 DEF Extends
<1> QED BY <1>1, <1>2, <1>3, <1>5

LEMMA ExtendsNone ==
    ASSUME NEW S, NEW r \in Seq(S)
    PROVE  r \o <<>> \in Seq(S) /\ Extends(r, r \o <<>>, {})
<1>1. r \o <<>> = r
  BY ConcatEmptySeq
<1> QED BY <1>1 DEF Extends

LEMMA ExtendsTwice ==
    ASSUME NEW r, NEW s, NEW t, NEW X, NEW Y, Extends(r, s, X), Extends(s, t, Y),
           X \cap Y = {}
    PROVE  Extends(r, t, X \cup Y)
<1>1. DOMAIN r \subseteq DOMAIN t /\ \A e \in DOMAIN r : t[e] = r[e]
  BY DEF Extends
<1>2. \A e \in DOMAIN t \ DOMAIN r :
         \/ e \in DOMAIN s \ DOMAIN r /\ t[e] = s[e] /\ t[e] \in X
         \/ e \in DOMAIN t \ DOMAIN s /\ t[e] \in Y
  BY DEF Extends
<1>3. \A d \in DOMAIN r, e \in DOMAIN t \ DOMAIN r : d < e
  BY <1>2 DEF Extends
<1>4. ASSUME NEW x \in X \cup Y PROVE \E e \in DOMAIN t \ DOMAIN r : t[e] = x
  <2>1. CASE x \in X
    <3>1. PICK e \in DOMAIN s \ DOMAIN r : s[e] = x
      BY <2>1 DEF Extends
    <3> QED BY <3>1 DEF Extends
  <2>2. CASE x \in Y
    <3>1. PICK e \in DOMAIN t \ DOMAIN s : t[e] = x
      BY <2>2 DEF Extends
    <3> QED BY <3>1 DEF Extends
  <2> QED BY <2>1, <2>2
<1>5. \A d, e \in DOMAIN t \ DOMAIN r : t[d] = t[e] => d = e
  BY <1>2 DEF Extends
<1> QED BY <1>1, <1>2, <1>3, <1>4, <1>5 DEF Extends

(* run() starts or stops module m, which is not in the tree: the entries of *)
(* X are added to the history, all of m.                                    *)
RunsAlone(m, X) ==
    /\ m \in Solo \ st_register /\ InRun
    /\ Extends(ran, ran', X) /\ ran' \in Seq((1..7) \X Mods)
    /\ \A x \in X : x = <<x[1], m>> /\ x[1] \in 1..7
    /\ \A x \in Mods \ {m} : m_state'[x] = m_state[x]
    /\ m_state' \in [Mods -> SUBSET (1..7)]
    /\ solo' \in 0..MaxSolo
    /\ UNCHANGED <<treeVars, stack, prog, expected>>

(* The entries after such a step.                                           *)
LEMMA AloneEntries ==
    ASSUME NEW m, NEW X, RunsAlone(m, X), NEW e \in DOMAIN ran'
    PROVE  \/ e \in DOMAIN ran /\ ran'[e] = ran[e]
           \/ e \notin DOMAIN ran /\ ran'[e] \in X /\ ran'[e][2] = m
<1>1. CASE e \in DOMAIN ran
  BY <1>1 DEF RunsAlone, Extends
<1>2. CASE e \notin DOMAIN ran
  <2>1. ran'[e] \in X
    BY <1>2 DEF RunsAlone, Extends
  <2>2. PICK x : x = ran'[e]
    OBVIOUS
  <2>3. x = <<x[1], m>>
    BY <2>1, <2>2 DEF RunsAlone
  <2>4. x[2] = m
    BY <2>3
  <2> QED BY <1>2, <2>1, <2>2, <2>4
<1> QED BY <1>1, <1>2

LEMMA AloneKeeps ==
    ASSUME IInv, NEW m, NEW X, RunsAlone(m, X)
    PROVE  /\ TypeOK' /\ SlotsAgree' /\ Placed' /\ Walks' /\ Expectations' /\ Progressed'
           /\ Worked' /\ Siblings' /\ Outer'
<1>1. /\ TypeOK /\ SlotsAgree /\ Placed /\ Walks /\ Expectations /\ Progressed
      /\ Worked /\ Siblings /\ Outer
  BY DEF IInv
<1>2. /\ m \in Solo \ st_register /\ m_dep_idx' = m_dep_idx /\ st_register' = st_register
      /\ m_dep_siz' = m_dep_siz /\ m_index' = m_index
      /\ stack' = stack /\ prog' = prog /\ expected' = expected
  BY DEF RunsAlone, treeVars
<1>3. m \notin InTree /\ m \in Leaves /\ m \notin Containers /\ m \in Mods /\ m # Null
  BY <1>1, <1>2, TreeAssumption, ShapeAssumption DEF Placed, Mods
<1>4. \A d \in Containers : m_state'[d] = m_state[d]
  BY <1>3 DEF RunsAlone, Mods
<1>5. \A d \in Containers : Marked(d)' <=> Marked(d)
  BY <1>2, <1>4 DEF Marked
<1>6. TypeOK'
  BY <1>1, <1>2, PhaseFacts DEF RunsAlone, TypeOK
<1>7. SlotsAgree' /\ InTree' = InTree
  BY <1>1, <1>2 DEF SlotsAgree, m_dep_cnt, Slots, InTree
<1>8. Placed'
  BY <1>1, <1>2, <1>7 DEF Placed
<1>9. Frames' = Frames
  BY <1>2 DEF Frames
<1>10. Walks'
  <2>1. ASSUME NEW f \in Frames PROVE f.mod \in Containers
    <3>1. stack \in Seq(Frame)
      BY <1>1 DEF TypeOK, Frame
    <3>2. f \in Frame
      BY <2>1, <3>1, ElementOfSeq, LenProperties DEF Frames, Elements
    <3> QED BY <3>2 DEF Frame
  <2> QED BY <2>1, <1>1, <1>2, <1>4, <1>5, <1>9, TreeAssumption DEF Walks, m_dep_cnt
<1>11. \A q, x : Ran(q, x) => Ran(q, x)'
  BY DEF Ran, RunsAlone, Extends
<1>12. Expectations'
  BY <1>1, <1>2, <1>7, <1>11 DEF Expectations
<1>13. \A d \in Containers : \A j : (Reached(d, j)' <=> Reached(d, j)) /\ (Done(d, j)' <=> Done(d, j))
  BY <1>5, <1>9 DEF Reached, Done, Called, Past
<1>14. Progressed'
  <2> SUFFICES ASSUME NEW d \in Containers, NEW j \in DOMAIN m_dep_idx[d],
                      NEW x, x = m_dep_idx[d][j]
               PROVE  /\ Reached(d, j)' /\ x \in expected /\ <<x, prog>> \in Overrides => Ran(prog, x)'
                      /\ Done(d, j)' /\ x \in Containers => Marked(x)'
                      /\ x \in Containers /\ Marked(x)' => Reached(d, j)'
    BY <1>2 DEF Progressed
  <2>1. /\ Reached(d, j) /\ x \in expected /\ <<x, prog>> \in Overrides => Ran(prog, x)
        /\ Done(d, j) /\ x \in Containers => Marked(x)
        /\ x \in Containers /\ Marked(x) => Reached(d, j)
    BY <1>1 DEF Progressed
  <2>2. Ran(prog, x) => Ran(prog, x)'
    BY <1>2, <1>11
  <2> QED BY <2>1, <2>2, <1>5, <1>13
<1>15. \A d \in Containers : \A j \in DOMAIN m_dep_idx[d] : m_dep_idx[d][j] # m
  BY <1>3, InTreeSlots
<1>16. Worked'
  <2> SUFFICES ASSUME NEW e \in DOMAIN ran'
               PROVE  /\ ran'[e][2] \in Solo \/ ran'[e][2] \in InTree \/ ran'[e][2] \in st_register
                      /\ ran'[e][2] \in InTree => ran'[e][1] <= prog
                      /\ ran'[e][1] = prog =>
                            \A d \in Containers : \A j \in DOMAIN m_dep_idx[d] :
                                m_dep_idx[d][j] = ran'[e][2] => Reached(d, j)'
    BY <1>2, <1>7 DEF Worked
  <2>1. CASE e \in DOMAIN ran /\ ran'[e] = ran[e]
    BY <2>1, <1>1, <1>13 DEF Worked
  <2>2. CASE ran'[e][2] = m
    BY <2>2, <1>2, <1>3, <1>15
  <2> QED BY <2>1, <2>2, AloneEntries
<1>17. Siblings'
  <2> SUFFICES ASSUME NEW d \in DOMAIN ran', NEW e \in DOMAIN ran', NEW b \in Containers,
                      NEW j \in DOMAIN m_dep_idx[b], NEW l \in DOMAIN m_dep_idx[b],
                      d < e, ran'[d][1] = ran'[e][1],
                      m_dep_idx[b][j] = ran'[d][2], m_dep_idx[b][l] = ran'[e][2]
               PROVE  IF ran'[d][1] \in Start
                      THEN j < l \/ {ran'[d][2], ran'[e][2]} \subseteq Solo
                      ELSE j > l
    BY <1>2 DEF Siblings
  <2>1. ran'[d][2] # m /\ ran'[e][2] # m
    BY <1>15
  <2>2. d \in DOMAIN ran /\ ran'[d] = ran[d] /\ e \in DOMAIN ran /\ ran'[e] = ran[e]
    BY <2>1, AloneEntries
  <2> QED BY <2>2, <1>1 DEF Siblings
<1>18. Outer'
  <2> SUFFICES ASSUME NEW d \in DOMAIN ran', NEW e \in DOMAIN ran', NEW b \in Containers,
                      NEW j \in DOMAIN m_dep_idx[b],
                      d < e, ran'[d][1] = ran'[e][1],
                      m_dep_idx[b][j] = ran'[d][2], ran'[e][2] = b
               PROVE  FALSE
    BY <1>2 DEF Outer
  <2>1. ran'[d][2] # m /\ ran'[e][2] # m
    BY <1>3, <1>15
  <2>2. d \in DOMAIN ran /\ ran'[d] = ran[d] /\ e \in DOMAIN ran /\ ran'[e] = ran[e]
    BY <2>1, AloneEntries
  <2> QED BY <2>2, <1>1 DEF Outer
<1> QED BY <1>6, <1>7, <1>8, <1>10, <1>12, <1>14, <1>16, <1>17, <1>18

LEMMA StepStart ==
    ASSUME IInv, NEW m \in Solo, module_start(m)
    PROVE  IInv'
<1>1. /\ InRun /\ ~Started(m) /\ solo < MaxSolo /\ solo' = solo + 1 /\ m_state' = m_state
      /\ ran' = ran \o <<<<1, m>>, <<2, m>>, <<3, m>>, <<4, m>>>>
      /\ UNCHANGED <<treeVars, stack, prog, expected>>
      /\ st_register' = st_register /\ stack' = stack /\ prog' = prog
  BY DEF module_start, treeVars
<1>2. TypeOK /\ Placed /\ Alone /\ Once /\ StartedFirst
  BY DEF IInv
<1>3. m \notin st_register /\ \A e \in DOMAIN ran : ran[e][2] # m
  <2>1. Ran(4, m) => Started(m)
    BY DEF Ran, Started
  <2>2. 4 \in Start
    BY PhaseFacts
  <2> QED BY <2>1, <2>2, <1>1, <1>2 DEF Alone
<1> DEFINE S == (1..7) \X Mods
           X == {<<p, m>> : p \in Start}
           n == Len(ran)
           t == <<<<1, m>>, <<2, m>>, <<3, m>>, <<4, m>>>>
<1>4. m \in Mods /\ ran \in Seq(S) /\ n \in Nat /\ DOMAIN ran = 1..n
  <2>1. ran \in Seq(S)
    BY <1>2, PhaseFacts DEF TypeOK
  <2>2. m \in Mods
    BY TreeAssumption DEF Mods
  <2> QED BY <2>1, <2>2, LenProperties
<1>5. t \in Seq(S) /\ Len(t) = 4 /\ \A p \in 1..4 : t[p] = <<p, m>>
  BY <1>4
<1>6. /\ ran' \in Seq(S) /\ Len(ran') = n + 4
      /\ \A k \in 1..n : ran'[k] = ran[k]
      /\ \A p \in 1..4 : ran'[n + p] = <<p, m>>
  <2>1. ran' = ran \o t
    BY <1>1
  <2>2. PICK u : u = t
    OBVIOUS
  <2>3. /\ u \in Seq(S) /\ Len(u) = 4 /\ (\A p \in 1..4 : u[p] = <<p, m>>) /\ ran' = ran \o u
    BY <1>5, <2>1, <2>2
  <2> HIDE DEF t, S
  <2>4. /\ ran' \in Seq(S) /\ Len(ran') = n + 4
        /\ \A k \in 1..(n + 4) : ran'[k] = IF k <= n THEN ran[k] ELSE u[k - n]
    <3>1. ASSUME NEW r \in Seq(S), NEW k \in 1..(Len(r) + Len(u))
          PROVE  /\ r \o u \in Seq(S) /\ Len(r \o u) = Len(r) + Len(u)
                 /\ (r \o u)[k] = IF k <= Len(r) THEN r[k] ELSE u[k - Len(r)]
      BY <2>3, ConcatProperties
    <3>2. Len(ran) + Len(u) = n + 4 /\ n + 4 \in 1..(n + 4)
      BY <1>4, <2>3
    <3> QED BY <1>4, <2>3, <3>1, <3>2
  <2>5. \A k \in 1..n : ran'[k] = ran[k]
    BY <1>4, <2>4
  <2>6. \A p \in 1..4 : ran'[n + p] = <<p, m>>
    <3>1. ASSUME NEW p \in 1..4 PROVE n + p \in 1..(n + 4) /\ ~(n + p <= n) /\ (n + p) - n = p
      BY <1>4
    <3> QED BY <3>1, <2>3, <2>4
  <2> QED BY <2>4, <2>5, <2>6
<1>7. Extends(ran, ran', X)
  <2>1. DOMAIN ran' = 1..(n + 4)
    BY <1>6, LenProperties
  <2>2. \A e : e \in DOMAIN ran' \ DOMAIN ran <=> \E p \in 1..4 : e = n + p
    <3>1. ASSUME NEW e \in DOMAIN ran' \ DOMAIN ran PROVE \E p \in 1..4 : e = n + p
      <4>1. e - n \in 1..4 /\ e = n + (e - n)
        BY <2>1, <1>4
      <4> QED BY <4>1
    <3>2. ASSUME NEW p \in 1..4 PROVE n + p \in DOMAIN ran' \ DOMAIN ran
      BY <2>1, <1>4
    <3> QED BY <3>1, <3>2
  <2>3. \A d \in DOMAIN ran, e \in DOMAIN ran' \ DOMAIN ran : d < e
    BY <2>2, <1>4
  <2>4. \A e \in DOMAIN ran' \ DOMAIN ran : ran'[e] \in X
    BY <2>2, <1>6, PhaseFacts, SMTT(60)
  <2>5. ASSUME NEW x \in X PROVE \E e \in DOMAIN ran' \ DOMAIN ran : ran'[e] = x
    <3>1. PICK p \in 1..4 : x = <<p, m>>
      BY PhaseFacts
    <3>2. n + p \in DOMAIN ran' \ DOMAIN ran /\ ran'[n + p] = x
      BY <2>2, <1>6, <3>1
    <3> QED BY <3>2
  <2>6. \A d, e \in DOMAIN ran' \ DOMAIN ran : ran'[d] = ran'[e] => d = e
    BY <2>2, <1>6, SMTT(60)
  <2>7. DOMAIN ran \subseteq DOMAIN ran' /\ \A e \in DOMAIN ran : ran'[e] = ran[e]
    BY <2>1, <1>4, <1>6
  <2> HIDE DEF X
  <2> QED BY <2>3, <2>4, <2>5, <2>6, <2>7 DEF Extends
<1>8. RunsAlone(m, X)
  <2>1. \A x \in X : x = <<x[1], m>> /\ x[1] \in 1..7
    BY PhaseFacts
  <2>2. m_state' \in [Mods -> SUBSET (1..7)] /\ solo' \in 0..MaxSolo
    BY <1>1, <1>2, PhaseFacts, TreeAssumption DEF TypeOK
  <2> HIDE DEF X
  <2> QED BY <2>1, <2>2, <1>1, <1>3, <1>6, <1>7 DEF RunsAlone
<1>9. /\ TypeOK' /\ SlotsAgree' /\ Placed' /\ Walks' /\ Expectations' /\ Progressed'
      /\ Worked' /\ Siblings' /\ Outer'
  BY <1>8, AloneKeeps
<1>10. ASSUME NEW e \in DOMAIN ran'
       PROVE  \/ e \in DOMAIN ran /\ ran'[e] = ran[e] /\ ran[e][2] # m
              \/ e \notin DOMAIN ran /\ ran'[e] \in X /\ ran'[e][2] = m /\ ran'[e][1] \in Start
  <2>1. \/ e \in DOMAIN ran /\ ran'[e] = ran[e]
        \/ e \notin DOMAIN ran /\ ran'[e] \in X /\ ran'[e][2] = m
    BY <1>8, AloneEntries
  <2>2. \A x \in X : x[1] \in Start
    OBVIOUS
  <2> QED BY <2>1, <2>2, <1>3
<1>11. \A q, x : Ran(q, x) => Ran(q, x)'
  BY <1>7 DEF Ran, Extends
<1>12. \A p \in Start : Ran(p, m)'
  <2>1. \A p \in Start : <<p, m>> \in X
    OBVIOUS
  <2> HIDE DEF X
  <2> QED BY <2>1, <1>7 DEF Ran, Extends
<1>13. Once'
  <2> SUFFICES ASSUME NEW d \in DOMAIN ran', NEW e \in DOMAIN ran', ran'[d] = ran'[e],
                      ~(ran'[d][1] = 7 /\ ran'[d][2] \in Solo \ st_register)
               PROVE  d = e
    BY <1>1 DEF Once
  <2> HIDE DEF X
  <2>1. CASE d \in DOMAIN ran /\ e \in DOMAIN ran
    BY <2>1, <1>2, <1>10 DEF Once
  <2>2. CASE d \notin DOMAIN ran /\ e \notin DOMAIN ran
    BY <2>2, <1>7 DEF Extends
  <2>3. d \in DOMAIN ran <=> e \in DOMAIN ran
    BY <1>10
  <2> QED BY <2>1, <2>2, <2>3
<1>14. Alone'
  <2> HIDE DEF X
  <2>1. ASSUME NEW x \in Solo, x \in st_register \/ (\E e \in DOMAIN ran' : ran'[e][2] = x)
        PROVE  prog >= 4 /\ (prog = 4 => stack = <<>>) /\ \A p \in Start : Ran(p, x)'
    <3>1. CASE x = m
      BY <3>1, <1>1, <1>12 DEF InRun
    <3>2. CASE x # m
      <4>1. x \in st_register \/ (\E e \in DOMAIN ran : ran[e][2] = x)
        BY <3>2, <2>1, <1>10
      <4> QED BY <4>1, <1>2, <1>11 DEF Alone
    <3> QED BY <3>1, <3>2
  <2>2. ASSUME NEW e \in DOMAIN ran', ran'[e][2] \in Solo \ st_register, ran'[e][1] \in Stop
        PROVE  /\ \E i \in DOMAIN ran' : ran'[i] = <<5, ran'[e][2]>>
               /\ ran'[e][1] # 7 => ran'[e][1] \in m_state[ran'[e][2]]
    <3>1. ran'[e][1] \notin Start
      BY <2>2, PhaseFacts
    <3>2. e \in DOMAIN ran /\ ran'[e] = ran[e]
      BY <3>1, <1>10
    <3>3. /\ Stopped(ran[e][2])
          /\ ran[e][1] # 7 => ran[e][1] \in m_state[ran[e][2]]
      BY <2>2, <3>2, <1>2 DEF Alone
    <3>4. \E i \in DOMAIN ran' : ran'[i] = <<5, ran[e][2]>>
      BY <3>3, <1>7 DEF Stopped, Extends
    <3> QED BY <3>2, <3>3, <3>4
  <2>3. ASSUME NEW x \in Solo \ st_register, 5 \in m_state[x]
        PROVE  \E i \in DOMAIN ran' : ran'[i] = <<5, x>>
    <3>1. Stopped(x)
      BY <2>3, <1>2 DEF Alone
    <3> QED BY <3>1, <1>7 DEF Stopped, Extends
  <2>4. ASSUME NEW d \in DOMAIN ran', NEW e \in DOMAIN ran', ran'[d][2] \notin Solo,
               ran'[e][2] \in Solo, ran'[d][1] \in Start, ran'[e][1] \in Start
        PROVE  d < e
    <3>1. d \in DOMAIN ran /\ ran'[d] = ran[d]
      BY <2>4, <1>10
    <3>2. CASE e \in DOMAIN ran
      <4>1. ran'[e] = ran[e]
        BY <3>2, <1>10
      <4> QED BY <2>4, <3>1, <3>2, <4>1, <1>2 DEF Alone
    <3>3. CASE e \notin DOMAIN ran
      BY <3>1, <3>3, <1>7 DEF Extends
    <3> QED BY <3>2, <3>3
  <2>5. \A x \in Solo : x \in st_register' \/ (\E e \in DOMAIN ran' : ran'[e][2] = x) =>
          /\ prog' >= 4 /\ (prog' = 4 => stack' = <<>>)
          /\ \A p \in Start : Ran(p, x)'
    BY <2>1, <1>1
  <2> QED BY <2>2, <2>3, <2>4, <2>5, <1>1 DEF Alone, Stopped
<1>15. StartedFirst'
  <2> HIDE DEF X
  <2>1. ASSUME NEW e \in DOMAIN ran', ran'[e][1] \in Stop, ran'[e][2] \notin Late,
               NEW p \in Start, <<ran'[e][2], p>> \in Overrides
        PROVE  \E k \in DOMAIN ran' : ran'[k] = <<p, ran'[e][2]>>
    <3>1. ran'[e][1] \notin Start
      BY <2>1, PhaseFacts
    <3>2. e \in DOMAIN ran /\ ran'[e] = ran[e]
      BY <3>1, <1>10
    <3>3. Ran(p, ran[e][2])
      BY <2>1, <3>2, <1>2 DEF StartedFirst
    <3> QED BY <3>2, <3>3, <1>7 DEF Ran, Extends
  <2> QED BY <2>1 DEF StartedFirst, Ran
<1> QED BY <1>9, <1>13, <1>14, <1>15 DEF IInv

(* What module_shutdown adds for one phase.                                 *)
LEMMA UnmarkedExtends ==
    ASSUME NEW m \in Mods, NEW p \in 1..7, NEW r \in Seq((1..7) \X Mods)
    PROVE  /\ r \o Unmarked(m, p) \in Seq((1..7) \X Mods)
           /\ Extends(r, r \o Unmarked(m, p), {<<q, m>> : q \in {p} \ m_state[m]})
<1> DEFINE S == (1..7) \X Mods
<1>1. CASE p \in m_state[m]
  <2>1. Unmarked(m, p) = <<>> /\ {<<q, m>> : q \in {p} \ m_state[m]} = {}
    BY <1>1 DEF Unmarked
  <2> QED BY <2>1, ExtendsNone
<1>2. CASE p \notin m_state[m]
  <2>1. Unmarked(m, p) = <<<<p, m>>>> /\ {<<q, m>> : q \in {p} \ m_state[m]} = {<<p, m>>}
    BY <1>2 DEF Unmarked
  <2>2. <<p, m>> \in S
    OBVIOUS
  <2> HIDE DEF S
  <2>3. r \in Seq(S)
    BY DEF S
  <2>4. PICK x \in S : x = <<p, m>>
    BY <2>2
  <2>5. r \o <<x>> \in Seq(S) /\ Extends(r, r \o <<x>>, {x})
    BY <2>3, ExtendsOne
  <2> QED BY <2>1, <2>4, <2>5 DEF S
<1> QED BY <1>1, <1>2

LEMMA StepShutdown ==
    ASSUME IInv, NEW m \in Solo, module_shutdown(m)
    PROVE  IInv'
<1>1. /\ InRun /\ Started(m) /\ m \notin st_register /\ solo < MaxSolo /\ solo' = solo + 1
      /\ m_state' = [m_state EXCEPT ![m] = @ \cup {5, 6}]
      /\ ran' = ran \o Unmarked(m, 5) \o Unmarked(m, 6) \o Unmarked(m, 7)
      /\ UNCHANGED <<treeVars, stack, prog, expected>>
      /\ st_register' = st_register /\ stack' = stack /\ prog' = prog
  BY DEF module_shutdown, treeVars
<1>2. TypeOK /\ Placed /\ Alone /\ Once /\ StartedFirst
  BY DEF IInv
<1> DEFINE S == (1..7) \X Mods
           X == {<<p, m>> : p \in (5..7) \ m_state[m]}
<1>3. m \in Mods /\ ran \in Seq(S) /\ m_state \in [Mods -> SUBSET (1..7)] /\ solo \in 0..MaxSolo
  <2>1. ran \in Seq(S)
    BY <1>2, PhaseFacts DEF TypeOK
  <2>2. m \in Mods
    BY TreeAssumption DEF Mods
  <2>3. m_state \in [Mods -> SUBSET (1..7)] /\ solo \in 0..MaxSolo
    BY <1>2, PhaseFacts DEF TypeOK
  <2> QED BY <2>1, <2>2, <2>3
<1>4. Extends(ran, ran', X) /\ ran' \in Seq(S)
  <2> DEFINE Y(p) == {<<q, m>> : q \in {p} \ m_state[m]}
  <2>1. PICK r1 : r1 = ran \o Unmarked(m, 5)
    OBVIOUS
  <2>2. PICK r2 : r2 = r1 \o Unmarked(m, 6)
    OBVIOUS
  <2>3. ran' = r2 \o Unmarked(m, 7)
    BY <1>1, <2>1, <2>2
  <2>4. ASSUME NEW p \in 1..7, NEW r \in Seq(S)
        PROVE  r \o Unmarked(m, p) \in Seq(S) /\ Extends(r, r \o Unmarked(m, p), Y(p))
    BY <1>3, UnmarkedExtends
  <2>5. Y(5) \cap Y(6) = {} /\ (Y(5) \cup Y(6)) \cap Y(7) = {} /\ (Y(5) \cup Y(6)) \cup Y(7) = X
    <3>1. \A p \in 1..7 : \A y \in Y(p) : y = <<p, m>>
      OBVIOUS
    <3>2. 5..7 = {5} \cup {6} \cup {7}
      OBVIOUS
    <3>3. (Y(5) \cup Y(6)) \cup Y(7) = X
      BY <3>2
    <3> QED BY <3>1, <3>3
  <2> HIDE DEF X, Y, S
  <2>6. r1 \in Seq(S) /\ Extends(ran, r1, Y(5))
    BY <1>3, <2>1, <2>4
  <2>7. r2 \in Seq(S) /\ Extends(r1, r2, Y(6))
    BY <2>2, <2>4, <2>6
  <2>8. ran' \in Seq(S) /\ Extends(r2, ran', Y(7))
    BY <2>3, <2>4, <2>7
  <2>9. Extends(ran, r2, Y(5) \cup Y(6))
    BY <2>5, <2>6, <2>7, ExtendsTwice
  <2>10. Extends(ran, ran', (Y(5) \cup Y(6)) \cup Y(7))
    BY <2>5, <2>8, <2>9, ExtendsTwice
  <2> QED BY <2>5, <2>8, <2>10
<1>5. \A x \in X : x = <<x[1], m>> /\ x[1] \in (5..7) \ m_state[m] /\ x[2] = m
  OBVIOUS
<1>6. /\ \A x \in Mods \ {m} : m_state'[x] = m_state[x]
      /\ m_state'[m] = m_state[m] \cup {5, 6}
      /\ m_state' \in [Mods -> SUBSET (1..7)]
  BY <1>1, <1>3
<1>7. RunsAlone(m, X)
  <2>1. solo' \in 0..MaxSolo
    BY <1>1, <1>3, TreeAssumption
  <2>2. \A x \in X : x = <<x[1], m>> /\ x[1] \in 1..7
    BY <1>5
  <2> HIDE DEF X, S
  <2>3. ran' \in Seq((1..7) \X Mods)
    BY <1>4 DEF S
  <2> QED BY <2>1, <2>2, <2>3, <1>1, <1>4, <1>6 DEF RunsAlone
<1>8. /\ TypeOK' /\ SlotsAgree' /\ Placed' /\ Walks' /\ Expectations' /\ Progressed'
      /\ Worked' /\ Siblings' /\ Outer'
  BY <1>7, AloneKeeps
<1>9. ASSUME NEW e \in DOMAIN ran'
      PROVE  \/ e \in DOMAIN ran /\ ran'[e] = ran[e]
             \/ /\ e \notin DOMAIN ran /\ ran'[e] \in X /\ ran'[e][2] = m
                /\ ran'[e][1] \in (5..7) \ m_state[m]
  <2>1. \/ e \in DOMAIN ran /\ ran'[e] = ran[e]
        \/ e \notin DOMAIN ran /\ ran'[e] \in X /\ ran'[e][2] = m
    BY <1>7, AloneEntries
  <2> HIDE DEF X
  <2> QED BY <2>1, <1>5
<1>10. \A q, x : Ran(q, x) => Ran(q, x)'
  BY <1>4 DEF Ran, Extends
<1>11. (\E e \in DOMAIN ran : ran[e][2] = m) /\ \A p \in Start : Ran(p, m)
  <2>1. \E e \in DOMAIN ran : ran[e][2] = m
    BY <1>1 DEF Started
  <2> QED BY <2>1, <1>2 DEF Alone
<1>12. \E e \in DOMAIN ran' : ran'[e] = <<5, m>>
  <2>1. CASE 5 \in m_state[m]
    <3>1. Stopped(m)
      BY <2>1, <1>1, <1>2 DEF Alone
    <3> QED BY <3>1, <1>4 DEF Stopped, Extends
  <2>2. CASE 5 \notin m_state[m]
    <3>1. <<5, m>> \in X
      BY <2>2
    <3> HIDE DEF X
    <3> QED BY <3>1, <1>4 DEF Extends
  <2> QED BY <2>1, <2>2
<1> HIDE DEF X, S
<1>13. Once'
  <2> SUFFICES ASSUME NEW d \in DOMAIN ran', NEW e \in DOMAIN ran', ran'[d] = ran'[e],
                      ~(ran'[d][1] = 7 /\ ran'[d][2] \in Solo \ st_register)
               PROVE  d = e
    BY <1>1 DEF Once
  <2>1. CASE d \in DOMAIN ran /\ e \in DOMAIN ran
    BY <2>1, <1>2, <1>9 DEF Once
  <2>2. CASE d \notin DOMAIN ran /\ e \notin DOMAIN ran
    BY <2>2, <1>4 DEF Extends
  <2>3. ASSUME NEW j \in DOMAIN ran', NEW k \in DOMAIN ran', ran'[j] = ran'[k],
               ~(ran'[j][1] = 7 /\ ran'[j][2] \in Solo \ st_register),
               j \in DOMAIN ran, k \notin DOMAIN ran
        PROVE  FALSE
    <3>1. ran'[j] = ran[j] /\ ran'[k][2] = m /\ ran'[k][1] \in (5..7) \ m_state[m]
      BY <2>3, <1>9
    <3>2. ran[j][2] = m /\ ran[j][1] \in Stop /\ ran[j][1] # 7 /\ ran[j][1] \notin m_state[m]
      BY <2>3, <3>1, <1>1, PhaseFacts
    <3> QED BY <2>3, <3>2, <1>1, <1>2 DEF Alone
  <2> QED BY <2>1, <2>2, <2>3
<1>14. Alone'
  <2>1. ASSUME NEW x \in Solo, x \in st_register \/ (\E e \in DOMAIN ran' : ran'[e][2] = x)
        PROVE  prog >= 4 /\ (prog = 4 => stack = <<>>) /\ \A p \in Start : Ran(p, x)'
    <3>1. x \in st_register \/ (\E e \in DOMAIN ran : ran[e][2] = x)
      BY <2>1, <1>9, <1>11
    <3>2. prog >= 4 /\ (prog = 4 => stack = <<>>) /\ \A p \in Start : Ran(p, x)
      BY <3>1, <1>2 DEF Alone
    <3> QED BY <3>2, <1>10
  <2>2. ASSUME NEW e \in DOMAIN ran', ran'[e][2] \in Solo \ st_register, ran'[e][1] \in Stop
        PROVE  /\ \E i \in DOMAIN ran' : ran'[i] = <<5, ran'[e][2]>>
               /\ ran'[e][1] # 7 => ran'[e][1] \in m_state'[ran'[e][2]]
    <3>1. CASE e \in DOMAIN ran /\ ran'[e] = ran[e]
      <4>1. /\ Stopped(ran[e][2])
            /\ ran[e][1] # 7 => ran[e][1] \in m_state[ran[e][2]]
        BY <2>2, <3>1, <1>2 DEF Alone
      <4>2. \E i \in DOMAIN ran' : ran'[i] = <<5, ran[e][2]>>
        BY <4>1, <1>4 DEF Stopped, Extends
      <4>3. ran[e][2] \in Mods
        BY <2>2, <3>1, TreeAssumption DEF Mods
      <4>4. m_state[ran[e][2]] \subseteq m_state'[ran[e][2]]
        BY <4>3, <1>6
      <4> QED BY <3>1, <4>1, <4>2, <4>4
    <3>2. CASE ran'[e][2] = m /\ ran'[e][1] \in (5..7) \ m_state[m]
      BY <3>2, <1>6, <1>12
    <3> QED BY <3>1, <3>2, <1>9
  <2>3. ASSUME NEW x \in Solo \ st_register, 5 \in m_state'[x]
        PROVE  \E i \in DOMAIN ran' : ran'[i] = <<5, x>>
    <3>1. CASE x = m
      BY <3>1, <1>12
    <3>2. CASE x # m
      <4>1. x \in Mods
        BY TreeAssumption DEF Mods
      <4>2. 5 \in m_state[x]
        BY <2>3, <3>2, <4>1, <1>6
      <4>3. Stopped(x)
        BY <4>2, <1>2 DEF Alone
      <4> QED BY <4>3, <1>4 DEF Stopped, Extends
    <3> QED BY <3>1, <3>2
  <2>4. ASSUME NEW d \in DOMAIN ran', NEW e \in DOMAIN ran', ran'[d][2] \notin Solo,
               ran'[e][2] \in Solo, ran'[d][1] \in Start, ran'[e][1] \in Start
        PROVE  d < e
    <3>1. Start \cap (5..7) = {}
      BY PhaseFacts
    <3>2. d \in DOMAIN ran /\ ran'[d] = ran[d] /\ e \in DOMAIN ran /\ ran'[e] = ran[e]
      BY <2>4, <3>1, <1>9
    <3> QED BY <2>4, <3>2, <1>2 DEF Alone
  <2>5. \A x \in Solo : x \in st_register' \/ (\E e \in DOMAIN ran' : ran'[e][2] = x) =>
          /\ prog' >= 4 /\ (prog' = 4 => stack' = <<>>)
          /\ \A p \in Start : Ran(p, x)'
    BY <2>1, <1>1
  <2> QED BY <2>2, <2>3, <2>4, <2>5, <1>1 DEF Alone, Stopped
<1>15. StartedFirst'
  <2>1. ASSUME NEW e \in DOMAIN ran', ran'[e][1] \in Stop, ran'[e][2] \notin Late,
               NEW p \in Start, <<ran'[e][2], p>> \in Overrides
        PROVE  \E k \in DOMAIN ran' : ran'[k] = <<p, ran'[e][2]>>
    <3>1. Ran(p, ran'[e][2])
      <4>1. CASE e \in DOMAIN ran /\ ran'[e] = ran[e]
        BY <2>1, <4>1, <1>2 DEF StartedFirst
      <4>2. CASE ran'[e][2] = m
        BY <4>2, <1>11
      <4> QED BY <4>1, <4>2, <1>9
    <3> QED BY <3>1, <1>4 DEF Ran, Extends
  <2> QED BY <2>1 DEF StartedFirst, Ran
<1> QED BY <1>8, <1>13, <1>14, <1>15 DEF IInv

-----------------------------------------------------------------------------

(* The first modules know the slots they were constructed into.             *)
LEMMA FirstIndex ==
    ASSUME Init, NEW c \in Containers, NEW i \in DOMAIN FirstDeps[c]
    PROVE  m_index[FirstDeps[c][i]] = i - 1
<1> DEFINE m == FirstDeps[c][i]
           K == UNION {{j - 1 : j \in DOMAIN FirstDeps[d]} : d \in Containers}
           At(k) == \E d \in Containers : k + 1 \in DOMAIN FirstDeps[d] /\ FirstDeps[d][k + 1] = m
<1>1. FirstDeps[c] \in Seq(Mods)
  BY TreeAssumption
<1>2. i \in Int /\ m \in Mods /\ m \in FirstMods
  BY <1>1, ElementOfSeq, LenProperties DEF FirstMods
<1>3. i - 1 \in K
  OBVIOUS
<1>4. (i - 1) + 1 = i
  BY <1>2
<1>5. At(i - 1)
  BY <1>4
<1>6. ASSUME NEW k \in K, At(k) PROVE k = i - 1
  <2>1. PICK d \in Containers : k + 1 \in DOMAIN FirstDeps[d] /\ FirstDeps[d][k + 1] = m
    BY <1>6
  <2>2. k + 1 = i
    BY <2>1, ShapeAssumption
  <2>3. PICK b \in Containers : \E j \in DOMAIN FirstDeps[b] : k = j - 1
    OBVIOUS
  <2>4. FirstDeps[b] \in Seq(Mods)
    BY TreeAssumption
  <2>5. k \in Int
    BY <2>3, <2>4, LenProperties
  <2> QED BY <2>2, <2>5
<1>7. m_index[m] = CHOOSE k \in K : At(k)
  BY <1>2 DEF Init
<1> HIDE DEF m, K, At
<1>8. (CHOOSE k \in K : At(k)) = i - 1
  BY <1>3, <1>5, <1>6
<1> QED BY <1>7, <1>8 DEF m

(* The state that the constructors leave.                                   *)
LEMMA InitIInv ==
    ASSUME Init
    PROVE  IInv
<1>1. /\ m_state = [m \in Mods |-> {}] /\ st_register = FirstMods /\ m_dep_idx = FirstDeps
      /\ m_dep_siz = [c \in Containers |-> 2 * Len(FirstDeps[c])]
      /\ stack = <<>> /\ prog = 0 /\ solo = 0 /\ ran = <<>> /\ expected = {}
  BY DEF Init
<1>2. ASSUME NEW c \in Containers
      PROVE  /\ FirstDeps[c] \in Seq(Mods) /\ Len(FirstDeps[c]) \in Nat
             /\ Len(FirstDeps[c]) < 2 * Len(FirstDeps[c])
             /\ DOMAIN FirstDeps[c] = 1..Len(FirstDeps[c])
             /\ \A i \in DOMAIN FirstDeps[c] : FirstDeps[c][i] \in Mods /\ FirstDeps[c][i] # Null
  <2>1. FirstDeps[c] \in Seq(Mods) /\ FirstDeps[c] # <<>>
    BY TreeAssumption
  <2>2. Len(FirstDeps[c]) \in Nat /\ Len(FirstDeps[c]) # 0 /\ DOMAIN FirstDeps[c] = 1..Len(FirstDeps[c])
    BY <2>1, LenProperties, EmptySeq
  <2>3. \A i \in DOMAIN FirstDeps[c] : FirstDeps[c][i] \in Mods
    BY <2>1, <2>2, ElementOfSeq
  <2> QED BY <2>1, <2>2, <2>3, TreeAssumption
<1>3. InTree = FirstMods
  BY <1>1, <1>2 DEF InTree, Slots, FirstMods
<1>4. Frames = {}
  BY <1>1 DEF Frames, Elements
<1>5. DOMAIN ran = {}
  BY <1>1
<1>6. FirstMods \subseteq Mods
  BY <1>2 DEF FirstMods
<1>7. TypeOK
  <2>1. m_state \in [Mods -> SUBSET DOMAIN Phases] /\ st_register \subseteq Mods
    BY <1>1, <1>6
  <2>2. m_dep_idx \in [Containers -> Seq(Mods \cup {Null})]
    <3>1. ASSUME NEW c \in Containers PROVE FirstDeps[c] \in Seq(Mods \cup {Null})
      BY <1>2
    <3> QED BY <3>1, <1>1, TreeAssumption
  <2>3. m_dep_siz \in [Containers -> Nat]
    BY <1>1, <1>2
  <2>4. m_index \in [Mods -> Int]
    <3>1. /\ m_index = [m \in Mods |-> m_index[m]]
          /\ \A m \in Mods \ FirstMods : m_index[m] = -1
      BY DEF Init
    <3>2. ASSUME NEW m \in FirstMods PROVE m_index[m] \in Int
      <4>1. PICK c \in Containers : \E i \in DOMAIN FirstDeps[c] : m = FirstDeps[c][i]
        BY DEF FirstMods
      <4>2. PICK i \in DOMAIN FirstDeps[c] : m = FirstDeps[c][i]
        BY <4>1
      <4>3. m_index[m] = i - 1
        BY <4>2, FirstIndex
      <4> QED BY <4>3, <1>2
    <3>3. \A m \in Mods : m_index[m] \in Int
      BY <3>1, <3>2
    <3> QED BY <3>1, <3>3
  <2>5. /\ stack \in Seq([mod : Containers, ph : DOMAIN Phases,
                          call : {"virtual", "base"}, i : Int])
        /\ ran \in Seq((DOMAIN Phases) \X Mods)
    BY <1>1
  <2>6. prog \in 0..Len(Phases) /\ solo \in 0..MaxSolo /\ expected \subseteq Mods
    BY <1>1, PhaseFacts, TreeAssumption
  <2> QED BY <2>1, <2>2, <2>3, <2>4, <2>5, <2>6 DEF TypeOK
<1>8. SlotsAgree
  <2> SUFFICES ASSUME NEW c \in Containers
               PROVE  /\ Len(FirstDeps[c]) < m_dep_siz[c]
                      /\ \A i \in DOMAIN FirstDeps[c] :
                            /\ m_index[FirstDeps[c][i]] = i - 1
                            /\ \A d \in Containers \ {c} : FirstDeps[c][i] \notin Slots(d)
    BY <1>1 DEF SlotsAgree, m_dep_cnt
  <2>1. Len(FirstDeps[c]) < m_dep_siz[c]
    BY <1>1, <1>2
  <2>2. \A i \in DOMAIN FirstDeps[c] : \A d \in Containers \ {c} : FirstDeps[c][i] \notin Slots(d)
    BY <1>1, ShapeAssumption DEF Slots
  <2> QED BY <2>1, <2>2, FirstIndex
<1>9. Placed
  BY <1>1, <1>3 DEF Placed
<1>10. Walks
  <2>1. Apart(stack)
    BY <1>1 DEF Apart
  <2>2. \A c \in Containers : m_state[c] \subseteq 1..prog
    BY <1>1 DEF Mods
  <2>3. ~(prog > 0)
    BY <1>1
  <2> QED BY <2>1, <2>2, <2>3, <1>1, <1>4 DEF Walks
<1>11. Expectations
  BY <1>1, PhaseFacts DEF Expectations
<1>12. Progressed
  <2>1. \A c \in Containers : ~Marked(c)
    BY <1>1 DEF Marked, Mods
  <2> QED BY <2>1 DEF Progressed, Reached, Done
<1>13. Alone
  <2>1. \A m \in Solo : m \notin st_register
    BY <1>1, ShapeAssumption
  <2>2. \A m \in Solo : m_state[m] = {}
    BY <1>1, TreeAssumption DEF Mods
  <2> QED BY <2>1, <2>2, <1>5 DEF Alone
<1>14. Worked /\ Once /\ Siblings /\ Outer /\ StartedFirst
  BY <1>5 DEF Worked, Once, Siblings, Outer, StartedFirst
<1> QED BY <1>7, <1>8, <1>9, <1>10, <1>11, <1>12, <1>13, <1>14 DEF IInv

(* Every step keeps the invariant.                                          *)
LEMMA NextIInv ==
    ASSUME IInv, [Next]_vars
    PROVE  IInv'
<1>1. CASE prog_phase
  BY <1>1, StepPhase
<1>2. CASE walk_null
  BY <1>2, StepNull
<1>3. CASE walk_override
  BY <1>3, StepOverride
<1>4. CASE walk_virtual
  BY <1>4, StepVirtual
<1>5. CASE walk_base
  BY <1>5, StepBaseCall
<1>6. CASE walk_return
  BY <1>6, StepReturn
<1>7. ASSUME NEW c \in Containers, NEW m \in Mods,
             \/ mod_register(c, m) \/ mod_unregister(c, m)
             \/ \E i \in DOMAIN m_dep_idx[c] : mod_register_index(c, m, i)
      PROVE  IInv'
  BY <1>7, StepRegister, StepUnregister, StepRegisterIndex
<1>8. ASSUME NEW m \in Solo, module_start(m) \/ module_shutdown(m)
      PROVE  IInv'
  BY <1>8, StepStart, StepShutdown
<1>9. CASE UNCHANGED vars
  <2>1. /\ m_state' = m_state /\ st_register' = st_register /\ m_dep_idx' = m_dep_idx
        /\ m_dep_siz' = m_dep_siz /\ m_index' = m_index /\ stack' = stack /\ prog' = prog
        /\ solo' = solo /\ ran' = ran /\ expected' = expected
    BY <1>9 DEF vars
  <2>2. InTree' = InTree /\ Frames' = Frames
    BY <2>1 DEF InTree, Slots, Frames
  <2>3. TypeOK' /\ SlotsAgree' /\ Placed'
    BY <2>1, <2>2 DEF IInv, TypeOK, SlotsAgree, m_dep_cnt, Slots, Placed
  <2>4. Walks'
    BY <2>1, <2>2 DEF IInv, Walks, Marked, m_dep_cnt
  <2>5. Expectations'
    BY <2>1, <2>2 DEF IInv, Expectations, Ran
  <2>6. Progressed'
    BY <2>1, <2>2 DEF IInv, Progressed, Reached, Done, Marked, Ran, Called, Past
  <2>7. Worked'
    BY <2>1, <2>2 DEF IInv, Worked, Reached, Marked, Called, Past
  <2>8. Alone'
    BY <2>1 DEF IInv, Alone, Ran, Stopped
  <2>9. Once' /\ Siblings' /\ Outer' /\ StartedFirst'
    BY <2>1 DEF IInv, Once, Siblings, Outer, StartedFirst, Ran
  <2> QED BY <2>3, <2>4, <2>5, <2>6, <2>7, <2>8, <2>9 DEF IInv
<1> QED BY <1>1, <1>2, <1>3, <1>4, <1>5, <1>6, <1>7, <1>8, <1>9 DEF Next

(* The invariant says of the pairs of the history what SiblingOrder and     *)
(* ContainerFirst say of Before.                                            *)
LEMMA PhasesFollow ==
    ASSUME IInv
    PROVE  PhasesSound
<1>1. TypeOK /\ SlotsAgree /\ Walks /\ Once /\ Siblings /\ Outer /\ StartedFirst
  BY DEF IInv
<1>2. OncePerPhase
  <2> SUFFICES ASSUME NEW i \in DOMAIN ran, NEW j \in DOMAIN ran, ran[i] = ran[j],
                      <<ran[i][1], ran[i][2]>> \notin {7} \X Solo
               PROVE  i = j
    BY DEF OncePerPhase
  <2>1. ~(ran[i][1] = 7 /\ ran[i][2] \in Solo \ st_register)
    OBVIOUS
  <2> QED BY <2>1, <1>1 DEF Once
<1>3. PhaseComplete
  <2> SUFFICES ASSUME stack = <<>>, NEW m \in expected, <<m, prog>> \in Overrides
               PROVE  Ran(prog, m)
    BY DEF PhaseComplete
  <2>1. prog \in 1..7
    BY TreeAssumption, PhaseFacts
  <2> QED BY <2>1, CompleteRan
<1>4. ASSUME NEW e \in Before
      PROVE  \E d, b \in DOMAIN ran : /\ d < b /\ ran[d][1] = ran[b][1]
                                      /\ e[1] = ran[d][1] /\ e[2] = ran[d][2] /\ e[3] = ran[b][2]
  <2>1. PICK p \in (DOMAIN ran) \X (DOMAIN ran) :
           /\ p[1] < p[2] /\ ran[p[1]][1] = ran[p[2]][1]
           /\ e = <<ran[p[1]][1], ran[p[1]][2], ran[p[2]][2]>>
    BY <1>4 DEF Before
  <2> QED BY <2>1
<1>5. SiblingOrder
  <2> SUFFICES ASSUME NEW e \in Before, NEW c \in Containers, {e[2], e[3]} \subseteq Slots(c)
               PROVE  IF e[1] \in Start
                      THEN m_index[e[2]] < m_index[e[3]] \/ {e[2], e[3]} \subseteq Solo
                      ELSE m_index[e[2]] > m_index[e[3]]
    BY DEF SiblingOrder
  <2>1. PICK d, b \in DOMAIN ran : /\ d < b /\ ran[d][1] = ran[b][1]
                                   /\ e[1] = ran[d][1] /\ e[2] = ran[d][2] /\ e[3] = ran[b][2]
    BY <1>4
  <2>2. PICK j, k \in DOMAIN m_dep_idx[c] : /\ m_dep_idx[c][j] = e[2] /\ e[2] # Null
                                            /\ m_dep_idx[c][k] = e[3] /\ e[3] # Null
    BY DEF Slots
  <2>3. m_index[e[2]] = j - 1 /\ m_index[e[3]] = k - 1
    BY <2>2, <1>1 DEF SlotsAgree
  <2>4. j \in Int /\ k \in Int
    <3>1. m_dep_idx[c] \in Seq(Mods \cup {Null})
      BY <1>1 DEF TypeOK
    <3> QED BY <3>1, LenProperties
  <2>5. IF e[1] \in Start THEN j < k \/ {e[2], e[3]} \subseteq Solo ELSE j > k
    BY <2>1, <2>2, <1>1 DEF Siblings
  <2> QED BY <2>3, <2>4, <2>5
<1>6. ContainerFirst
  <2> SUFFICES ASSUME NEW e \in Before, e[3] \in Containers, e[2] \in Slots(e[3])
               PROVE  FALSE
    BY DEF ContainerFirst
  <2>1. PICK d, b \in DOMAIN ran : /\ d < b /\ ran[d][1] = ran[b][1]
                                   /\ e[1] = ran[d][1] /\ e[2] = ran[d][2] /\ e[3] = ran[b][2]
    BY <1>4
  <2>2. PICK j \in DOMAIN m_dep_idx[e[3]] : m_dep_idx[e[3]][j] = e[2]
    BY DEF Slots
  <2> QED BY <2>1, <2>2, <1>1 DEF Outer
<1> QED BY <1>1, <1>2, <1>3, <1>5, <1>6 DEF PhasesSound

(* Whatever is registered and unregistered, and in the middle of which      *)
(* walk, every module is in the slot it knows of and in no other, and the   *)
(* array of mod_register always has room for one more.                      *)
THEOREM TreeAlwaysSound == Spec => []TreeSound
<1>1. Init => IInv
  BY InitIInv
<1>2. IInv /\ [Next]_vars => IInv'
  BY NextIInv
<1>3. IInv => TreeSound
  BY DEF IInv, TreeSound
<1> QED BY <1>1, <1>2, <1>3, PTL DEF Spec

(* For every tree, every choice of the overrides and every change of the    *)
(* tree during a walk, the recursive walks of prog_run do the work of every *)
(* module once per phase, all of it before the next phase begins, in the    *)
(* order of the tree, and stop no module that was not started.              *)
THEOREM PhasesAlwaysSound == Spec => []PhasesSound
<1>1. Init => IInv
  BY InitIInv
<1>2. IInv /\ [Next]_vars => IInv'
  BY NextIInv
<1>3. IInv => PhasesSound
  BY PhasesFollow
<1> QED BY <1>1, <1>2, <1>3, PTL DEF Spec
=============================================================================
