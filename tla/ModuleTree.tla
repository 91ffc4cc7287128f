----------------------------- MODULE ModuleTree -----------------------------
(***************************************************************************)
(* Module (common/di/module.cpp) and Program::prog_run (program.cpp): a     *)
(* tree of modules that the program drives through seven phases.  A phase   *)
(* is a recursive virtual function: the base version walks m_dep_idx and    *)
(* calls, for each sub module, the virtual version and then the base one.   *)
(* The recursion is kept as the stack of the active walks; an override does *)
(* its module's work and, as all in the program, does not call the base.    *)
(* Modules may be registered and unregistered while a walk is going on, by  *)
(* an override on the main thread: a walk does not take m_mod_mtx.          *)
(***************************************************************************)
EXTENDS Integers, Sequences, FiniteSets

CONSTANTS
    Root,           \* Program::p_module
    Containers,     \* modules with m_dep_idx # nullptr, Root among them
    Leaves,         \* the others
    FirstDeps,      \* FirstDeps[c]: what container c was constructed with
    Late,           \* leaves that an override may register during a phase
    Leaving,        \* leaves that may be unregistered meanwhile
    Solo,           \* leaves that run() starts with module_start and may register
    Overrides,      \* pairs <<m, p>>: module m overrides phase p
    MaxSolo,        \* bound on the module_start and module_shutdown calls
    Null            \* the null pointer

Mods == Containers \cup Leaves

Phases == <<"init", "resolve", "startup", "enable_service",
            "disable_service", "shutdown", "cleanup">>
Start == 1..4
Stop == 5..7

(* The modules in the tree when prog_run begins.                            *)
FirstMods == UNION {{FirstDeps[c][i] : i \in DOMAIN FirstDeps[c]} : c \in Containers}

ASSUME TreeAssumption ==
    /\ Root \in Containers /\ Containers \cap Leaves = {}
    /\ FirstDeps \in [Containers -> Seq(Mods)]
    /\ \A c \in Containers : FirstDeps[c] # <<>>
    /\ Late \subseteq Leaves /\ Leaving \subseteq Leaves /\ Solo \subseteq Leaves
    /\ Overrides \subseteq Mods \X (DOMAIN Phases)
    /\ Solo \X (DOMAIN Phases) \subseteq Overrides
    /\ MaxSolo \in Nat
    /\ Null \notin Mods

(* mod_register takes a module once, so that the constructors build a tree: *)
(* a module is in one slot, p_module in none, and every container is        *)
(* reached from p_module: the only set with p_module in it that has, with   *)
(* a container, the containers in its slots is the set of all.  What is     *)
(* added later is not there yet.                                            *)
ASSUME ShapeAssumption ==
    /\ \A c, d \in Containers : \A i \in DOMAIN FirstDeps[c], j \in DOMAIN FirstDeps[d] :
          FirstDeps[c][i] = FirstDeps[d][j] => c = d /\ i = j
    /\ Root \notin FirstMods
    /\ \A D \in SUBSET Containers :
          /\ Root \in D
          /\ \A c \in D : \A i \in DOMAIN FirstDeps[c] :
                FirstDeps[c][i] \in Containers => FirstDeps[c][i] \in D
          => D = Containers
    /\ (Late \cup Solo) \cap FirstMods = {} /\ Late \cap Solo = {}

VARIABLES
    m_state,        \* the phases that m_state says were done
    st_register,    \* the modules with that bit in m_state
    m_dep_idx,      \* per container its array, up to m_dep_cnt
    m_dep_siz,      \* per container the size of that array
    m_index,        \* index in the parent, -1 at first
    stack,          \* the active walks, innermost last
    prog,           \* the phase prog_run is in
    solo,           \* number of module_start and module_shutdown calls
    ran,            \* overrides executed so far, in order
    expected        \* modules in the tree when the phase began, and still there

vars == <<m_state, st_register, m_dep_idx, m_dep_siz, m_index, stack, prog,
          solo, ran, expected>>
treeVars == <<st_register, m_dep_idx, m_dep_siz, m_index>>

m_dep_cnt(c) == Len(m_dep_idx[c])
Slots(c) == {m_dep_idx[c][i] : i \in DOMAIN m_dep_idx[c]} \ {Null}
InTree == UNION {Slots(c) : c \in Containers}

-----------------------------------------------------------------------------

(* Module(subs) registers the modules it is given in an array twice their   *)
(* number.                                                                  *)
Init ==
    /\ m_state = [m \in Mods |-> {}]
    /\ st_register = FirstMods
    /\ m_dep_idx = FirstDeps
    /\ m_dep_siz = [c \in Containers |-> 2 * Len(FirstDeps[c])]
    /\ m_index = [m \in Mods |->
                    IF m \in FirstMods
                    THEN CHOOSE i \in UNION {{j - 1 : j \in DOMAIN FirstDeps[c]} : c \in Containers} :
                            \E c \in Containers :
                               i + 1 \in DOMAIN FirstDeps[c] /\ FirstDeps[c][i + 1] = m
                    ELSE -1]
    /\ stack = <<>>
    /\ prog = 0
    /\ solo = 0
    /\ ran = <<>>
    /\ expected = {}

(* Mutant: mod_disable_service walks forward, as the phases before it.      *)
ForwardMore == 1..5

(* The phases whose loop counts up; the others count down.                  *)
Forward == Start

(* The walk of phase p over the array of container c, about to begin.       *)
Walk(c, p) == [mod |-> c, ph |-> p, call |-> "virtual",
               i |-> IF p \in Forward THEN 1 ELSE m_dep_cnt(c)]

(* Module::mod_init ... mod_cleanup called for m, with below the rest of    *)
(* the stack: a module without an array, or one that was here before, is    *)
(* only marked; mod_cleanup does not even mark it.                          *)
BasePhase(m, p, below) ==
    IF m \in Leaves \/ p \in m_state[m]
    THEN /\ m_state' = [m_state EXCEPT ![m] = IF Phases[p] = "cleanup" THEN @ ELSE @ \cup {p}]
         /\ stack' = below
    ELSE /\ m_state' = [m_state EXCEPT ![m] = @ \cup {p}]
         /\ stack' = Append(below, Walk(m, p))

-----------------------------------------------------------------------------

Top == stack[Len(stack)]
Below == SubSeq(stack, 1, Len(stack) - 1)

(* The loop goes on to the next slot.                                       *)
Moved(frame) == [frame EXCEPT !.call = "virtual",
                              !.i = IF frame.ph \in Forward THEN @ + 1 ELSE @ - 1]
InRange(frame) == frame.i \in DOMAIN m_dep_idx[frame.mod]
Sub == m_dep_idx[Top.mod][Top.i]

(* prog_run calls the next phase of p_module when the last one returned.    *)
prog_phase ==
    /\ stack = <<>> /\ prog < Len(Phases)
    /\ prog' = prog + 1
    /\ expected' = InTree
    /\ BasePhase(Root, prog + 1, <<>>)
    /\ UNCHANGED <<treeVars, solo, ran>>

(* Mutant: the walk does not get past an empty slot.                        *)
null_stays ==
    /\ stack # <<>> /\ InRange(Top) /\ Sub = Null
    /\ UNCHANGED vars

(* An empty slot is skipped.                                                *)
walk_null ==
    /\ stack # <<>> /\ InRange(Top) /\ Sub = Null
    /\ stack' = Append(Below, Moved(Top))
    /\ UNCHANGED <<m_state, treeVars, prog, solo, ran, expected>>

(* The virtual call reaches an override ...                                 *)
walk_override ==
    /\ stack # <<>> /\ InRange(Top) /\ Sub # Null
    /\ Top.call = "virtual" /\ <<Sub, Top.ph>> \in Overrides
    /\ ran' = Append(ran, <<Top.ph, Sub>>)
    /\ stack' = Append(Below, [Top EXCEPT !.call = "base"])
    /\ UNCHANGED <<m_state, treeVars, prog, solo, expected>>

(* ... or the base version.                                                 *)
walk_virtual ==
    /\ stack # <<>> /\ InRange(Top) /\ Sub # Null
    /\ Top.call = "virtual" /\ <<Sub, Top.ph>> \notin Overrides
    /\ BasePhase(Sub, Top.ph, Append(Below, [Top EXCEPT !.call = "base"]))
    /\ UNCHANGED <<treeVars, prog, solo, ran, expected>>

(* After it, the base version is called by name.                            *)
walk_base ==
    /\ stack # <<>> /\ InRange(Top) /\ Sub # Null
    /\ Top.call = "base"
    /\ BasePhase(Sub, Top.ph, Append(Below, Moved(Top)))
    /\ UNCHANGED <<treeVars, prog, solo, ran, expected>>

(* The walk is over.                                                        *)
walk_return ==
    /\ stack # <<>> /\ ~InRange(Top)
    /\ stack' = Below
    /\ UNCHANGED <<m_state, treeVars, prog, solo, ran, expected>>

-----------------------------------------------------------------------------

(* Program::run() is executed between the fourth and the fifth phase.       *)
InRun == prog = 4 /\ stack = <<>>

Started(m) == \E i \in DOMAIN ran : ran[i] = <<4, m>>
Stopped(m) == \E i \in DOMAIN ran : ran[i] = <<5, m>>

(* mod_register, with the array grown when grows holds.  As in the tests, a *)
(* module that run() adds has been started, and is not also stopped alone.  *)
Register(c, m, grows) ==
    /\ m \in (Late \cup Solo) \ st_register
    /\ m \notin InTree
    /\ IF m \in Solo THEN InRun /\ Started(m) /\ ~Stopped(m) ELSE prog > 0
    /\ st_register' = st_register \cup {m}
    /\ m_index' = [m_index EXCEPT ![m] = m_dep_cnt(c)]
    /\ m_dep_idx' = [m_dep_idx EXCEPT ![c] = Append(@, m)]
    /\ m_dep_siz' = [m_dep_siz EXCEPT ![c] = IF grows THEN 2 * @ ELSE @]
    /\ UNCHANGED <<m_state, stack, prog, solo, ran, expected>>

(* Mutant: the array grows one module too late.                             *)
register_late(c, m) == Register(c, m, m_dep_cnt(c) = m_dep_siz[c] + 1)

(* mod_register: a module is registered once; the array grows one slot      *)
(* before it is full.                                                       *)
mod_register(c, m) == Register(c, m, m_dep_cnt(c) + 1 = m_dep_siz[c])

(* mod_register_index: into a slot that is empty; st_register is not set.   *)
mod_register_index(c, m, i) ==
    /\ m \in Late \ st_register
    /\ m \notin InTree
    /\ prog > 0
    /\ i \in DOMAIN m_dep_idx[c] /\ m_dep_idx[c][i] = Null
    /\ m_index' = [m_index EXCEPT ![m] = i - 1]
    /\ m_dep_idx' = [m_dep_idx EXCEPT ![c][i] = m]
    /\ UNCHANGED <<m_state, st_register, m_dep_siz, stack, prog, solo, ran, expected>>

(* The modules between their virtual and their base call.  A walk reads the *)
(* slot again for the base call, so unregistering one of these would make   *)
(* it call through a null pointer.                                          *)
Visited == {m_dep_idx[f.mod][f.i] :
              f \in {stack[k] : k \in {j \in DOMAIN stack :
                                        stack[j].call = "base" /\ InRange(stack[j])}}}

(* mod_unregister finds the slot by m_index.                                *)
mod_unregister(c, m) ==
    /\ m \in Slots(c) \cap ((Leaving \cap st_register) \ Visited)
    /\ prog > 0
    /\ m_dep_idx' = [m_dep_idx EXCEPT ![c][m_index[m] + 1] = Null]
    /\ expected' = expected \ {m}
    /\ UNCHANGED <<m_state, st_register, m_dep_siz, m_index, stack, prog, solo, ran>>

(* module_start: the four virtual calls of a module outside the tree.       *)
module_start(m) ==
    /\ m \in Solo /\ InRun /\ ~Started(m) /\ solo < MaxSolo
    /\ solo' = solo + 1
    /\ ran' = ran \o <<<<1, m>>, <<2, m>>, <<3, m>>, <<4, m>>>>
    /\ UNCHANGED <<m_state, treeVars, stack, prog, expected>>

(* What module_shutdown runs of phase p: nothing when the module is marked. *)
Unmarked(m, p) == IF p \in m_state[m] THEN <<>> ELSE <<<<p, m>>>>

(* module_shutdown: per phase the base version, which marks the module, and *)
(* the override, unless the module is marked.                               *)
module_shutdown(m) ==
    /\ m \in Solo /\ InRun /\ Started(m) /\ solo < MaxSolo
    /\ m \notin st_register
    /\ solo' = solo + 1
    /\ ran' = ran \o Unmarked(m, 5) \o Unmarked(m, 6) \o Unmarked(m, 7)
    /\ m_state' = [m_state EXCEPT ![m] = @ \cup {5, 6}]
    /\ UNCHANGED <<treeVars, stack, prog, expected>>

Next ==
    \/ prog_phase \/ walk_null \/ walk_override \/ walk_virtual \/ walk_base
    \/ walk_return
    \/ \E c \in Containers, m \in Mods :
          \/ mod_register(c, m) \/ mod_unregister(c, m)
          \/ \E i \in DOMAIN m_dep_idx[c] : mod_register_index(c, m, i)
    \/ \E m \in Solo : module_start(m) \/ module_shutdown(m)

Spec == Init /\ [][Next]_vars

(* The main thread goes on; every override returns.                         *)
Fairness ==
    WF_vars(prog_phase \/ walk_null \/ walk_override \/ walk_virtual
            \/ walk_base \/ walk_return)

FairSpec == Spec /\ Fairness

-----------------------------------------------------------------------------

TypeOK ==
    /\ m_state \in [Mods -> SUBSET DOMAIN Phases]
    /\ st_register \subseteq Mods
    /\ m_dep_idx \in [Containers -> Seq(Mods \cup {Null})]
    /\ m_dep_siz \in [Containers -> Nat]
    /\ m_index \in [Mods -> Int]
    /\ stack \in Seq([mod : Containers, ph : DOMAIN Phases,
                      call : {"virtual", "base"}, i : Int])
    /\ prog \in 0..Len(Phases)
    /\ solo \in 0..MaxSolo
    /\ ran \in Seq((DOMAIN Phases) \X Mods)
    /\ expected \subseteq Mods

Ran(p, m) == \E i \in DOMAIN ran : ran[i] = <<p, m>>

(* Pairs of modules of which the first did the work of phase p earlier.     *)
Before == {<<ran[e[1]][1], ran[e[1]][2], ran[e[2]][2]>> :
             e \in {d \in (DOMAIN ran) \X (DOMAIN ran) :
                      d[1] < d[2] /\ ran[d[1]][1] = ran[d[2]][1]}}

(* A module does the work of a phase at most once, though the virtual call  *)
(* and the base call both walk, containers are reached through both, and    *)
(* run() may repeat module_shutdown.  Only mod_cleanup of a module without  *)
(* an array is repeated by module_shutdown, since its bit is never set.     *)
OncePerPhase ==
    \A i, j \in DOMAIN ran :
        ran[i] = ran[j] /\ <<ran[i][1], ran[i][2]>> \notin {7} \X Solo => i = j

(* No module is stopped that was not started, whether the tree or run()     *)
(* starts it, and in whichever way it leaves.                               *)
StartedFirst ==
    \A i \in DOMAIN ran :
        ran[i][1] \in Stop /\ ran[i][2] \notin Late =>
            \A p \in Start : <<ran[i][2], p>> \in Overrides => Ran(p, ran[i][2])

(* When prog_run goes on to the next phase, every module that was in the    *)
(* tree at the beginning of this one, and was not unregistered, has done    *)
(* its work, however the tree changed meanwhile.                            *)
PhaseComplete ==
    stack = <<>> =>
        \A m \in expected : <<m, prog>> \in Overrides => Ran(prog, m)

(* Modules of one container do their work in the order of their indices     *)
(* when the program starts, and in the opposite order when it stops.  Two   *)
(* modules that run() started itself are in the order run() chose.          *)
SiblingOrder ==
    \A e \in Before : \A c \in Containers :
        {e[2], e[3]} \subseteq Slots(c) =>
            IF e[1] \in Start
            THEN m_index[e[2]] < m_index[e[3]] \/ {e[2], e[3]} \subseteq Solo
            ELSE m_index[e[2]] > m_index[e[3]]

(* A container does its own work before its modules do theirs, in every     *)
(* phase, starting and stopping.                                            *)
ContainerFirst ==
    \A e \in Before : e[3] \in Containers => e[2] \notin Slots(e[3])

(* The walks of the seven phases do what prog_run relies on: each module's  *)
(* work once, all of it before the next phase, none stopped that was not    *)
(* started, and in the order of the tree.                                   *)
PhasesSound ==
    OncePerPhase /\ PhaseComplete /\ StartedFirst /\ SiblingOrder /\ ContainerFirst

(* What mod_get_index and mod_unregister assert: a module is in the slot it *)
(* knows of, and in no other; and there is a slot left to write into.       *)
SlotsAgree ==
    \A c \in Containers :
        /\ m_dep_cnt(c) < m_dep_siz[c]
        /\ \A i \in DOMAIN m_dep_idx[c] :
              m_dep_idx[c][i] # Null =>
                  /\ m_index[m_dep_idx[c][i]] = i - 1
                  /\ \A d \in Containers \ {c} : m_dep_idx[c][i] \notin Slots(d)

(* mod_register, mod_register_index and mod_unregister keep the tree sound, *)
(* also in the middle of a walk: the types, and slots that agree with what  *)
(* the modules know.                                                        *)
TreeSound == TypeOK /\ SlotsAgree

(* The program comes through all its phases.                                *)
ProgramEnds == <>(prog = Len(Phases) /\ stack = <<>>)
=============================================================================
