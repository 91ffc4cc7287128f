CONSTANTS
    root = root
    box = box
    a = a
    b = b
    c = c
    x = x
    s = s
    Root = root
    Containers = {root, box}
    Leaves = {a, b, c, x, s}
    FirstDeps <- Deps
    Late = {x}
    Leaving = {a, c}
    Solo = {s}
    Overrides <- Virtual
    MaxSolo = 3
    Null = Null
SPECIFICATION FairSpec
CHECK_DEADLOCK FALSE
INVARIANTS TreeSound PhasesSound
PROPERTY ProgramEnds
