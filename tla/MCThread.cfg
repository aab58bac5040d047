SPECIFICATION SafeSpec
CONSTANTS
    Structs = {s1, s2}
    Kernel = Kernel
    Cpus = {c1, c2}
    MaxId = 3
    MaxProcs = 1
    None = None
INVARIANTS ThreadInOnePlace ProcessEndsLast DeathStacks
SYMMETRY Symmetry
