SPECIFICATION LiveSpec
CONSTANTS
    Structs = {1, 2}
    Kernel = Kernel
    Cpus = {c1}
    MaxId = 2
    MaxProcs = 1
    None = None
PROPERTIES DyingEnds
