SPECIFICATION Spec
CONSTANTS
    c1 = c1
    c2 = c2
    c3 = c3
    p1 = p1
    p2 = p2
    p3 = p3
    Caller = {c1, c2, c3}
    Proc = {p1, p2, p3}
    Ino = {i1, i2, i3, i4}
    None = None
    MaxCrash = 1
    ProcOf <- MCProcOf
SYMMETRY InodeSymmetry
INVARIANT MutualExclusion
