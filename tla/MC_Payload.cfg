CONSTANTS
    g1 = g1
    g2 = g2
    g3 = g3
    None = None
    Goroutines <- MCGoroutines
    First = g1
    Kinds = {"value", "bytes"}
    MaxOps = 2

SPECIFICATION Spec

INVARIANT SliceValidWhileOpen
INVARIANT BuffersAccounted
PROPERTY EventuallyAllFinished
