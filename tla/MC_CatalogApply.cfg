CONSTANTS
    n1 = n1
    k1 = k1
    k2 = k2
    c1 = c1
    c2 = c2
    Namespaces <- MCNamespaces
    Keys <- MCKeys
    Values <- MCValues
    Clients = {c1}
    SeqWidth = 2
    MaxRev = 2
    MaxMessages = 0
    MaxBatch = 3
SPECIFICATION Spec
INVARIANTS
    ApplyAttrsMatchesReference
    WriteToMatchesReference
    ConstraintMatchesReference
