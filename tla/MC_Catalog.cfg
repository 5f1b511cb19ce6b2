CONSTANTS
    n1 = n1
    k1 = k1
    k2 = k2
    c1 = c1
    c2 = c2
    Namespaces <- MCNamespaces
    Keys <- MCKeys
    Values <- MCValues
    Clients <- MCClients
    SeqWidth = 1
    MaxRev = 3
    MaxMessages = 2
    MaxBatch = 1
SPECIFICATION Spec
INVARIANTS
    MetaDataMatchesHistory
    TypeOK
PROPERTIES
    AbstractSpec
