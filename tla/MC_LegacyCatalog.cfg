CONSTANTS
    c1 = c1
    c2 = c2
    Keys <- MCKeys
    Values <- MCValues
    Clients <- MCClients
    Writers <- MCWriters
    SeqWidth = 1
    MaxMessages = 2
    MaxRev = 3
    MaxBatch = 2

SPECIFICATION Spec

INVARIANT TypeOK
PROPERTY AbstractSpec
PROPERTY DiffNamesStampedKeys
