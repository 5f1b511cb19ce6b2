CONSTANTS
    c1 = c1
    c2 = c2
    Keys <- MCKeys
    Values <- MCValues
    Clients <- MCClients
    Writers <- MCWriters
    SeqWidth = 1
    MaxMessages = 0
    MaxRev = 2
    MaxBatch = 1

SPECIFICATION Spec

INVARIANT ApplyAttrsMatchesReference
