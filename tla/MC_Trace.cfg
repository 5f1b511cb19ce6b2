CONSTANTS
    m1 = m1
    m2 = m2
    m3 = m3
    m4 = m4
    m5 = m5
    MessageIDs = {m1, m2, m3, m4, m5}
    Empty = ""

SPECIFICATION Spec

\* Every message ID has been used: no request can be sent any more.
CHECK_DEADLOCK FALSE

INVARIANT TraceIsRoot
