CONSTANTS
    h = h
    b = b
    Goroutines <- MCGoroutines
    Handler = h
    ReplyModes <- MCReplyModes
    TransportFails = TRUE
    MaxCalls = 2

SPECIFICATION Spec

\* Handling a request ends: once every goroutine has made its calls and
\* finalize has run, nothing is left to do.
CHECK_DEADLOCK FALSE

INVARIANT AtMostOneReply
PROPERTY NoReplyAfterFinalize
