------------------------------ MODULE Payload ------------------------------
(***************************************************************************)
(* A reference-counted payload (package rinq, Payload in                   *)
(* src/unnamed/part_003).  Handles are not safe for concurrent use, so     *)
(* each goroutine owns at most one handle, obtained from NewPayload,       *)
(* NewPayloadFromBytes or another goroutine's Clone; all handles share     *)
(* one payloadData guarded by readMutex and writeMutex.                    *)
(*                                                                         *)
(* Each method is split at its lock acquisitions: Clone and Close take     *)
(* writeMutex; Bytes and Value take readMutex and, when they must encode   *)
(* or decode, writeMutex inside it.  The encoding buffer comes from the    *)
(* buffer pool (or is the byte slice handed to NewPayloadFromBytes) and    *)
(* goes back to the pool when the last handle closes.                      *)
(***************************************************************************)
EXTENDS Naturals, FiniteSets

CONSTANTS
    Goroutines,   \* goroutines that may own a handle
    First,        \* the goroutine that creates the payload
    Kinds,        \* subset of {"value", "bytes"}: how the payload is created
    MaxOps,       \* bound: Clone, Bytes or Value calls per goroutine
    None          \* no goroutine (model value)

ASSUME First \in Goroutines /\ None \notin Goroutines
ASSUME Kinds \subseteq {"value", "bytes"} /\ MaxOps \in Nat

VARIABLES
    refCount,   \* data.refCount
    buffer,     \* data.buffer: "nil", "live", or "pooled" (returned to the pool)
    hasValue,   \* data.hasValue
    rLock,      \* the holder of data.readMutex, or None
    wLock,      \* the holder of data.writeMutex, or None
    handle,     \* handle[g]: g owns an open handle
    slice,      \* slice[g]: g holds a byte slice Bytes returned on its handle
    pc,         \* pc[g]: where goroutine g is
    ops,        \* ops[g]: calls g has made
    gets,       \* buffers the payload has taken (pool or caller)
    puts        \* buffers the payload has put back into the pool

vars == <<refCount, buffer, hasValue, rLock, wLock, handle, slice, pc, ops,
          gets, puts>>

-----------------------------------------------------------------------------
\* Mutant of LockR: readMutex is not taken.
LockRNoop(g) == UNCHANGED rLock

\* p.data.readMutex.Lock()
LockR(g) == rLock = None /\ rLock' = g

\* p.data.writeMutex.Lock()
LockW(g) == wLock = None /\ wLock' = g

\* g starts a method call on its open handle.
CanStart(g) == pc[g] = "ready" /\ ops[g] < MaxOps

Goto(g, l) == pc' = [pc EXCEPT ![g] = l]

(* NewPayload(v) / NewPayloadFromBytes(buf): refCount 1; a value payload  *)
(* has its value, a bytes payload owns the caller's buffer.                *)
Init ==
    /\ \E kind \in Kinds :
          /\ hasValue = (kind = "value")
          /\ buffer = IF kind = "bytes" THEN "live" ELSE "nil"
          /\ gets = IF kind = "bytes" THEN 1 ELSE 0
    /\ refCount = 1
    /\ rLock = None
    /\ wLock = None
    /\ handle = [g \in Goroutines |-> g = First]
    /\ slice = [g \in Goroutines |-> FALSE]
    /\ pc = [g \in Goroutines |-> IF g = First THEN "ready" ELSE "idle"]
    /\ ops = [g \in Goroutines |-> 0]
    /\ puts = 0

(* Clone(): refCount++ under writeMutex, by g for goroutine h, which has   *)
(* no handle; ...                                                          *)
CloneLocked(g, h) ==
    /\ CanStart(g)
    /\ pc[h] = "idle"
    /\ LockW(g)
    /\ refCount' = refCount + 1
    /\ ops' = [ops EXCEPT ![g] = @ + 1]
    /\ pc' = [pc EXCEPT ![g] = "clone", ![h] = "given"]
    /\ UNCHANGED <<buffer, hasValue, rLock, handle, slice, gets, puts>>

(* ... unlock, and the new handle goes to h.                               *)
CloneUnlock(g, h) ==
    /\ pc[g] = "clone"
    /\ pc[h] = "given"
    /\ wLock' = None
    /\ handle' = [handle EXCEPT ![h] = TRUE]
    /\ pc' = [pc EXCEPT ![g] = "ready", ![h] = "ready"]
    /\ UNCHANGED <<refCount, buffer, hasValue, rLock, slice, ops, gets, puts>>

\* Mutant of IsLast: the count is tested as if before the decrement.
IsLastOffByOne(n) == n <= 1

\* data.refCount == 0, after the decrement
IsLast(n) == n = 0

(* Close(): p.data = nil, then under writeMutex refCount--, and the buffer *)
(* goes back to the pool when the count reaches zero.  A slice from Bytes *)
(* is invalid once the handle is closed.                                   *)
CloseLocked(g) ==
    /\ pc[g] = "ready"
    /\ LockW(g)
    /\ handle' = [handle EXCEPT ![g] = FALSE]
    /\ slice' = [slice EXCEPT ![g] = FALSE]
    /\ refCount' = refCount - 1
    /\ IF IsLast(refCount - 1) /\ buffer # "nil"
       THEN /\ buffer' = "pooled"
            /\ puts' = puts + 1
       ELSE UNCHANGED <<buffer, puts>>
    /\ Goto(g, "close")
    /\ UNCHANGED <<hasValue, rLock, ops, gets>>

\* Mutant of CloseUnlock: the deferred Unlock is lost.
CloseNoUnlock(g) ==
    /\ pc[g] = "close"
    /\ Goto(g, "done")
    /\ UNCHANGED <<refCount, buffer, hasValue, rLock, wLock, handle, slice, ops,
                   gets, puts>>

CloseUnlock(g) ==
    /\ pc[g] = "close"
    /\ wLock' = None
    /\ Goto(g, "done")
    /\ UNCHANGED <<refCount, buffer, hasValue, rLock, handle, slice, ops,
                   gets, puts>>

(* Bytes(): under readMutex, an existing buffer is returned; otherwise,    *)
(* also under writeMutex, the value is encoded into a pool buffer.         *)
BytesLocked(g) ==
    /\ CanStart(g)
    /\ LockR(g)
    /\ ops' = [ops EXCEPT ![g] = @ + 1]
    /\ IF buffer # "nil"
       THEN /\ slice' = [slice EXCEPT ![g] = TRUE]
            /\ Goto(g, "bytes")
       ELSE /\ Goto(g, "bytesEncode")
            /\ UNCHANGED slice
    /\ UNCHANGED <<refCount, buffer, hasValue, wLock, handle, gets, puts>>

BytesEncode(g) ==
    /\ pc[g] = "bytesEncode"
    /\ LockW(g)
    /\ buffer' = "live"
    /\ gets' = gets + 1
    /\ slice' = [slice EXCEPT ![g] = TRUE]
    /\ Goto(g, "bytes")
    /\ UNCHANGED <<refCount, hasValue, rLock, handle, ops, puts>>

(* Value(): under readMutex, a decoded value is returned; otherwise, also  *)
(* under writeMutex, the buffer is decoded.                                *)
ValueLocked(g) ==
    /\ CanStart(g)
    /\ LockR(g)
    /\ ops' = [ops EXCEPT ![g] = @ + 1]
    /\ Goto(g, IF hasValue THEN "value" ELSE "valueDecode")
    /\ UNCHANGED <<refCount, buffer, hasValue, wLock, handle, slice, gets, puts>>

ValueDecode(g) ==
    /\ pc[g] = "valueDecode"
    /\ LockW(g)
    /\ hasValue' = TRUE
    /\ Goto(g, "value")
    /\ UNCHANGED <<refCount, buffer, rLock, handle, slice, ops, gets, puts>>

\* The deferred unlocks of Bytes and Value: writeMutex (if taken), then
\* readMutex.
ReadUnlock(g) ==
    /\ pc[g] \in {"bytes", "value"}
    /\ rLock' = None
    /\ wLock' = IF wLock = g THEN None ELSE wLock
    /\ Goto(g, "ready")
    /\ UNCHANGED <<refCount, buffer, hasValue, handle, slice, ops, gets, puts>>

\* Mutant of ClosedHandleCall: a second Close on a handle reaches the
\* shared data again, as if Close did not reset p.data.
ClosedHandleCloses(g) ==
    /\ pc[g] = "done"
    /\ ops[g] < MaxOps
    /\ ops' = [ops EXCEPT ![g] = @ + 1]
    /\ refCount > 0
    /\ refCount' = refCount - 1
    /\ IF IsLast(refCount - 1) /\ buffer # "nil"
       THEN /\ buffer' = "pooled"
            /\ puts' = puts + 1
       ELSE UNCHANGED <<buffer, puts>>
    /\ UNCHANGED <<hasValue, rLock, wLock, handle, slice, pc, gets>>

(* Clone, Bytes, Value or Close on a handle g has closed: Close set p.data *)
(* to nil, so each returns nil at its "p.data == nil" guard, touching no   *)
(* lock and no shared data.                                                *)
ClosedHandleCall(g) ==
    /\ pc[g] = "done"
    /\ ops[g] < MaxOps
    /\ ops' = [ops EXCEPT ![g] = @ + 1]
    /\ UNCHANGED <<refCount, buffer, hasValue, rLock, wLock, handle, slice, pc,
                   gets, puts>>

\* Every goroutine has finished.
Terminated ==
    /\ \A g \in Goroutines : pc[g] \in {"idle", "done"}
    /\ UNCHANGED vars

Step(g) ==
    \/ \E h \in Goroutines : CloneLocked(g, h) \/ CloneUnlock(g, h)
    \/ CloseLocked(g)
    \/ CloseUnlock(g)
    \/ BytesLocked(g)
    \/ BytesEncode(g)
    \/ ValueLocked(g)
    \/ ValueDecode(g)
    \/ ReadUnlock(g)
    \/ ClosedHandleCall(g)

Next == (\E g \in Goroutines : Step(g)) \/ Terminated

\* The Go scheduler runs every runnable goroutine, and a sync.Mutex in
\* starvation mode hands the lock to a waiter that has waited long: a
\* goroutine waiting for a mutex that is released again and again gets it.
\* The application closes every payload it holds (the Payload contract),
\* so a goroutine with a handle keeps calling until it closes it.
Spec == Init /\ [][Next]_vars /\ \A g \in Goroutines : SF_vars(Step(g))

-----------------------------------------------------------------------------
(* Properties                                                              *)

(* A byte slice Bytes returned stays valid while the handle it came from  *)
(* is open: the buffer behind it is not returned to the pool while any     *)
(* clone, on any goroutine, still references the data.                     *)
SliceValidWhileOpen == \A g \in Goroutines : slice[g] => buffer = "live"

AllFinished == \A g \in Goroutines : pc[g] \in {"idle", "done"}

(* The payload never returns more buffers to the pool than it took, and   *)
(* once every goroutine has closed its handle every buffer it took is back *)
(* in the pool, however Bytes, Value, Clone and Close interleave.          *)
BuffersAccounted ==
    /\ puts <= gets
    /\ AllFinished => puts = gets

(* Every goroutine that holds a handle eventually finishes, closing it:   *)
(* no goroutine is left waiting for a mutex forever.                       *)
EventuallyAllFinished == <>AllFinished

=============================================================================
