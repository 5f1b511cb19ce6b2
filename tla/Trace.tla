------------------------------- MODULE Trace -------------------------------
(***************************************************************************)
(* Trace propagation (rinqamqp/internal/amqputil/trace.go).  A request    *)
(* sent outside any handler is a root: its context carries no trace ID.   *)
(* The handler of a request runs in a context whose trace ID UnpackTrace   *)
(* takes from the request, and every request it sends is packed with that *)
(* trace ID by PackTrace.  The sender side (the invoker) is not under     *)
(* src/; as PackTrace's comment describes it, a request is packed with the *)
(* trace ID of the context it is sent from.                                *)
(*                                                                         *)
(* Message IDs are distinct (they are catalog message IDs); Empty is the   *)
(* empty string "" of an unset header or of a context without a trace.     *)
(***************************************************************************)
EXTENDS Naturals, FiniteSets

CONSTANTS
    MessageIDs,   \* the message IDs requests are sent with (non-empty)
    Empty         \* the empty string

ASSUME Empty \notin MessageIDs

VARIABLES
    sent,   \* the requests sent: [MessageId, CorrelationId, root]
    free    \* the message IDs not used yet

vars == <<sent, free>>

(* PackTrace(msg, traceID): CorrelationId = traceID unless it equals the   *)
(* message ID.                                                             *)
PackTrace(msg, traceID) ==
    IF traceID # msg.MessageId THEN [msg EXCEPT !.CorrelationId = traceID]
                               ELSE msg

\* Mutant of UnpackTrace: the correlation ID is ignored.
UnpackTraceMessageID(msg) == msg.MessageId

(* UnpackTrace(parent, msg): the context's trace ID is the correlation ID, *)
(* or the message ID of a root request.                                    *)
UnpackTrace(msg) ==
    IF msg.CorrelationId # Empty THEN msg.CorrelationId ELSE msg.MessageId

\* A request with a fresh message ID, sent from a context with trace ID t;
\* root is a history field naming the root of its request tree.
Send(id, t, root) ==
    /\ sent' = sent \cup
         {PackTrace([MessageId |-> id, CorrelationId |-> Empty, root |-> root], t)}
    /\ free' = free \ {id}

Init ==
    /\ sent = {}
    /\ free = MessageIDs

\* A request sent outside any handler: trace.Get yields "".
SendRoot ==
    \E id \in free : Send(id, Empty, id)

\* The handler of request m sends a request from its context.
SendChild(m) ==
    \E id \in free : Send(id, UnpackTrace(m), m.root)

Next ==
    \/ SendRoot
    \/ \E m \in sent : SendChild(m)

Spec == Init /\ [][Next]_vars

-----------------------------------------------------------------------------
(* Properties                                                              *)

(* Every handler, however deep in a tree of requests, runs with the trace  *)
(* ID of its tree's root request, the root's message ID: the correlation   *)
(* ID "ties root requests to any requests made in response" (trace.go).    *)
TraceIsRoot == \A m \in sent : UnpackTrace(m) = m.root

=============================================================================
