------------------------------ MODULE Response ------------------------------
(***************************************************************************)
(* The response to one command request (rinqamqp/internal/commandamqp/    *)
(* response.go).  newResponse gives the handler the response and gives the *)
(* server its finalize function; the server calls finalize once the       *)
(* handler has returned.  The handler may hand the response to other       *)
(* goroutines, so Done, Error, Fail and Close can be called from several   *)
(* goroutines, before and after the handler returns, while the request's   *)
(* context may be cancelled and its deadline may pass at any moment.       *)
(*                                                                         *)
(* Every method holds the response mutex for its whole body (respond runs  *)
(* under the caller's lock), so each call is one step.  A panic stops the  *)
(* goroutine that made the call.  Payloads and message headers are left    *)
(* out: no decision of the code depends on them.                           *)
(***************************************************************************)
EXTENDS Naturals

CONSTANTS
    Goroutines,     \* goroutines holding the response
    Handler,        \* the goroutine running the handler, in Goroutines
    ReplyModes,     \* subset of {"none", "correlated", "uncorrelated"}
    TransportFails, \* TRUE: channels.Get or Publish may return an error
    MaxCalls        \* bound: response method calls per goroutine

ASSUME Handler \in Goroutines
ASSUME ReplyModes \subseteq {"none", "correlated", "uncorrelated"}
ASSUME TransportFails \in BOOLEAN /\ MaxCalls \in Nat

VARIABLES
    isClosed,   \* r.isClosed
    replyMode,  \* r.replyMode, fixed by the request
    cancelled,  \* the context was cancelled before its deadline
    expired,    \* the context's deadline has passed
    published,  \* the number of replies published
    panicked,   \* the goroutines stopped by a panic
    calls,      \* calls[g]: response methods goroutine g has called
    returned,   \* the handler has returned to the server
    finalized   \* what finalize returned, or "pending"

vars == <<isClosed, replyMode, cancelled, expired, published, panicked, calls,
          returned, finalized>>

-----------------------------------------------------------------------------
(* IsRequired(): a reply is still expected.  r.context.Done() is closed   *)
(* by a cancellation as well as by the deadline.                           *)
IsRequired ==
    /\ ~isClosed
    /\ replyMode # "none"
    /\ ~(cancelled \/ expired)

\* Mutant of respond: the deadline is not checked before publishing.
RespondNoDeadline(g) ==
    /\ isClosed' = TRUE
    /\ IF replyMode = "none"
       THEN UNCHANGED <<published, panicked>>
       ELSE \/ /\ published' = published + 1
               /\ UNCHANGED panicked
            \/ /\ TransportFails
               /\ panicked' = panicked \cup {g}
               /\ UNCHANGED published

(* respond(msg): closes the response; publishes the reply unless the mode  *)
(* expects none or PackDeadline finds the deadline passed (a cancelled     *)
(* context still publishes); an error from channels.Get,                    *)
(* PackSpanContext or Publish panics, after isClosed is already set.       *)
Respond(g) ==
    /\ isClosed' = TRUE
    /\ IF replyMode = "none" \/ expired
       THEN UNCHANGED <<published, panicked>>
       ELSE \/ /\ published' = published + 1
               /\ UNCHANGED panicked
            \/ /\ TransportFails
               /\ panicked' = panicked \cup {g}
               /\ UNCHANGED published

\* Goroutine g may call a response method.
CanCall(g) ==
    /\ g \notin panicked
    /\ calls[g] < MaxCalls
    /\ g = Handler => ~returned

\* Counts the call against g's bound.
Record(g) ==
    /\ calls' = [calls EXCEPT ![g] = @ + 1]

(* Done(payload), Error(err), and Fail(t, f, v...), which calls Error:     *)
(* panic if the response is closed, otherwise respond.                     *)
Reply(g, m) ==
    /\ CanCall(g)
    /\ \/ /\ isClosed
          /\ panicked' = panicked \cup {g}
          /\ UNCHANGED <<isClosed, published>>
       \/ /\ ~isClosed
          /\ Respond(g)
    /\ Record(g)
    /\ UNCHANGED <<replyMode, cancelled, expired, returned, finalized>>

Done(g)  == Reply(g, "Done")
Error(g) == Reply(g, "Error")
Fail(g)  == Reply(g, "Fail")

\* Mutant of Close: the isClosed check is dropped.
CloseUnchecked(g) ==
    /\ CanCall(g)
    /\ Respond(g)
    /\ Record(g)
    /\ UNCHANGED <<replyMode, cancelled, expired, returned, finalized>>

(* Close(): returns false if already closed, else responds with success.   *)
Close(g) ==
    /\ CanCall(g)
    /\ \/ /\ isClosed
          /\ UNCHANGED <<isClosed, published, panicked>>
       \/ /\ ~isClosed
          /\ Respond(g)
    /\ Record(g)
    /\ UNCHANGED <<replyMode, cancelled, expired, returned, finalized>>

\* The handler function returns to the server.
HandlerReturns ==
    /\ ~returned
    /\ Handler \notin panicked
    /\ returned' = TRUE
    /\ UNCHANGED <<isClosed, replyMode, cancelled, expired, published,
                   panicked, calls, finalized>>

\* Mutant of finalize: the response is not marked closed.
FinalizeNoClose ==
    /\ returned
    /\ finalized = "pending"
    /\ finalized' = IF isClosed THEN "true" ELSE "false"
    /\ UNCHANGED <<isClosed, replyMode, cancelled, expired, published,
                   panicked, calls, returned>>

(* finalize(): true if a reply method already closed the response;         *)
(* otherwise closes it (no reply) and returns false.                       *)
Finalize ==
    /\ returned
    /\ finalized = "pending"
    /\ finalized' = IF isClosed THEN "true" ELSE "false"
    /\ isClosed' = TRUE
    /\ UNCHANGED <<replyMode, cancelled, expired, published, panicked,
                   calls, returned>>

\* The request's deadline passes.
Expire ==
    /\ ~expired
    /\ expired' = TRUE
    /\ UNCHANGED <<isClosed, replyMode, cancelled, published, panicked, calls,
                   returned, finalized>>

\* The context is cancelled (the caller gave up, or the peer stops).
Cancel ==
    /\ ~cancelled /\ ~expired
    /\ cancelled' = TRUE
    /\ UNCHANGED <<isClosed, replyMode, expired, published, panicked, calls,
                   returned, finalized>>

(* newResponse(ctx, channels, request, replyMode)                          *)
Init ==
    /\ isClosed = FALSE
    /\ replyMode \in ReplyModes
    /\ cancelled = FALSE
    /\ expired = FALSE
    /\ published = 0
    /\ panicked = {}
    /\ calls = [g \in Goroutines |-> 0]
    /\ returned = FALSE
    /\ finalized = "pending"

Next ==
    \/ \E g \in Goroutines : Done(g) \/ Error(g) \/ Fail(g) \/ Close(g)
    \/ HandlerReturns
    \/ Finalize
    \/ Expire
    \/ Cancel

Spec == Init /\ [][Next]_vars

-----------------------------------------------------------------------------
(* Properties                                                              *)

(* However the goroutines holding the response interleave Done, Error,    *)
(* Fail and Close with the server's finalize, at most one reply is         *)
(* published for the request.                                              *)
AtMostOneReply == published <= 1

(* Once finalize has run, no goroutine the handler left behind can publish *)
(* a reply: finalize and respond both close the response under the mutex.  *)
NoReplyAfterFinalize ==
    [][finalized # "pending" => published' = published]_vars

=============================================================================
