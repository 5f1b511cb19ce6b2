------------------------------ MODULE Factory ------------------------------
(***************************************************************************)
(* The constructors of the AMQP command and notification components        *)
(* (overpassamqp/commandamqp/factory.go, lines 1-95): commandamqp.New      *)
(* borrows a channel from the pool to declare the exchanges and builds an  *)
(* invoker and a server; notifyamqp.New takes a channel for good, to be    *)
(* the listener's, and builds a listener and a notifier.                   *)
(*                                                                         *)
(* Each constructor runs on one goroutine and is one step here; the step   *)
(* at which it fails (channels.Get, declareExchanges, newInvoker,          *)
(* newServer, newListener) is chosen nondeterministically.  The pool       *)
(* opens a new channel when none is idle, and is shared with the peer's    *)
(* other goroutines, which borrow channels and put them back.              *)
(***************************************************************************)
EXTENDS Naturals

CONSTANTS
    Channels      \* the channels the connection can open

VARIABLES
    chans,        \* chans[ch]: "unopened", "idle" (in the pool), "busy"
                  \* (borrowed by another goroutine of the peer), "taken"
                  \* or "listener" (owned by the listener)
    invoker,      \* "none", "running" or "stopped"
    server,       \* "none" or "running"
    listener,     \* "none" or "running"
    notifier,     \* TRUE once a notifier is built
    cmdNew,       \* what commandamqp.New returned: "none", "ok" or "err"
    notifyNew     \* what notifyamqp.New returned: "none", "ok" or "err"

vars == <<chans, invoker, server, listener, notifier, cmdNew, notifyNew>>

\* channels.Get() without error yields an idle or a newly opened channel.
Gettable == {ch \in Channels : chans[ch] \in {"unopened", "idle"}}

\* invoker.Stop() after newServer fails.
StopInvoker == "stopped"

(* commandamqp.New(peerID, config, revisions, channels): the channel goes  *)
(* back to the pool (deferred Put) on every path after Get succeeds.       *)
CommandNew ==
    /\ cmdNew = "none"
    /\ \/ /\ cmdNew' = "err"                          \* channels.Get fails
          /\ UNCHANGED <<chans, invoker, server>>
       \/ \E ch \in Gettable :
             /\ chans' = [chans EXCEPT ![ch] = "idle"]
             /\ \/ /\ cmdNew' = "err"          \* declareExchanges, newInvoker
                   /\ UNCHANGED <<invoker, server>>
                \/ /\ cmdNew' = "err"          \* newServer fails
                   /\ invoker' = StopInvoker
                   /\ UNCHANGED server
                \/ /\ cmdNew' = "ok"
                   /\ invoker' = "running"
                   /\ server' = "running"
    /\ UNCHANGED <<listener, notifier, notifyNew>>

(* notifyamqp.New(peerID, config, sessions, revisions, channels): the      *)
(* channel is not returned to the pool; it is the listener's.              *)
NotifyNew ==
    /\ notifyNew = "none"
    /\ \/ /\ notifyNew' = "err"                       \* channels.Get fails
          /\ UNCHANGED <<chans, listener, notifier>>
       \/ \E ch \in Gettable :
             \/ /\ notifyNew' = "err"     \* declareExchanges, newListener
                /\ chans' = [chans EXCEPT ![ch] = "taken"]
                /\ UNCHANGED <<listener, notifier>>
             \/ /\ notifyNew' = "ok"
                /\ chans' = [chans EXCEPT ![ch] = "listener"]
                /\ listener' = "running"
                /\ notifier' = TRUE
    /\ UNCHANGED <<invoker, server, cmdNew>>

\* Another goroutine of the peer borrows a channel (channels.Get) ...
OtherGet ==
    /\ \E ch \in Gettable : chans' = [chans EXCEPT ![ch] = "busy"]
    /\ UNCHANGED <<invoker, server, listener, notifier, cmdNew, notifyNew>>

\* ... and puts it back (channels.Put).
OtherPut ==
    /\ \E ch \in Channels :
          /\ chans[ch] = "busy"
          /\ chans' = [chans EXCEPT ![ch] = "idle"]
    /\ UNCHANGED <<invoker, server, listener, notifier, cmdNew, notifyNew>>

Init ==
    /\ chans = [ch \in Channels |-> "unopened"]
    /\ invoker = "none"
    /\ server = "none"
    /\ listener = "none"
    /\ notifier = FALSE
    /\ cmdNew = "none"
    /\ notifyNew = "none"

Next == CommandNew \/ NotifyNew \/ OtherGet \/ OtherPut

Spec == Init /\ [][Next]_vars

-----------------------------------------------------------------------------
(* Properties                                                              *)

(* Every channel a constructor takes from the pool is, once it has         *)
(* returned, back in the pool or owned by the listener it was taken for    *)
(* (notifyamqp.New: "do not return to pool, use for listener"); only the   *)
(* peer's other goroutines hold channels besides.                          *)
ChannelsAccounted == \A ch \in Channels : chans[ch] # "taken"

=============================================================================
