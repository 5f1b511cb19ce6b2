---------------------------- MODULE SessionTable ----------------------------
(***************************************************************************)
(* What a session's catalog promises its callers, stated without any of    *)
(* the catalog's bookkeeping (metadata, message sequence, diffs).          *)
(*                                                                         *)
(* A session is a versioned attribute table.  Every successful write      *)
(* advances the revision by exactly one and is accepted only from a       *)
(* caller whose view is the current revision (optimistic concurrency).    *)
(* A write replaces one namespace, never drops a key, and never changes a *)
(* frozen attribute.  Once closed, the table and revision never change.   *)
(***************************************************************************)
EXTENDS Naturals

CONSTANTS
    Namespaces,   \* attribute namespaces
    Keys,         \* attribute keys
    Values,       \* non-empty attribute values
    Clients       \* callers holding a view of the session

VARIABLES
    rev,          \* the current revision number
    table,        \* table[ns][k] = [Value, IsFrozen], for the keys present
    closed,       \* TRUE once the session is destroyed
    view          \* view[c] = the revision caller c last obtained

vars == <<rev, table, closed, view>>

Pair == [Value: Values \cup {""}, IsFrozen: BOOLEAN]

Init ==
    /\ rev = 0
    /\ table = [n \in Namespaces |-> <<>>]
    /\ closed = FALSE
    /\ view = [c \in Clients |-> 0]

\* A caller obtains the current revision, or any earlier one.
Read(c) ==
    /\ \E r \in 0..rev : view' = [view EXCEPT ![c] = r]
    /\ UNCHANGED <<rev, table, closed>>

\* A write of namespace n from a caller whose view is current.
KeepsFrozen(old, new) ==
    /\ DOMAIN old \subseteq DOMAIN new
    /\ \A k \in DOMAIN old : old[k].IsFrozen => new[k] = old[k]

Commit(c) ==
    /\ ~closed
    /\ view[c] = rev
    /\ \E n \in Namespaces, K \in SUBSET Keys :
         \E new \in [K -> Pair] :
            /\ KeepsFrozen(table[n], new)
            /\ table' = [table EXCEPT ![n] = new]
    /\ rev' = rev + 1
    /\ view' = [view EXCEPT ![c] = rev + 1]
    /\ UNCHANGED closed

\* Destruction by a caller whose view is current.
Destroy(c) ==
    /\ view[c] = rev
    /\ closed' = TRUE
    /\ UNCHANGED <<rev, table, view>>

\* Forced destruction.
ForceClose ==
    /\ closed' = TRUE
    /\ UNCHANGED <<rev, table, view>>

Next ==
    \/ \E c \in Clients : Read(c) \/ Commit(c) \/ Destroy(c)
    \/ ForceClose

Spec == Init /\ [][Next]_vars

=============================================================================
