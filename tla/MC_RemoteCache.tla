--------------------------- MODULE MC_RemoteCache ---------------------------
EXTENDS RemoteCache

\* x is set, then may be frozen with the same value; y is set.
MCProposals ==
    { [k |-> "x", p |-> [Value |-> "a", IsFrozen |-> FALSE]],
      [k |-> "x", p |-> [Value |-> "a", IsFrozen |-> TRUE]],
      [k |-> "y", p |-> [Value |-> "a", IsFrozen |-> FALSE]] }
=============================================================================
