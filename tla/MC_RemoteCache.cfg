CONSTANTS
    Keys = {"x", "y"}
    Values = {"a"}
    Proposals <- MCProposals
    MaxRev = 2
    MaxNet = 4

SPECIFICATION Spec


INVARIANT WritesAppliedOnce

\* A session destroyed before any command reached the remote peer leaves
\* nothing to do: the system really stops there.
CHECK_DEADLOCK FALSE
