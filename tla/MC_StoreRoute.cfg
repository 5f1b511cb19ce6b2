CONSTANTS
    Peers = {"p1", "p2"}
    LocalPeer = "p1"

SPECIFICATION Spec

INVARIANT RoutesAsSpecified
