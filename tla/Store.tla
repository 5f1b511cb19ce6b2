------------------------------- MODULE Store -------------------------------
(***************************************************************************)
(* The aggregate revision store (src/unnamed/part_000): GetRevision routes *)
(* a session-ref to the local store when the ref's peer is this peer, to   *)
(* the remote store otherwise, and answers with the closed placeholder     *)
(* when the store it would use is not configured.  Which stores are        *)
(* configured is fixed when the store is built.                            *)
(***************************************************************************)
CONSTANTS
    Peers,        \* peer IDs
    LocalPeer     \* this peer's ID

ASSUME LocalPeer \in Peers

VARIABLES
    local,        \* s.Local != nil
    remote,       \* s.Remote != nil
    answer        \* the last lookup: [peer, via]

vars == <<local, remote, answer>>

(* NewAggregateStore(peerID, local, remote)                                *)
Init ==
    /\ local \in BOOLEAN
    /\ remote \in BOOLEAN
    /\ answer = [peer |-> "none", via |-> "none"]

(* GetRevision(ref): which store answers for a ref of peer p.              *)
Route(p) ==
    IF p = LocalPeer
    THEN IF local THEN "local" ELSE "closed"
    ELSE IF remote THEN "remote" ELSE "closed"

GetRevision(p) ==
    /\ answer' = [peer |-> p, via |-> Route(p)]
    /\ UNCHANGED <<local, remote>>

Next == \E p \in Peers : GetRevision(p)

Spec == Init /\ [][Next]_vars

-----------------------------------------------------------------------------
(* Section 4.6 of the spec: a ref of this peer goes to the local store if *)
(* it is configured; else to the remote cache if that is configured; else *)
(* the closed placeholder answers.                                         *)
SpecRoute(p) ==
    CASE p = LocalPeer /\ local -> "local"
      [] remote                 -> "remote"
      [] OTHER                  -> "closed"

RoutesAsSpecified == answer.via # "none" => answer.via = SpecRoute(answer.peer)

=============================================================================
