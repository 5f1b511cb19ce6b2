---------------------------- MODULE RemoteCache ----------------------------
(***************************************************************************)
(* A session as a remote peer sees it: the owning peer's catalog (reduced  *)
(* to its revision, its one namespace and its closed flag), the network    *)
(* between the peers, and the remote peer's cache entry for the session,  *)
(* read and written through remote revisions by a handler.                *)
(*                                                                         *)
(* The owner answers a remote write with its catalog's TryUpdate, TryClear *)
(* or TryDestroy (src/unnamed/part_002).  The cache, the remote revisions  *)
(* and the transport are not under src/; they are modelled from sections   *)
(* 4.4 and 4.5 of the spec.  When the cache learns that the session is     *)
(* closed, the closed placeholder answers (rinq/internal/revision/        *)
(* closed.go).                                                             *)
(*                                                                         *)
(* Messages stay in the network once sent: a message may be delivered     *)
(* never (lost), several times (duplicated) and in any order (reordered). *)
(* A handler whose context expires may call again with the same arguments *)
(* (a retry): its request is then the message already in the network.     *)
(***************************************************************************)
EXTENDS Naturals, Sequences, FiniteSets, TLC

LOCAL INSTANCE FiniteSetsExt

CONSTANTS
    Keys,         \* attribute keys of the namespace
    Values,       \* non-empty attribute values
    Proposals,    \* the attributes [k, p] callers propose in updates
    MaxRev,       \* bound: the owner's revision
    MaxNet        \* bound: distinct messages ever sent

VARIABLES
    rev,          \* owner: the catalog's revision
    table,        \* owner: key -> [Value, IsFrozen] at revision rev
    closed,       \* owner: the session is destroyed
    hist,         \* owner history: hist[r + 1] = the table at revision r
    applied,      \* owner history: the write requests committed, [req, rev]
    net,          \* the messages sent between the peers
    cached,       \* cache: an entry exists for the session
    cref,         \* cache: the entry's revision
    centries,     \* cache: the entry's partial namespace (keys ever fetched)
    cclosed,      \* cache: the session is known to be closed
    handles,      \* the revisions handed to the remote handler
    pending,      \* the handler's outstanding call, or NoCall
    answer        \* the attributes the last Get or GetMany returned

vars == <<rev, table, closed, hist, applied, net, cached, cref, centries,
          cclosed, handles, pending, answer>>

owner == <<rev, table, closed, hist, applied>>
cache == <<cached, cref, centries, cclosed>>
handler == <<handles, pending, answer>>

Pair == [Value: Values \cup {""}, IsFrozen: BOOLEAN]

ASSUME Proposals \subseteq [k: Keys, p: Pair]

NoCall == [kind |-> "none", R |-> 0, K |-> {}, req |-> "none"]

\* A message is sent, unless the bound on distinct messages is reached.
Send(m) ==
    /\ Cardinality(net \cup {m}) <= MaxNet
    /\ net' = net \cup {m}

Init ==
    /\ rev = 0
    /\ table = [k \in Keys |-> [Value |-> "", IsFrozen |-> FALSE]]
    /\ closed = FALSE
    /\ hist = <<table>>
    /\ applied = {}
    /\ net = {}
    /\ cached = FALSE
    /\ cref = 0
    /\ centries = <<>>
    /\ cclosed = FALSE
    /\ handles = {}
    /\ pending = NoCall
    /\ answer = {}

-----------------------------------------------------------------------------
(* The owning peer.                                                        *)

\* A successful TryUpdate of one attribute by a caller on the owning peer.
OwnerUpdate(k, p) ==
    /\ ~closed
    /\ rev < MaxRev
    /\ ~table[k].IsFrozen
    /\ p # table[k]
    /\ table' = [table EXCEPT ![k] = p]
    /\ rev' = rev + 1
    /\ hist' = Append(hist, table')
    /\ UNCHANGED <<closed, applied, net, cache, handler>>

\* Close, by the owning peer.
OwnerClose ==
    /\ ~closed
    /\ closed' = TRUE
    /\ UNCHANGED <<rev, table, hist, applied, net, cache, handler>>

\* The session sends a command whose source is its current revision, with
\* its attributes piggybacked.
SendCommand ==
    /\ ~closed
    /\ Send([type |-> "cmd", ref |-> rev, attrs |-> table])
    /\ UNCHANGED <<owner, cache, handler>>

(* The owner reads keys K at revision R through catalog.At(R): a future   *)
(* revision is an error; otherwise the ref at R is bound to the head's     *)
(* table, the only one the catalog keeps.                                  *)
FetchAt(R, K) ==
    IF rev < R THEN [type |-> "future", ref |-> R, K |-> K]
               ELSE [type |-> "reply", ref |-> R, attrs |-> [k \in K |-> table[k]]]

\* The owner serves the handler's outstanding read: a fetch of keys K at
\* revision R is answered by FetchAt, or with "closed"; a fetch of the
\* head with the head and its attributes.  (A lost read request is the
\* same to the handler as a lost reply.)
ServeFetch ==
    /\ pending.kind \in {"fetch", "head"}
    /\ Send(CASE closed                 -> [type |-> "closed"]
               [] pending.kind = "fetch" -> FetchAt(pending.R, pending.K)
               [] OTHER                  -> [type |-> "reply", ref |-> rev, attrs |-> table])
    /\ UNCHANGED <<owner, cache, handler>>

\* Mutant of RequestStale: the ref check is dropped.
RequestStaleNever(m) == FALSE

\* if ref != c.ref { return StaleUpdateError }
RequestStale(m) == m.R # rev

\* The owner commits a request: the revision advances (even when the diff
\* is empty) and the reply carries the new ref and the diff.
Commit(m, new) ==
    /\ rev < MaxRev
    /\ rev' = rev + 1
    /\ table' = new
    /\ hist' = Append(hist, new)
    /\ applied' = applied \cup {[req |-> m, rev |-> rev + 1]}
    /\ Send([type |-> "wrote", req |-> m, ref |-> rev + 1,
             attrs |-> [k \in {j \in Keys : new[j] # table[j]} |-> new[k]]])
    /\ UNCHANGED closed

Refuse(m, why) ==
    /\ Send([type |-> "refused", req |-> m, why |-> why])
    /\ UNCHANGED owner

(* TryUpdate(ref, ns, attrs) for one attribute k := p: NotFound once      *)
(* closed, StaleUpdate for an old ref, FrozenAttributes for a change to a *)
(* frozen attribute, otherwise commit (a no-op changes nothing but rev).   *)
TryUpdate(m) ==
    LET k == CHOOSE j \in DOMAIN m.attrs : TRUE
        p == m.attrs[k]
    IN CASE closed                                -> Refuse(m, "notfound")
         [] RequestStale(m)                       -> Refuse(m, "stale")
         [] p # table[k] /\ table[k].IsFrozen     -> Refuse(m, "frozen")
         [] OTHER                                 -> Commit(m, [table EXCEPT ![k] = p])

(* TryClear(ref, ns): every non-empty value is cleared; a frozen non-empty *)
(* value refuses the whole clear.                                          *)
TryClear(m) ==
    CASE closed          -> Refuse(m, "notfound")
      [] RequestStale(m) -> Refuse(m, "stale")
      [] \E k \in Keys : table[k].Value # "" /\ table[k].IsFrozen
                         -> Refuse(m, "frozen")
      [] OTHER           -> Commit(m, [k \in Keys |->
                                         [table[k] EXCEPT !.Value = ""]])

(* TryDestroy(ref): the ref is checked first; destroying a destroyed       *)
(* session succeeds.                                                       *)
TryDestroy(m) ==
    IF RequestStale(m)
    THEN Refuse(m, "stale")
    ELSE /\ closed' = TRUE
         /\ Send([type |-> "destroyed", req |-> m])
         /\ UNCHANGED <<rev, table, hist, applied>>

\* A write request reaches the owner (again, if duplicated or retried).
ServeWrite(m) ==
    /\ m \in net
    /\ CASE m.type = "update"  -> TryUpdate(m)
         [] m.type = "clear"   -> TryClear(m)
         [] m.type = "destroy" -> TryDestroy(m)
         [] OTHER              -> FALSE
    /\ UNCHANGED <<cache, handler>>

-----------------------------------------------------------------------------
(* The remote peer's cache entry (section 4.5).                            *)

\* Mutant of Merge: a newer snapshot keeps every cached entry it does not
\* return, frozen or not.
MergeKeepAll(ref, attrs) ==
    IF ~cached \/ cref < ref
    THEN /\ cached' = TRUE /\ cref' = ref
         /\ centries' = attrs @@ centries
    ELSE /\ UNCHANGED <<cached, cref>>
         /\ centries' = IF cref = ref THEN attrs @@ centries ELSE centries

(* Merge rule: a newer snapshot replaces the ref and the entries, keeping  *)
(* the cached frozen entries; an older one is discarded; one at the same   *)
(* revision overwrites the entries it returns.                             *)
Merge(ref, attrs) ==
    IF ~cached \/ cref < ref
    THEN /\ cached' = TRUE /\ cref' = ref
         /\ centries' = attrs @@ [k \in {j \in DOMAIN centries :
                                            centries[j].IsFrozen} |-> centries[k]]
    ELSE /\ UNCHANGED <<cached, cref>>
         /\ centries' = IF cref = ref THEN attrs @@ centries ELSE centries

\* Observe: a command arrives; its snapshot is merged and its source
\* revision is handed to the handler.
DeliverCommand(m) ==
    /\ m \in net
    /\ m.type = "cmd"
    /\ Merge(m.ref, m.attrs)
    /\ handles' = handles \cup {m.ref}
    /\ UNCHANGED <<owner, net, cclosed, pending, answer>>

\* Invalidate: the entry is evicted.
Invalidate ==
    /\ cached
    /\ cached' = FALSE
    /\ centries' = <<>>
    /\ UNCHANGED <<owner, net, cref, cclosed, handler>>

-----------------------------------------------------------------------------
(* The handler's calls through remote revisions (section 4.4).             *)

\* closedRevision: Ref() is the bound ref; Refresh, Get, GetMany and
\* Update answer NotFound (Update returning the revision itself); Close
\* succeeds.
ClosedAnswer(op) == IF op = "Close" THEN "ok" ELSE "NotFound"

\* Mutant of ServedExactly: the cached entry is served for any revision
\* not newer than the cache's.
ServedAtOrAfter(R, k) == cached /\ R <= cref /\ k \in DOMAIN centries

\* Rule 2: the cached snapshot is at exactly R.
ServedExactly(R, k) == cached /\ cref = R /\ k \in DOMAIN centries

\* Rule 1: the cache is at R or newer and has k frozen.
ServedFrozen(R, k) ==
    cached /\ R <= cref /\ k \in DOMAIN centries /\ centries[k].IsFrozen

Served(R, K) == \A k \in K : ServedFrozen(R, k) \/ ServedExactly(R, k)

(* GetMany(ctx, ns, keys...) on the revision at R (Get is one key):        *)
(* served from the cache when every key is, otherwise fetched at R.        *)
GetMany(R, K) ==
    /\ R \in handles
    /\ pending = NoCall
    /\ \/ /\ cclosed
          /\ ClosedAnswer("GetMany") = "NotFound"
          /\ UNCHANGED <<pending, answer>>
       \/ /\ ~cclosed
          /\ Served(R, K)
          /\ answer' = {[R |-> R, k |-> k, val |-> centries[k]] : k \in K}
          /\ UNCHANGED pending
       \/ /\ ~cclosed
          /\ ~Served(R, K)
          /\ pending' = [NoCall EXCEPT !.kind = "fetch", !.R = R, !.K = K]
          /\ UNCHANGED answer
    /\ UNCHANGED <<owner, net, cache, handles>>

(* Refresh(ctx) on the revision at R: fetch the owner's head.              *)
Refresh(R) ==
    /\ R \in handles
    /\ pending = NoCall
    /\ \/ /\ cclosed
          /\ ClosedAnswer("Refresh") = "NotFound"
          /\ UNCHANGED pending
       \/ /\ ~cclosed
          /\ pending' = [NoCall EXCEPT !.kind = "head", !.R = R]
    /\ UNCHANGED <<owner, net, cache, handles, answer>>

(* Update(ctx, ns, k := p), Clear(ctx, ns) and Close(ctx) on the revision  *)
(* at R: the request goes to the owner, or the closed placeholder answers. *)
Write(R, op, req) ==
    /\ R \in handles
    /\ pending = NoCall
    /\ \/ /\ cclosed
          /\ ClosedAnswer(op) \in {"NotFound", "ok"}
          /\ UNCHANGED <<net, pending>>
       \/ /\ ~cclosed
          /\ Send(req)
          /\ pending' = [NoCall EXCEPT !.kind = "write", !.R = R, !.req = req]
    /\ UNCHANGED <<owner, cache, handles, answer>>

Update(R, k, p) == Write(R, "Update", [type |-> "update", R |-> R, attrs |-> k :> p])
Clear(R)        == Write(R, "Clear", [type |-> "clear", R |-> R])
Close(R)        == Write(R, "Close", [type |-> "destroy", R |-> R])

\* A reply reaches the waiting handler: a fetch reply for its keys and
\* revision is merged and answers the GetMany (a "future" reply cannot
\* occur: every handle is a revision the owner has reached);
\* a head reply or a write's new revision is merged and handed out;
\* "closed", NotFound and a destroyed session install the closed
\* placeholder; StaleUpdate and FrozenAttributes are returned to the handler.
DeliverReply(m) ==
    /\ m \in net
    /\ pending # NoCall
    /\ \/ /\ m.type = "closed"
          /\ pending.kind \in {"fetch", "head"}
          /\ cclosed' = TRUE
          /\ UNCHANGED <<cached, cref, centries, handles, answer>>
       \/ /\ m.type = "reply"
          /\ pending.kind = "fetch"
          /\ m.ref = pending.R /\ DOMAIN m.attrs = pending.K
          /\ Merge(m.ref, m.attrs)
          /\ answer' = {[R |-> m.ref, k |-> k, val |-> m.attrs[k]] : k \in pending.K}
          /\ UNCHANGED <<cclosed, handles>>
       \/ /\ m.type = "reply"
          /\ pending.kind = "head"
          /\ DOMAIN m.attrs = Keys
          /\ Merge(m.ref, m.attrs)
          /\ handles' = handles \cup {m.ref}
          /\ UNCHANGED <<cclosed, answer>>
       \/ /\ m.type = "wrote"
          /\ pending.kind = "write" /\ m.req = pending.req
          /\ Merge(m.ref, m.attrs)
          /\ handles' = handles \cup {m.ref}
          /\ UNCHANGED <<cclosed, answer>>
       \/ /\ m.type \in {"refused", "destroyed"}
          /\ pending.kind = "write" /\ m.req = pending.req
          /\ cclosed' = (cclosed \/ m.type = "destroyed" \/ m.why = "notfound")
          /\ UNCHANGED <<cached, cref, centries, handles, answer>>
    /\ pending' = NoCall
    /\ UNCHANGED <<owner, net>>

\* The handler's context expires while it waits; it may call again.
Timeout ==
    /\ pending # NoCall
    /\ pending' = NoCall
    /\ UNCHANGED <<owner, net, cache, handles, answer>>

Next ==
    \/ \E a \in Proposals : OwnerUpdate(a.k, a.p)
    \/ OwnerClose
    \/ SendCommand
    \/ ServeFetch
    \/ \E m \in net : ServeWrite(m) \/ DeliverCommand(m) \/ DeliverReply(m)
    \/ Invalidate
    \/ \E R \in handles :
          \/ Refresh(R) \/ Clear(R) \/ Close(R)
          \/ \E K \in SUBSET Keys \ {{}} : GetMany(R, K)
          \/ \E a \in Proposals : Update(R, a.k, a.p)
    \/ Timeout

Spec == Init /\ [][Next]_vars

-----------------------------------------------------------------------------
(* Properties                                                              *)

WritesAppliedOnce ==
    \A a, b \in applied : a.req = b.req => a = b

=============================================================================
