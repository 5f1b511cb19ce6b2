------------------------------- MODULE Catalog -------------------------------
(***************************************************************************)
(* The catalog of one local session (package localsession, catalog.go in  *)
(* src/unnamed/part_002): the authoritative, versioned attribute table of  *)
(* a session, updated under optimistic concurrency.                        *)
(*                                                                         *)
(* Every method takes the catalog mutex for its whole body, so each is one *)
(* atomic step here.  The concurrency that matters is between callers:     *)
(* each caller c holds the ref it last obtained from the catalog           *)
(* (known[c]) and later passes it back to TryUpdate, TryClear or           *)
(* TryDestroy, while other callers may have moved the catalog on.          *)
(*                                                                         *)
(* The session ID is fixed, so a session-ref is its revision number.       *)
(***************************************************************************)
EXTENDS Attributes, Naturals, Sequences, FiniteSets, TLC

LOCAL INSTANCE SequencesExt

CONSTANTS
    Namespaces,   \* attribute namespaces
    Clients,      \* goroutines calling the catalog
    SeqWidth,     \* bit width of catalog.seq (uint32 in the code)
    MaxMessages   \* bound: number of NextMessageID calls

ASSUME SeqWidth \in Nat \ {0}
ASSUME MaxRev \in Nat /\ MaxMessages \in Nat /\ MaxBatch \in Nat

VARIABLES
    ref,      \* c.ref.Rev
    attrs,    \* c.attrs : attrmeta.Table, attrs[ns][key] = attrmeta.Attr
    seq,      \* c.seq
    done,     \* TRUE once c.done is closed
    known,    \* known[c]: the ref caller c last obtained from the catalog
    result,   \* result[c]: the error (or "ok") of caller c's last call
    hist,     \* history: hist[r+1] = the table (without metadata) at rev r
    nIssued   \* history: the number of NextMessageID calls

vars == <<ref, attrs, seq, done, known, result, hist, nIssued>>

\* attrmeta.Namespace: a Go map from keys to entries.
Namespace == UNION {[K -> Entry] : K \in SUBSET Keys}

Results == {"ok", "NotFound", "StaleUpdate", "FrozenAttributes", "Future"}

\* A table without its metadata, as callers observe it.
View(t) == [n \in DOMAIN t |->
              [k \in DOMAIN t[n] |-> [Value |-> t[n][k].Value,
                                      IsFrozen |-> t[n][k].IsFrozen]]]

-----------------------------------------------------------------------------
(* Namespace.WriteTo(buf): the namespace as text, one element per write.   *)

\* attr.WriteTo (section 4.2 of the spec): key=value, key@value, -key, !key.
AttrWriteTo(k, e) ==
    CASE e.Value = "" /\ e.IsFrozen -> <<"!", k>>
      [] e.Value = ""               -> <<"-", k>>
      [] e.IsFrozen                 -> <<k, "@", e.Value>>
      [] OTHER                      -> <<k, "=", e.Value>>

\* Mutant of Omitted: frozen attributes with empty values are omitted too.
OmittedEmpty(e) == e.Value = ""

\* Non-frozen attributes with empty values are omitted.
Omitted(e) == ~e.IsFrozen /\ e.Value = ""

\* writeTo: the range over ns, in the map iteration order `order`; a
\* separator goes before every attribute written after the first.
RECURSIVE WriteLoop(_, _, _)
WriteLoop(ns, order, st) ==
    IF order = <<>> THEN st
    ELSE LET k == Head(order)
         IN IF Omitted(ns[k])
            THEN WriteLoop(ns, Tail(order), st)
            ELSE WriteLoop(ns, Tail(order),
                           [text     |-> st.text
                                         \o (IF st.notEmpty THEN <<", ">> ELSE <<>>)
                                         \o AttrWriteTo(k, ns[k]),
                            notEmpty |-> TRUE])

\* WriteTo: braces around writeTo; returns whether an attribute was written.
WriteTo(ns, order) ==
    LET r == WriteLoop(ns, order, [text |-> <<>>, notEmpty |-> FALSE])
    IN [text |-> <<"{">> \o r.text \o <<"}">>, notEmpty |-> r.notEmpty]

\* WriteWithNameTo: the namespace's name and "::" before the braces.
WriteWithNameTo(ns, order, name) ==
    LET r == WriteLoop(ns, order, [text |-> <<>>, notEmpty |-> FALSE])
    IN [text |-> <<name, "::", "{">> \o r.text \o <<"}">>, notEmpty |-> r.notEmpty]

\* String: WriteTo into a pooled buffer, returning its text.
NamespaceString(ns, order) == WriteTo(ns, order).text

-----------------------------------------------------------------------------
(* Table.MatchConstraint(constraint).                                      *)

\* Constraints: key -> value, over some of the keys.
Constraints == UNION {[K -> AttrValues] : K \in SUBSET Keys}

\* Mutant of ConstraintValue: a key missing from the table matches nothing.
ConstraintValuePresentOnly(t, key) ==
    IF key \in DOMAIN t THEN t[key].Value ELSE "missing"

\* t[key].Value: the zero Attr, value "", for a missing key.
ConstraintValue(t, key) == Lookup(t, key).Value

\* The range over the constraint, in map iteration order, returning false
\* at the first key whose value differs.
RECURSIVE MatchLoop(_, _, _)
MatchLoop(t, constraint, order) ==
    IF order = <<>> THEN TRUE
    ELSE IF ConstraintValue(t, Head(order)) # constraint[Head(order)]
         THEN FALSE
         ELSE MatchLoop(t, constraint, Tail(order))

MatchConstraint(t, constraint, order) == MatchLoop(t, constraint, order)

-----------------------------------------------------------------------------
(* The TryUpdate loop over the proposed attributes.                        *)

\* Mutant of IsNoOp: compares the value only.
IsNoOpValueOnly(attr, entry) == attr.Value = entry.Value

\* An attribute that equals the entry is skipped.
IsNoOp(attr, entry) ==
    attr.Value = entry.Value /\ attr.IsFrozen = entry.IsFrozen

\* entry.Attr = attr; entry.UpdatedAt = nextRev; CreatedAt if new.
SetEntry(entry, attr, exists, nextRev) ==
    [entry EXCEPT !.Value = attr.Value, !.IsFrozen = attr.IsFrozen,
                  !.UpdatedAt = nextRev,
                  !.CreatedAt = IF exists THEN @ ELSE nextRev]

\* Applies list to the cloned namespace nextAttrs, stopping at the first
\* change to a frozen entry.  Returns whether it stopped there, the
\* namespace, and the keys appended to the diff.
RECURSIVE ApplyAttrs(_, _, _)
ApplyAttrs(nextAttrs, list, nextRev) ==
    IF list = <<>>
    THEN [frozen |-> FALSE, attrs |-> nextAttrs, diff |-> <<>>]
    ELSE LET attr   == Head(list)
             entry  == Lookup(nextAttrs, attr.Key)
             exists == attr.Key \in DOMAIN nextAttrs
             rest   == ApplyAttrs(attr.Key :> SetEntry(entry, attr, exists, nextRev)
                                     @@ nextAttrs,
                                  Tail(list), nextRev)
         IN CASE IsNoOp(attr, entry) -> ApplyAttrs(nextAttrs, Tail(list), nextRev)
              [] entry.IsFrozen      -> [frozen |-> TRUE, attrs |-> nextAttrs,
                                         diff |-> <<>>]
              [] OTHER               -> [rest EXCEPT !.diff = <<attr.Key>> \o @]

(* The TryClear loop: every non-empty value becomes "", unless one of them *)
(* is frozen.                                                              *)
ClearBlocked(ns) == \E k \in DOMAIN ns : ns[k].Value # "" /\ ns[k].IsFrozen

\* Mutant of Cleared: the cleared entry keeps its old UpdatedAt.
ClearedKeepsUpdatedAt(ns, nextRev) ==
    [k \in DOMAIN ns |-> [ns[k] EXCEPT !.Value = ""]]

Cleared(ns, nextRev) ==
    [k \in DOMAIN ns |->
        IF ns[k].Value # ""
        THEN [ns[k] EXCEPT !.Value = "", !.UpdatedAt = nextRev]
        ELSE ns[k]]

ClearDiff(ns) == {k \in DOMAIN ns : ns[k].Value # ""}

-----------------------------------------------------------------------------
(* Guards shared by the update methods.                                    *)

\* select { case <-c.done: return NotFoundError }
IsDone == done

\* Mutant of IsStale: the ref check is dropped.
IsStaleNever(c) == FALSE

\* ref != c.ref
IsStale(c) == known[c] # ref

\* The commit of a successful TryUpdate or TryClear: the revision always
\* advances and seq resets, the namespace is replaced only if the diff is
\* not empty; the caller receives the new head revision.
Commit(c, ns, nextAttrs, diffEmpty) ==
    /\ ref' = ref + 1
    /\ seq' = 0
    /\ attrs' = IF diffEmpty THEN attrs ELSE [attrs EXCEPT ![ns] = nextAttrs]
    /\ known' = [known EXCEPT ![c] = ref + 1]
    /\ result' = [result EXCEPT ![c] = "ok"]
    /\ hist' = Append(hist, View(attrs'))
    /\ UNCHANGED <<done, nIssued>>

\* A call that returns an error and changes nothing.
Fail(c, err) ==
    /\ result' = [result EXCEPT ![c] = err]
    /\ UNCHANGED <<ref, attrs, seq, done, known, hist, nIssued>>

-----------------------------------------------------------------------------
(* NewCatalog(id, logger)                                                  *)
Init ==
    /\ ref = 0
    /\ attrs = [n \in Namespaces |-> <<>>]
    /\ seq = 0
    /\ done = FALSE
    /\ known = [c \in Clients |-> 0]
    /\ result = [c \in Clients |-> "ok"]
    /\ hist = <<View([n \in Namespaces |-> <<>>])>>
    /\ nIssued = 0

(* Ref(), Head(), Attrs(), AttrsIn(ns): the caller obtains the current ref *)
(* (with a consistent table snapshot, under the read lock).                *)
ReadHead(c) ==
    /\ known' = [known EXCEPT ![c] = ref]
    /\ result' = [result EXCEPT ![c] = "ok"]
    /\ UNCHANGED <<ref, attrs, seq, done, hist, nIssued>>

(* At(rev): a revision at an earlier ref, or an error for a future one.    *)
At(c, rev) ==
    \/ /\ ref < rev
       /\ Fail(c, "Future")
    \/ /\ rev <= ref
       /\ known' = [known EXCEPT ![c] = rev]
       /\ result' = [result EXCEPT ![c] = "ok"]
       /\ UNCHANGED <<ref, attrs, seq, done, hist, nIssued>>

\* Mutant of NextMessageID: seq is treated as unbounded.
NextMessageIDUnbounded ==
    /\ nIssued < MaxMessages
    /\ seq' = seq + 1
    /\ nIssued' = nIssued + 1
    /\ UNCHANGED <<ref, attrs, done, known, result, hist>>

(* NextMessageID(): seq++ (a uint32) and the message ID c.ref#seq.         *)
NextMessageID ==
    /\ nIssued < MaxMessages
    /\ seq' = (seq + 1) % (2 ^ SeqWidth)
    /\ nIssued' = nIssued + 1
    /\ UNCHANGED <<ref, attrs, done, known, result, hist>>

(* TryUpdate(ref, ns, attrs)                                               *)
TryUpdate(c, ns, list) ==
    /\ ref < MaxRev
    /\ \/ /\ IsDone
          /\ Fail(c, "NotFound")
       \/ /\ ~IsDone
          /\ IsStale(c)
          /\ Fail(c, "StaleUpdate")
       \/ /\ ~IsDone
          /\ ~IsStale(c)
          /\ LET out == ApplyAttrs(attrs[ns], list, ref + 1)
             IN \/ /\ out.frozen
                   /\ Fail(c, "FrozenAttributes")
                \/ /\ ~out.frozen
                   /\ Commit(c, ns, out.attrs, out.diff = <<>>)

(* TryClear(ref, ns)                                                       *)
TryClear(c, ns) ==
    /\ ref < MaxRev
    /\ \/ /\ IsDone
          /\ Fail(c, "NotFound")
       \/ /\ ~IsDone
          /\ IsStale(c)
          /\ Fail(c, "StaleUpdate")
       \/ /\ ~IsDone
          /\ ~IsStale(c)
          /\ ClearBlocked(attrs[ns])
          /\ Fail(c, "FrozenAttributes")
       \/ /\ ~IsDone
          /\ ~IsStale(c)
          /\ ~ClearBlocked(attrs[ns])
          /\ Commit(c, ns, Cleared(attrs[ns], ref + 1), ClearDiff(attrs[ns]) = {})

(* TryDestroy(ref): the ref is checked before whether the catalog is done; *)
(* closing an already-closed catalog succeeds.                             *)
TryDestroy(c) ==
    \/ /\ IsStale(c)
       /\ Fail(c, "StaleUpdate")
    \/ /\ ~IsStale(c)
       /\ done' = TRUE
       /\ result' = [result EXCEPT ![c] = "ok"]
       /\ UNCHANGED <<ref, attrs, seq, known, hist, nIssued>>

(* Close(): forced and idempotent.                                         *)
Close ==
    /\ done' = TRUE
    /\ UNCHANGED <<ref, attrs, seq, known, result, hist, nIssued>>

Next ==
    \/ \E c \in Clients :
          \/ ReadHead(c)
          \/ \E r \in 0..MaxRev : At(c, r)
          \/ \E ns \in Namespaces, list \in AttrLists : TryUpdate(c, ns, list)
          \/ \E ns \in Namespaces : TryClear(c, ns)
          \/ TryDestroy(c)
    \/ NextMessageID
    \/ Close

Spec == Init /\ [][Next]_vars

-----------------------------------------------------------------------------
(* Properties                                                              *)

TypeOK ==
    /\ ref \in 0..MaxRev
    /\ attrs \in [Namespaces -> Namespace]
    /\ seq \in 0..(2 ^ SeqWidth - 1)
    /\ done \in BOOLEAN
    /\ known \in [Clients -> 0..MaxRev]
    /\ result \in [Clients -> Results]
    /\ nIssued \in 0..MaxMessages

(* The catalog implements the session table: every successful TryUpdate   *)
(* or TryClear advances the revision by exactly one and comes from a       *)
(* caller holding the current ref, frozen attributes never change, keys    *)
(* are never dropped, and a done catalog never changes again.              *)
Abstract == INSTANCE SessionTable
    WITH rev <- ref, table <- View(attrs), closed <- done, view <- known

AbstractSpec == Abstract!Spec

(* The metadata TryUpdate and TryClear record tells the attribute's        *)
(* history: an entry was absent before CreatedAt and present from then on, *)
(* its value last changed at UpdatedAt and has been the same at every      *)
(* revision since, with 0 < CreatedAt <= UpdatedAt <= the current revision.*)
MetaDataMatchesHistory ==
    \A n \in Namespaces : \A k \in DOMAIN attrs[n] :
        LET e == attrs[n][k]
            ViewAt(r) == hist[r + 1][n]
        IN /\ 0 < e.CreatedAt /\ e.CreatedAt <= e.UpdatedAt /\ e.UpdatedAt <= ref
           /\ \A r \in 0..ref : (k \in DOMAIN ViewAt(r)) <=> (e.CreatedAt <= r)
           /\ \A r \in e.UpdatedAt..ref :
                 ViewAt(r)[k] = [Value |-> e.Value, IsFrozen |-> e.IsFrozen]


(* Namespace.WriteTo renders every namespace the catalog reaches, in every *)
(* order Go's map iteration may take, as section 4.2 of the spec says: the *)
(* frozen or non-empty attributes, in iteration order, joined by ", "      *)
(* within braces (after "name::" for WriteWithNameTo), and reports        *)
(* notEmpty exactly when it wrote one.                                     *)
WriteToMatchesReference ==
    \A n \in Namespaces : \A order \in SetToSeqs(DOMAIN attrs[n]) :
        LET ns    == attrs[n]
            out   == WriteTo(ns, order)
            shown == SelectSeq(order, LAMBDA k : ns[k].IsFrozen \/ ns[k].Value # "")
            items == [i \in 1..Len(shown) |->
                        (IF i = 1 THEN <<>> ELSE <<", ">>)
                        \o AttrWriteTo(shown[i], ns[shown[i]])]
            named == WriteWithNameTo(ns, order, n)
        IN /\ out.notEmpty = (shown # <<>>)
           /\ NamespaceString(ns, order) = <<"{">> \o FlattenSeq(items) \o <<"}">>
           /\ named.notEmpty = out.notEmpty
           /\ named.text = <<n, "::", "{">> \o FlattenSeq(items) \o <<"}">>

(* Table.MatchConstraint decides, for every namespace the catalog reaches, *)
(* every constraint and every iteration order, what section 4.7 of the     *)
(* spec says: every constrained key has the constrained value, a key      *)
(* missing from the table having the value "".                            *)
ConstraintMatchesReference ==
    \A n \in Namespaces, c \in Constraints : \A order \in SetToSeqs(DOMAIN c) :
        MatchConstraint(attrs[n], c, order)
            <=> \A k \in DOMAIN c :
                   c[k] = IF k \in DOMAIN attrs[n] THEN attrs[n][k].Value ELSE ""

(* The TryUpdate loop, run on every namespace the catalog reaches and      *)
(* every list of at most MaxBatch attributes, agrees with the reference:   *)
(* same refusal, and on success the same namespace and diff emptiness.     *)
ApplyAttrsMatchesReference ==
    \A n \in Namespaces, list \in AttrLists :
        LET out == ApplyAttrs(attrs[n], list, ref + 1)
            ro  == ReferenceApply(attrs[n], list, ref + 1)
        IN /\ out.frozen = ro.frozen
           /\ ~out.frozen => /\ out.attrs = ro.attrs
                             /\ (out.diff = <<>>) = ro.diffEmpty

=============================================================================
