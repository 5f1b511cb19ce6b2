---------------------------- MODULE LegacyCatalog ----------------------------
(***************************************************************************)
(* The catalog of the overpass local session                               *)
(* (src/src/internals/localsession/catalog.go): one attribute table per    *)
(* session, updated under optimistic concurrency, with a human-readable    *)
(* diff of every update written to an io.Writer the caller supplies.       *)
(*                                                                         *)
(* Every method holds the catalog mutex for its whole body and is one      *)
(* step.  Caller c holds the ref it last obtained (known[c]).  The writer  *)
(* a caller passes to TryUpdate is nil, a buffer, or a writer whose every  *)
(* write fails; lastDiff is what the most recent TryUpdate wrote to it,    *)
(* one element per io.WriteString call.                                    *)
(***************************************************************************)
EXTENDS Attributes, Naturals, Sequences, TLC

CONSTANTS
    Clients,      \* goroutines calling the catalog
    Writers,      \* subset of {"nil", "buffer", "broken"}: diff writers passed
    SeqWidth,     \* bit width of catalog.seq (uint32 in the code)
    MaxMessages   \* bound: number of NextMessageID calls

ASSUME Writers \subseteq {"nil", "buffer", "broken"}
ASSUME SeqWidth \in Nat \ {0} /\ MaxMessages \in Nat

VARIABLES
    ref,      \* c.ref.Rev (the session ID is fixed)
    attrs,    \* c.attrs : internals.AttrTableWithMetaData, key -> entry
    seq,      \* c.seq
    isClosed, \* c.isClosed
    known,    \* known[c]: the ref caller c last obtained
    lastDiff, \* [w: the writer the last TryUpdate got, text: its writes]
    nIssued   \* the number of NextMessageID calls (bounded)

vars == <<ref, attrs, seq, isClosed, known, lastDiff, nIssued>>

Table == UNION {[K -> Entry] : K \in SUBSET Keys}

Sep == ", "

-----------------------------------------------------------------------------
(* writeDiff(w, attr): the writes it makes, in order.                      *)
WriteDiff(k, e) ==
    IF e.Value = ""
    THEN <<IF e.IsFrozen THEN "!" ELSE "-", k>>
    ELSE (IF e.CreatedAt = e.UpdatedAt THEN <<"+">> ELSE <<>>)
         \o <<k, IF e.IsFrozen THEN "@" ELSE "=", e.Value>>

\* An attribute equal to the entry (value and frozen flag) is skipped.
IsNoOp(attr, entry) ==
    attr.Value = entry.Value /\ attr.IsFrozen = entry.IsFrozen

\* Mutant of SetEntry: the entry is not stamped with the new revision.
SetEntryNoStamp(entry, attr, exists, nextRev) ==
    [entry EXCEPT !.Value = attr.Value,
                  !.CreatedAt = IF exists THEN @ ELSE nextRev]

\* Key and CreatedAt if new; entry.Value = attr.Value;
\* entry.UpdatedAt = nextRev.  The frozen flag is not assigned.
SetEntry(entry, attr, exists, nextRev) ==
    [entry EXCEPT !.Value = attr.Value, !.UpdatedAt = nextRev,
                  !.CreatedAt = IF exists THEN @ ELSE nextRev]

\* The loop of TryUpdate from the i-th attribute on.  st is
\* [attrs: nextAttrs, frozen: the frozen keys met, text: the writes so
\* far, err: a write failed].  index > 0 in the code is i > 1 here.  A
\* failed write returns from TryUpdate at once.
RECURSIVE ApplyAttrs(_, _, _, _, _)
ApplyAttrs(st, list, i, nextRev, w) ==
    IF i > Len(list) THEN st
    ELSE LET attr   == list[i]
             entry  == Lookup(st.attrs, attr.Key)
             exists == attr.Key \in DOMAIN st.attrs
             new    == SetEntry(entry, attr, exists, nextRev)
             writes == (IF i > 1 THEN <<Sep>> ELSE <<>>) \o WriteDiff(attr.Key, new)
         IN CASE IsNoOp(attr, entry) ->
                   ApplyAttrs(st, list, i + 1, nextRev, w)
              [] entry.IsFrozen ->
                   ApplyAttrs([st EXCEPT !.frozen = Append(@, attr.Key)],
                              list, i + 1, nextRev, w)
              [] w = "broken" ->
                   [st EXCEPT !.err = TRUE]
              [] OTHER ->
                   ApplyAttrs([st EXCEPT !.attrs = (attr.Key :> new) @@ @,
                                         !.text = IF w = "buffer" THEN @ \o writes
                                                                  ELSE @],
                              list, i + 1, nextRev, w)

-----------------------------------------------------------------------------
\* Mutant of IsStale: the ref check is dropped.
IsStaleNever(c) == FALSE

\* ref != c.ref
IsStale(c) == known[c] # ref

\* A TryUpdate that returns an error (not recorded): only the writer may
\* have been written to.
Fail(d) ==
    /\ lastDiff' = d
    /\ UNCHANGED <<ref, attrs, seq, isClosed, known, nIssued>>

(* NewCatalog(id, logger): the ref is id.At(0), the table empty.           *)
Init ==
    /\ ref = 0
    /\ attrs = <<>>
    /\ seq = 0
    /\ isClosed = FALSE
    /\ known = [c \in Clients |-> 0]
    /\ lastDiff = [w |-> "nil", text |-> <<>>]
    /\ nIssued = 0

(* Ref(), Head(), Attrs(): the caller obtains the current ref.             *)
ReadHead(c) ==
    /\ known' = [known EXCEPT ![c] = ref]
    /\ UNCHANGED <<ref, attrs, seq, isClosed, lastDiff, nIssued>>

(* At(rev): a revision no newer than the ref; a future one is an error    *)
(* that changes nothing.                                                   *)
At(c, rev) ==
    /\ rev <= ref
    /\ known' = [known EXCEPT ![c] = rev]
    /\ UNCHANGED <<ref, attrs, seq, isClosed, lastDiff, nIssued>>

\* Mutant of NextMessageID: seq is treated as unbounded.
NextMessageIDUnbounded ==
    /\ nIssued < MaxMessages
    /\ seq' = seq + 1
    /\ nIssued' = nIssued + 1
    /\ UNCHANGED <<ref, attrs, isClosed, known, lastDiff>>

(* NextMessageID(): c.seq++ (a uint32).                                    *)
NextMessageID ==
    /\ nIssued < MaxMessages
    /\ seq' = (seq + 1) % (2 ^ SeqWidth)
    /\ nIssued' = nIssued + 1
    /\ UNCHANGED <<ref, attrs, isClosed, known, lastDiff>>

(* TryUpdate(ref, attrs, diff): closed, then stale, then the loop; frozen  *)
(* keys are reported after the whole loop; the commit always advances the  *)
(* revision, replaces the table and resets seq.                            *)
TryUpdate(c, list, w) ==
    /\ ref < MaxRev
    /\ \/ /\ isClosed
          /\ Fail([w |-> w, text |-> <<>>])
       \/ /\ ~isClosed
          /\ IsStale(c)
          /\ Fail([w |-> w, text |-> <<>>])
       \/ /\ ~isClosed
          /\ ~IsStale(c)
          /\ LET out == ApplyAttrs([attrs |-> attrs, frozen |-> <<>>,
                                    text |-> <<>>, err |-> FALSE],
                                   list, 1, ref + 1, w)
                 d   == [w |-> w, text |-> out.text]
             IN \/ /\ out.err \/ out.frozen # <<>>
                   /\ Fail(d)
                \/ /\ ~out.err
                   /\ out.frozen = <<>>
                   /\ ref' = ref + 1
                   /\ attrs' = out.attrs
                   /\ seq' = 0
                   /\ known' = [known EXCEPT ![c] = ref + 1]
                   /\ lastDiff' = d
                   /\ UNCHANGED <<isClosed, nIssued>>

(* TryClose(ref): a stale ref is an error that changes nothing; closing a *)
(* closed catalog is not an error (it returns false).                      *)
TryClose(c) ==
    /\ ~IsStale(c)
    /\ isClosed' = TRUE
    /\ UNCHANGED <<ref, attrs, seq, known, lastDiff, nIssued>>

(* Close(): forced and idempotent.                                         *)
Close ==
    /\ isClosed' = TRUE
    /\ UNCHANGED <<ref, attrs, seq, known, lastDiff, nIssued>>

Next ==
    \/ \E c \in Clients :
          \/ ReadHead(c)
          \/ \E r \in 0..MaxRev : At(c, r)
          \/ \E list \in AttrLists, w \in Writers : TryUpdate(c, list, w)
          \/ TryClose(c)
    \/ NextMessageID
    \/ Close

Spec == Init /\ [][Next]_vars

-----------------------------------------------------------------------------
(* Properties                                                              *)

TypeOK ==
    /\ ref \in 0..MaxRev
    /\ attrs \in Table
    /\ seq \in 0..(2 ^ SeqWidth - 1)
    /\ isClosed \in BOOLEAN
    /\ known \in [Clients -> 0..MaxRev]
    /\ lastDiff.w \in Writers \cup {"nil"}
    /\ nIssued \in 0..MaxMessages

(* The legacy catalog implements the session table, with its one table as *)
(* the single namespace: a successful TryUpdate comes from a caller        *)
(* holding the current ref and advances the revision by one, never drops  *)
(* a key or changes a frozen attribute; TryClose needs the current ref;    *)
(* once closed nothing changes.                                            *)
TheNamespace == "attrs"

Abstract == INSTANCE SessionTable
    WITH Namespaces <- {TheNamespace}, rev <- ref, closed <- isClosed,
         view <- known,
         table <- [n \in {TheNamespace} |->
                     [k \in DOMAIN attrs |-> PairOf(attrs[k])]]

AbstractSpec == Abstract!Spec

(* The keys a successful TryUpdate names in the diff written to a buffer   *)
(* are exactly the keys of the committed table stamped with the new        *)
(* revision: the diff is written inside the loop, entry by entry, and      *)
(* must describe the entries that the commit installs.                     *)
Written(text) == {text[i] : i \in DOMAIN text} \cap Keys

DiffNamesStampedKeys ==
    [][(ref' = ref + 1 /\ lastDiff'.w = "buffer")
         => Written(lastDiff'.text)
              = {k \in DOMAIN attrs' : attrs'[k].UpdatedAt = ref'}]_vars

(* The TryUpdate loop, run on every table the catalog reaches and every    *)
(* list of at most MaxBatch attributes (with a buffer as the writer),      *)
(* agrees with the reference meaning of the list (section 4.2 and 4.3 of   *)
(* the spec): it refuses the same lists and installs the same table, so a *)
(* Freeze makes the attribute frozen.                                      *)
ApplyAttrsMatchesReference ==
    \A list \in AttrLists :
        LET out == ApplyAttrs([attrs |-> attrs, frozen |-> <<>>,
                               text |-> <<>>, err |-> FALSE],
                              list, 1, ref + 1, "buffer")
            ro  == ReferenceApply(attrs, list, ref + 1)
        IN /\ (out.frozen # <<>>) = ro.frozen
           /\ ~ro.frozen => out.attrs = ro.attrs

(* The diff TryUpdate writes is its entries joined by ", " (section 4.2    *)
(* of the spec): it neither starts nor ends with a separator, and no two   *)
(* separators are adjacent.                                                *)
DiffWellFormed ==
    LET t == lastDiff.text
    IN t # <<>> => /\ t[1] # Sep
                       /\ t[Len(t)] # Sep
                       /\ \A i \in 1..(Len(t) - 1) : ~(t[i] = Sep /\ t[i + 1] = Sep)


=============================================================================
