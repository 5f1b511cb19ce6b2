----------------------------- MODULE Attributes -----------------------------
(***************************************************************************)
(* Session attributes as both catalogs store them: an attribute is a key,  *)
(* a value ("" is the unset value) and a frozen flag; the catalogs keep it *)
(* with the revisions at which it was created and last updated.            *)
(*                                                                         *)
(* ReferenceApply is the meaning of a proposed list of attributes, defined *)
(* key by key and independently of either catalog's loop, against which   *)
(* those loops are checked.                                                *)
(***************************************************************************)
EXTENDS Naturals, Sequences

CONSTANTS
    Keys,         \* attribute keys
    Values,       \* non-empty attribute values ("" is the unset value)
    MaxRev,       \* bound: no update is attempted at revision MaxRev
    MaxBatch      \* bound: length of a proposed attribute list

AttrValues == Values \cup {""}

\* rinq.Attr / overpass.Attr
Attr == [Key: Keys, Value: AttrValues, IsFrozen: BOOLEAN]

\* attrmeta.Attr / internals.AttrWithMetaData: the attribute with its
\* metadata; the key is the map key.
Entry == [Value: AttrValues, IsFrozen: BOOLEAN,
          CreatedAt: 0..MaxRev, UpdatedAt: 0..MaxRev]

\* Proposed attribute lists of at most MaxBatch attributes.
AttrLists == UNION {[1..n -> Attr] : n \in 0..MaxBatch}

\* The zero entry, which a Go map lookup of a missing key yields.
ZeroEntry == [Value |-> "", IsFrozen |-> FALSE, CreatedAt |-> 0, UpdatedAt |-> 0]

Lookup(ns, k) == IF k \in DOMAIN ns THEN ns[k] ELSE ZeroEntry

PairOf(x) == [Value |-> x.Value, IsFrozen |-> x.IsFrozen]

(* Reference meaning of a proposed list, key by key: an attribute is a     *)
(* change when it differs from the key's value before it (the entry's, or  *)
(* the previous attribute's for the same key); the list is refused when a  *)
(* change meets a frozen value; otherwise every changed key takes its last *)
(* proposed value and frozen flag, stamped with the next revision.         *)
ReferenceApply(ns, list, nextRev) ==
    LET ForKey(k)    == SelectSeq(list, LAMBDA a : a.Key = k)
        Before(k, i) == IF i = 1 THEN PairOf(Lookup(ns, k))
                                 ELSE PairOf(ForKey(k)[i - 1])
        Changes(k)   == {i \in 1..Len(ForKey(k)) :
                            PairOf(ForKey(k)[i]) # Before(k, i)}
        Touched      == {k \in Keys : Changes(k) # {}}
        Last(k)      == ForKey(k)[Len(ForKey(k))]
    IN [frozen    |-> \E k \in Keys : \E i \in Changes(k) : Before(k, i).IsFrozen,
        attrs     |-> [k \in DOMAIN ns \cup Touched |->
                         IF k \in Touched
                         THEN [Value |-> Last(k).Value, IsFrozen |-> Last(k).IsFrozen,
                               CreatedAt |-> Lookup(ns, k).CreatedAt
                                             + (IF k \in DOMAIN ns THEN 0 ELSE nextRev),
                               UpdatedAt |-> nextRev]
                         ELSE ns[k]],
        diffEmpty |-> Touched = {}]

=============================================================================
