----------------------------- MODULE MC_Catalog -----------------------------
(* Model-checking instance of Catalog: one namespace, two keys, the values *)
(* "" and "a", two concurrent callers.                                     *)
EXTENDS Catalog

CONSTANTS n1, k1, k2, c1, c2

MCNamespaces == {n1}
MCKeys == {k1, k2}
MCValues == {"a"}
MCClients == {c1, c2}

=============================================================================
