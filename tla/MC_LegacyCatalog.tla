-------------------------- MODULE MC_LegacyCatalog --------------------------
(* Model values and small sets for checking LegacyCatalog.  Keys are      *)
(* strings because the diff writes them as text.                           *)
EXTENDS LegacyCatalog

CONSTANTS c1, c2

MCKeys == {"x", "y"}
MCValues == {"v"}
MCClients == {c1, c2}
MCWriters == {"nil", "buffer", "broken"}

=============================================================================
