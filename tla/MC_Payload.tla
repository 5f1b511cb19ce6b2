----------------------------- MODULE MC_Payload -----------------------------
(* Model values for checking Payload: three goroutines, the first of which *)
(* creates the payload.                                                    *)
EXTENDS Payload

CONSTANTS g1, g2, g3

MCGoroutines == {g1, g2, g3}

=============================================================================
