---------------------------- MODULE MC_Response ----------------------------
(* Model values for checking Response: the handler goroutine and one       *)
(* goroutine it hands the response to.                                     *)
EXTENDS Response

CONSTANTS h, b

MCGoroutines == {h, b}
MCReplyModes == {"none", "correlated", "uncorrelated"}

=============================================================================
