--------------------------- MODULE MCProcessWorld ---------------------------
(* Two providers that compete for two ports; the first is used twice.       *)
EXTENDS ProcessWorld, TLC

CONSTANTS left, right

MCMaxSessions == (left :> 2) @@ (right :> 1)
=============================================================================
