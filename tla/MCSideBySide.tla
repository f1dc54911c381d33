---------------------------- MODULE MCSideBySide ----------------------------
(* Two runs beside each other on two ports; the first is followed by one    *)
(* more on the same provider.                                               *)
EXTENDS SideBySide, TLC

CONSTANTS left, right

MCMaxSessions == (left :> 2) @@ (right :> 1)
=============================================================================
