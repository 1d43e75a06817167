--------------------------- MODULE MCArenaLedger ---------------------------
(* Three products of others and the team's own; " a " is a between spaces.   *)
EXTENDS ArenaLedger

CONSTANTS a, b, c, own, padded, blank, text

MCStrip == [t \in {a, b, c, own, padded, blank, text} |-> IF t = padded THEN a ELSE t]
=============================================================================
