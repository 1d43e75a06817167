----------------------------- MODULE MCHistory -----------------------------
(* Two artifacts over four instants: two seconds of two microseconds each.   *)
EXTENDS History

CONSTANTS clean, risky

MCVerdictFor == [a \in {clean, risky} |-> IF a = clean THEN "PASS" ELSE "WARN"]
=============================================================================
