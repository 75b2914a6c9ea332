---------------------------- MODULE MCBomStore ----------------------------
(* Constants of the TLC runs of BomStore. *)
EXTENDS BomStore, TLC

CONSTANTS b1, b2, t1, t2, t3, g1, g2

NoPrefix    == [b \in Boms |-> {}]
LongerId    == [b \in Boms |-> IF b = b1 THEN {b2} ELSE {}]
OneGateway  == [t \in Tasks |-> g1]
TwoGateways == [t \in Tasks |-> IF t = t1 THEN g1 ELSE g2]
Symmetric   == Permutations(Tasks \ Refreshers) \cup Permutations(Boms)
============================================================================
