--------------------------- MODULE MCPartsCache ---------------------------
(* Constants of the TLC runs of PartsCache. *)
EXTENDS PartsCache, TLC

CONSTANTS p1, r1, r2

AllKinds  == Kind
Gateway   == {CacheOnly}
Symmetric == Permutations(Requests) \cup Permutations(Parts)
===========================================================================
