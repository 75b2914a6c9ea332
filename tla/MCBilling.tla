----------------------------- MODULE MCBilling -----------------------------
(* Constants of the TLC run of Billing. *)
EXTENDS Billing, TLC

CONSTANTS u1, u2, a1, a2, c1, c2, e1, t1, t2, k1, k2

CallsOf == [m \in Mixes |-> IF m = {"status", "revoke"} THEN 3 ELSE 2]

Symmetric == Permutations(Accounts) \cup Permutations(Emails) \cup Permutations(Customers)
               \cup Permutations(Tasks) \cup Permutations(Copies)
===========================================================================
