------------------------------ MODULE MCTeam ------------------------------
(* Constants of the TLC runs of Team. *)
EXTENDS Team, TLC

CONSTANTS u1, u2, u3, i1, i2, t1, t2

Symmetric == Permutations(Users) \cup Permutations(Invites) \cup Permutations(Tasks)
                \cup Permutations(Profiles)
===========================================================================
