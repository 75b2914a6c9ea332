--------------------------- MODULE MCLineBriefs ---------------------------
(* Constants of the TLC runs of LineBriefs. *)
EXTENDS LineBriefs
===========================================================================
