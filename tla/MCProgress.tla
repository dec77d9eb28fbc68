------------------------------ MODULE MCProgress ------------------------------
(* Instances of Progress for TLC: two packages. *)
EXTENDS Progress
===============================================================================
