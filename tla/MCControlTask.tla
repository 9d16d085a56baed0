---- MODULE MCControlTask ----
(* Instances of ControlTask for TLC: constants come from the .cfg files. *)
EXTENDS ControlTask, TLC

Symmetry == Permutations(Tasks) \cup Permutations(Instances)
====
