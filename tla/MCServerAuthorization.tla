---- MODULE MCServerAuthorization ----
(* Instances of ServerAuthorization for TLC: constants come from the .cfg. *)
EXTENDS ServerAuthorization, TLC

Symmetry == Permutations(Sessions)
====
