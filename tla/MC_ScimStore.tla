---------------------------- MODULE MC_ScimStore ----------------------------
(* ScimStore on small sets. Users and names are interchangeable.              *)
EXTENDS ScimStore, TLC

Symmetry == Permutations(UserIds) \cup Permutations(Names)

=============================================================================
