-------------------------- MODULE MC_SamlSessions --------------------------
(* SamlSessions on small sets, whose members are interchangeable.            *)
EXTENDS SamlSessions, TLC

Symmetry == Permutations(Procs) \cup Permutations(Ids) \cup Permutations(NameIDs)
              \cup Permutations(Requests)

=============================================================================
