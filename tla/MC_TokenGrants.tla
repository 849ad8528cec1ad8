---------------------------- MODULE MC_TokenGrants ----------------------------
(***************************************************************************)
(* Small instances of TokenGrants for TLC.                                 *)
(***************************************************************************)
EXTENDS TokenGrants, TLC

MCSymmetry == Permutations(Requests) \cup Permutations(Tokens) \cup Permutations(Clients)
                \cup Permutations(Codes)

=============================================================================
