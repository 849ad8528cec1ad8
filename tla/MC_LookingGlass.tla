--------------------------- MODULE MC_LookingGlass ---------------------------
(***************************************************************************)
(* Small instances of LookingGlass for TLC.                                *)
(***************************************************************************)
EXTENDS LookingGlass

=============================================================================
