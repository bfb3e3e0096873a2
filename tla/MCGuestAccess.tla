--------------------------- MODULE MCGuestAccess ----------------------------
(***************************************************************************)
(* The launches of GuestAccess are interchangeable.                         *)
(***************************************************************************)
EXTENDS GuestAccess, TLC

Symmetry == Permutations(VMs)
=============================================================================
