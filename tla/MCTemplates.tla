---------------------------- MODULE MCTemplates ----------------------------
(* Three ordinary names and one that starts with an underscore.            *)
EXTENDS Templates, TLC
CONSTANTS a, b, c, reserved
NamesDef    == {a, b, c, reserved}
ReservedDef == {reserved}
Symmetry    == Permutations({a, b, c})
=============================================================================
