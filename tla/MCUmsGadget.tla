---------------------------- MODULE MCUmsGadget ----------------------------
(* The operator and two hotplug helpers, which are alike. *)
EXTENDS UmsGadget, TLC

CONSTANTS op, h1, h2

HelperSymmetry == Permutations(Helper)
=============================================================================
