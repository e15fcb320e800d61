------------------------------ MODULE MCUpgrade ------------------------------
(* A package with two files, and a later one that ships only one of them.  *)
EXTENDS Upgrade, TLC

CONSTANTS v1, v2, f1, f2

MCShips == (v1 :> {f1, f2}) @@ (v2 :> {f1})
=============================================================================
