------------------------------ MODULE MCKeyIrq ------------------------------
(* Two processes reading the key device. *)
EXTENDS KeyIrq

CONSTANTS r1, r2
=============================================================================
