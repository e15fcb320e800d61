----------------------------- MODULE MCPageFlip -----------------------------
(* Every number of pages around the limits of one, four and ten.           *)
EXTENDS PageFlip
MCArgs == 0 .. 5 \cup {11}
=============================================================================
