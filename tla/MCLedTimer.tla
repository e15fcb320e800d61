----------------------------- MODULE MCLedTimer -----------------------------
(* Two processes, two periods, and as many commands as it takes for one    *)
(* process to overtake the other between the period and mod_timer.         *)
EXTENDS LedTimer

CONSTANTS p1, p2
=============================================================================
