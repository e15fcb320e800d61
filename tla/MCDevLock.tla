----------------------------- MODULE MCDevLock -----------------------------
(* Five openers of the gpioled device: one that has it, one that is being  *)
(* refused, one that sleeps for it and two that arrive meanwhile.          *)
EXTENDS DevLock

CONSTANTS p1, p2, p3, p4, p5

MCOpener == {p1, p2, p3, p4, p5}
=============================================================================
