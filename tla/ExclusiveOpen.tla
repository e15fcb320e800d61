--------------------------- MODULE ExclusiveOpen ---------------------------
(***************************************************************************)
(* What an exclusive character device promises, whatever lock it is built  *)
(* from: at most one opener has the device, only that opener moves the     *)
(* LED, and the device can be opened again once it has been closed.        *)
(***************************************************************************)
CONSTANTS
  Opener,   \* the processes that open the device
  Level,    \* the levels the LED pin can have
  None      \* no opener

VARIABLES holder, led

Init == holder = None /\ led \in Level

Open(p) == holder = None /\ holder' = p /\ UNCHANGED led

Write(p) == holder = p /\ led' \in Level /\ UNCHANGED holder

Close(p) == holder = p /\ holder' = None /\ UNCHANGED led

Next == \E p \in Opener : Open(p) \/ Write(p) \/ Close(p)

Spec == Init /\ [][Next]_<<holder, led>>
=============================================================================
