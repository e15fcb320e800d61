---------------------------- MODULE FrameViewer ----------------------------
(***************************************************************************)
(* What a camera viewer promises: a camera takes frames one after the      *)
(* other, and the screen shows whole frames, each taken after the one it   *)
(* replaces.  Frames may be skipped; none is shown twice or late.          *)
(***************************************************************************)
EXTENDS Naturals

VARIABLES
  taken,    \* frames taken so far
  screen    \* the frame on the screen, 0 for none

viewer == <<taken, screen>>

ViewerInit == taken = 0 /\ screen = 0

Take == taken' = taken + 1 /\ UNCHANGED screen

Show == screen' \in screen + 1 .. taken /\ UNCHANGED taken

ViewerNext == Take \/ Show

ViewerSpec == ViewerInit /\ [][ViewerNext]_viewer
=============================================================================
