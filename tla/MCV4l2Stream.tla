---------------------------- MODULE MCV4l2Stream ----------------------------
(* Up to three buffers and enough frames to use every buffer again. *)
EXTENDS V4l2Stream
=============================================================================
