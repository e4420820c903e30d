--------------------------- MODULE MCCaptureReplay --------------------------
(* CaptureReplay for TLC. *)
EXTENDS CaptureReplay
=============================================================================
