----------------------------- MODULE MCDepthSync ----------------------------
(* DepthSync for TLC. *)
EXTENDS DepthSync

CONSTANTS l1, l2
MCLevels == {l1, l2}
=============================================================================
