---------------------------- MODULE MCDesktopNode ----------------------------
(* DesktopNode for TLC: the bounds are in the cfg. *)
EXTENDS DesktopNodeProperties
=============================================================================
