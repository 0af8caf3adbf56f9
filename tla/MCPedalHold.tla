---------------------------- MODULE MCPedalHold ----------------------------
(* PedalHold for TLC: the values are model values, given in pedal.cfg. *)
EXTENDS PedalHold
=============================================================================
