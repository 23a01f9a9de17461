-------------------------------- MODULE MCPins --------------------------------
(* Instances of Pins for TLC. *)
EXTENDS Pins
=============================================================================
