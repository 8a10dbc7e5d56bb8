-------------------------- MODULE MCMultiMainSetup --------------------------
(* Instances of MultiMainSetup for TLC. *)
EXTENDS MultiMainSetup

CONSTANTS i1, i2

=============================================================================
