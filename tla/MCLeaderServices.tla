-------------------------- MODULE MCLeaderServices --------------------------
(* Instances of LeaderServices for TLC. *)
EXTENDS LeaderServices, TLC

CONSTANTS i1, i2

(* The processes do not differ, and the run checks invariants only. *)
Symmetry == Permutations({i1, i2})

=============================================================================
