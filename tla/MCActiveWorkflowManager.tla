---------------------- MODULE MCActiveWorkflowManager ----------------------
(* Instances of ActiveWorkflowManager for TLC. *)
EXTENDS ActiveWorkflowManager

CONSTANTS m1, m2

setup(multi, updates, failures, stepdowns) ==
    [isMultiMain |-> multi, updates |-> updates, failures |-> failures, stepdowns |-> stepdowns]

(* One process with failures, several processes with a failure, several    *)
(* processes with an update and a change of leadership, and with two       *)
(* changes of leadership.                                                  *)
MCDeployment ==
    {setup(FALSE, 2, 2, 0), setup(TRUE, 0, 1, 0), setup(TRUE, 1, 0, 1), setup(TRUE, 0, 0, 2)}

RetryDeployment == {setup(TRUE, 0, 1, 0)}

=============================================================================
