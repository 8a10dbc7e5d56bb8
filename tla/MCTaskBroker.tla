---------------------------- MODULE MCTaskBroker ----------------------------
(* Instances of TaskBroker for TLC. *)
EXTENDS TaskBroker, TLC

CONSTANTS r1, r2, q1, q2

(* All runners and requests are for the same type of task. *)
MCRunnerType == [r \in Runner |-> "javascript"]
MCRequestType == [q \in Request |-> "javascript"]

(* Two runners beside n8n, the child process of internal mode, and a       *)
(* launcher with the runner that it starts.                                *)
external == [internal |-> FALSE, runners |-> {r1, r2}, launchers |-> {}]
internal == [internal |-> TRUE, runners |-> {r1}, launchers |-> {}]
launched == [internal |-> FALSE, runners |-> {r1}, launchers |-> {r2}]
MCExternal == {external}
MCSmall == {internal, launched}

(* The runners, and the requests, differ in nothing but their names. *)
MCSymmetry == Permutations(Runner) \cup Permutations(Request)

=============================================================================
