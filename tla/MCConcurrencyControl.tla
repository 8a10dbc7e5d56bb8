------------------------ MODULE MCConcurrencyControl ------------------------
(* Instances of ConcurrencyControl for TLC. *)
EXTENDS ConcurrencyControl

CONSTANTS c1, c2, c3, e1, e2, e3

MCCall == {c1, c2, c3}
MCExecution == {e1, e2, e3}

(* Each call is for an execution of its own.                               *)
MCExecutionOf ==
    [c \in MCCall |-> CASE c = c1 -> e1 [] c = c2 -> e2 [] c = c3 -> e3]

(* All calls compete for the production queue.                             *)
MCModeOf == [c \in MCCall |-> IF c = c3 THEN "trigger" ELSE "webhook"]

MCStoredMode == [e \in MCExecution |-> IF e = e3 THEN "trigger" ELSE "webhook"]

(* e1 waits in the database and is resumed; the others are new.            *)
MCResuming == {e1}

(* A limit below -1 is normalised to -1, no limit. *)
MCUnlimited == -5

=============================================================================
