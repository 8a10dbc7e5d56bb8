--------------------------- MODULE MCWaitTracker ---------------------------
(* Instances of WaitTracker for TLC. *)
EXTENDS WaitTracker

CONSTANTS m1, m2, parent, child

MCExecution == {parent, child}

(* `parent` waits for its sub-execution `child`. *)
MCParent == [e \in MCExecution |-> IF e = child THEN parent ELSE NoExecution]

MCWebhooked == {child}

(* An execution and its sub-execution; a sub-execution that is stopped;    *)
(* two processes with an execution whose sub-execution has ended.          *)
MCDeployment ==
    {[main |-> {m1}, waiting |-> {parent, child}, stops |-> 0],
     [main |-> {m1}, waiting |-> {child}, stops |-> 1],
     [main |-> {m1, m2}, waiting |-> {parent}, stops |-> 0]}

=============================================================================
