---------------------------- MODULE MCQueueMode ----------------------------
(* One execution and two workers, with two faults or with a fault and a    *)
(* stop request; two executions and one worker, with a fault and a cycle   *)
(* of queue recovery.                                                      *)
EXTENDS QueueMode

CONSTANTS e1, e2, w1, w2

MCExecution == {e1, e2}
MCWorker == {w1, w2}
MCDiscarded == {e1}

MCDeployment ==
    {[executions |-> {e1}, workers |-> {w1, w2},
      MaxFaults |-> 2, MaxStops |-> 0, MaxRecoveries |-> 0],
     [executions |-> {e1}, workers |-> {w1, w2},
      MaxFaults |-> 1, MaxStops |-> 1, MaxRecoveries |-> 0],
     [executions |-> {e1, e2}, workers |-> {w1},
      MaxFaults |-> 1, MaxStops |-> 0, MaxRecoveries |-> 1]}
=============================================================================
