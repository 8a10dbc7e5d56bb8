------------------------- MODULE WaitTrackerProofs -------------------------
(***************************************************************************)
(* Proofs about WaitTracker, for any number of processes, executions and   *)
(* levels of sub-executions, and all bounds.                               *)
(***************************************************************************)
EXTENDS WaitTracker, SequenceTheorems, TLAPS

(* Only a row that waits has a time to wait for. *)
OnlyWaitingHasTime == \A e \in Execution : row[e].status # "waiting" => row[e].waitTill = NoTime

IInv == WaitTypeOK /\ OnlyWaitingHasTime /\ TimerIsHeld

-----------------------------------------------------------------------------
(* Types *)

(* The clock and the times of rows and entries are numbers. *)
LEMMA Times ==
    /\ Time \subseteq Nat
    /\ NoTime \notin Time /\ Never \notin Time
    /\ \A t \in Time : t + Window < Never
    /\ NoTime \in Int /\ Never \in Int /\ MaxTime \in Nat /\ Window \in Nat
  BY WaitAssumption DEF Time, NoTime, Never

(* A process of the deployment is one of the processes. *)
LEMMA DeployedIsMain ==
    ASSUME WaitTypeOK, NEW m \in deployment.main
    PROVE  m \in Main
  <1>1. deployment \in [main : SUBSET Main, waiting : SUBSET Execution, stops : Nat]
    BY WaitAssumption DEF WaitTypeOK
  <1>2. deployment.main \subseteq Main
    BY <1>1
  <1> QED BY <1>2

(* A poll finds times that are due within the window, and no others. *)
LEMMA FoundType ==
    ASSUME WaitTypeOK
    PROVE  found \in Found
  <1> SUFFICES ASSUME NEW e \in Execution
               PROVE  (IF row[e].waitTill <= now + Window THEN row[e].waitTill ELSE NoTime)
                          \in Time \cup {NoTime}
    BY DEF found, Found
  <1>1. row[e].waitTill \in Time \cup {Never, NoTime} /\ now \in Time
    BY DEF WaitTypeOK, Row
  <1>2. CASE row[e].waitTill = Never
    BY <1>1, <1>2, Times
  <1> QED BY <1>1, <1>2

(* A query appends what it found. *)
LEMMA QueryType ==
    ASSUME WaitTypeOK, NEW m \in Main, query(m)
    PROVE  polls' \in [Main -> Seq(Found)]
  BY FoundType DEF WaitTypeOK, query

(* startExecution changes the entry and counts one start. *)
LEMMA StartType ==
    ASSUME WaitTypeOK, NEW m \in Main, NEW e, startExecution(m, e)
    PROVE  /\ waitingExecutions' \in [Main -> Found]
           /\ finding' \in [Main -> [Execution -> Nat]]
  <1>1. waitingExecutions' \in [Main -> Found]
    <2>1. /\ waitingExecutions' = [waitingExecutions EXCEPT ![m][e] = NoTime]
          /\ waitingExecutions \in [Main -> [Execution -> Time \cup {NoTime}]]
      BY DEF startExecution, WaitTypeOK, Found
    <2>2. waitingExecutions' \in [Main -> [Execution -> Time \cup {NoTime}]]
      BY <2>1
    <2> QED BY <2>2 DEF Found
  <1>2. finding' \in [Main -> [Execution -> Nat]]
    <2>1. finding' = [finding EXCEPT ![m][e] = @ + 1]
      BY DEF startExecution
    <2>2. CASE e \in Execution
      BY <2>1, <2>2 DEF WaitTypeOK
    <2>3. CASE e \notin Execution
      <3>1. finding' = finding
        BY <2>1, <2>3 DEF WaitTypeOK
      <3> QED BY <3>1 DEF WaitTypeOK
    <2> QED BY <2>2, <2>3
  <1> QED BY <1>1, <1>2

(* The rows that the model writes. *)
LEMMA RowType ==
    ASSUME WaitTypeOK, NEW e \in Execution,
           NEW status \in {"waiting", "running", "success", "error", "canceled"},
           NEW till \in Time \cup {Never, NoTime},
           row' = [row EXCEPT ![e] = [status |-> status, waitTill |-> till]]
    PROVE  row' \in [Execution -> Row]
  <1>1. [status |-> status, waitTill |-> till] \in Row
    BY DEF Row
  <1> QED BY <1>1 DEF WaitTypeOK

(***************************************************************************)
(* Every step of a poll, a timer, a start, a run and a stop keeps the      *)
(* types.                                                                  *)
(***************************************************************************)
LEMMA NextWaitTypeOK == WaitTypeOK /\ [Next]_vars => WaitTypeOK'
  <1> SUFFICES ASSUME WaitTypeOK, [Next]_vars PROVE WaitTypeOK'
    OBVIOUS
  <1> USE DEF trackerVars, startVars, bounds
  <1>1. CASE Tick
    BY <1>1, WaitAssumption DEF Tick, WaitTypeOK, Time
  <1>2. ASSUME NEW m \in Main, StartTracking(m) PROVE WaitTypeOK'
    BY <1>2, QueryType DEF StartTracking, WaitTypeOK
  <1>3. ASSUME NEW m \in Main, Poll(m) PROVE WaitTypeOK'
    BY <1>3, QueryType DEF Poll, WaitTypeOK
  <1>4. ASSUME NEW m \in Main, SetTimers(m) PROVE WaitTypeOK'
    <2> DEFINE result == Head(polls[m])
               fresh == {e \in Execution : result[e] # NoTime /\ waitingExecutions[m][e] = NoTime}
    <2>1. /\ waitingExecutions' = [waitingExecutions EXCEPT ![m] =
                 [e \in Execution |-> IF e \in fresh THEN result[e] ELSE waitingExecutions[m][e]]]
          /\ timers' = [timers EXCEPT ![m] = @ \cup {<<e, result[e]>> : e \in fresh}]
          /\ polls' = [polls EXCEPT ![m] = Tail(@)]
          /\ polls[m] # <<>>
      BY <1>4 DEF SetTimers
    <2>2. result \in Found
      BY <2>1 DEF WaitTypeOK
    <2>3. polls' \in [Main -> Seq(Found)]
      BY <2>1 DEF WaitTypeOK
    <2>4. \A e \in fresh : e \in Execution /\ result[e] \in Time
      BY <2>2 DEF Found
    <2> HIDE DEF result, fresh
    <2>5. waitingExecutions' \in [Main -> Found]
      <3>1. [e \in Execution |-> IF e \in fresh THEN result[e] ELSE waitingExecutions[m][e]]
               \in Found
        BY <2>4 DEF WaitTypeOK, Found
      <3> QED BY <2>1, <3>1 DEF WaitTypeOK
    <2>6. timers' \in [Main -> SUBSET (Execution \X Time)]
      BY <2>1, <2>4 DEF WaitTypeOK
    <2> QED BY <1>4, <2>3, <2>5, <2>6 DEF SetTimers, WaitTypeOK
  <1>5. ASSUME NEW m \in Main, StopTracking(m) PROVE WaitTypeOK'
    BY <1>5, WaitAssumption DEF StopTracking, WaitTypeOK
  <1>6. ASSUME NEW m \in Main, NEW e \in Execution, NEW due \in Time, TimerFires(m, e, due)
        PROVE  WaitTypeOK'
    BY <1>6, StartType DEF TimerFires, WaitTypeOK
  <1>7. ASSUME NEW m \in Main, NEW e \in Execution, FindExecution(m, e) PROVE WaitTypeOK'
    BY <1>7 DEF FindExecution, WaitTypeOK
  <1>8. ASSUME NEW m \in Main, NEW e \in Execution, ExecuteWebhook(m, e) PROVE WaitTypeOK'
    BY <1>8 DEF ExecuteWebhook, WaitTypeOK
  <1>9. ASSUME NEW m \in Main, NEW e \in Execution, Run(m, e) PROVE WaitTypeOK'
    <2>1. row' \in [Execution -> Row]
      BY <1>9, RowType DEF Run
    <2> QED BY <1>9, <2>1 DEF Run, WaitTypeOK
  <1>10. ASSUME NEW m \in Main, NEW e \in Execution, RunEnds(m, e) PROVE WaitTypeOK'
    <2>1. row' \in [Execution -> Row] /\ waits' \in 0 .. MaxWaits
      <3>1. CASE \E status \in {"success", "error"} :
                    row' = [row EXCEPT ![e] = [status |-> status, waitTill |-> NoTime]]
                    /\ UNCHANGED waits
        BY <3>1, RowType DEF WaitTypeOK
      <3>2. CASE /\ waits < MaxWaits
                 /\ waits' = waits + 1
                 /\ \E till \in now .. MaxTime :
                      row' = [row EXCEPT ![e] = [status |-> "waiting", waitTill |-> till]]
        <4>1. PICK till \in now .. MaxTime :
                  row' = [row EXCEPT ![e] = [status |-> "waiting", waitTill |-> till]]
          BY <3>2
        <4>2. till \in Time
          BY WaitAssumption DEF WaitTypeOK, Time
        <4>3. row' \in [Execution -> Row]
          BY <4>1, <4>2, RowType
        <4> QED BY <3>2, <4>3, WaitAssumption DEF WaitTypeOK
      <3> QED BY <1>10, <3>1, <3>2 DEF RunEnds
    <2>2. /\ waitingExecutions' \in [Main -> Found]
          /\ finding' \in [Main -> [Execution -> Nat]]
          /\ onEnd' \in [Main -> SUBSET Execution]
      <3>1. resumeParent(m, e)
        BY <1>10 DEF RunEnds
      <3>2. CASE e \in onEnd[m]
        <4>1. startExecution(m, Parent[e]) /\ onEnd' = [onEnd EXCEPT ![m] = @ \ {e}]
          BY <3>1, <3>2 DEF resumeParent
        <4> QED BY <4>1, StartType DEF WaitTypeOK
      <3>3. CASE e \notin onEnd[m]
        BY <3>1, <3>3 DEF resumeParent, WaitTypeOK
      <3> QED BY <3>2, <3>3
    <2>3. running' \in [Main -> [Execution -> Nat]]
      BY <1>10 DEF RunEnds, WaitTypeOK
    <2> QED BY <1>10, <2>1, <2>2, <2>3 DEF RunEnds, WaitTypeOK
  <1>11. ASSUME NEW m \in Main, NEW e \in Execution, Stop(m, e) PROVE WaitTypeOK'
    <2>1. waitingExecutions' \in [Main -> Found]
      BY <1>11 DEF Stop, WaitTypeOK, Found
    <2>2. /\ running' \in [Main -> [Execution -> Nat]]
          /\ timers' \in [Main -> SUBSET (Execution \X Time)]
          /\ stops' \in Nat
      BY <1>11 DEF Stop, WaitTypeOK
    <2> QED BY <1>11, <2>1, <2>2 DEF Stop, WaitTypeOK
  <1>12. ASSUME NEW e \in Execution, StopWritten(e) PROVE WaitTypeOK'
    BY <1>12, RowType DEF StopWritten, WaitTypeOK
  <1>13. CASE UNCHANGED vars
    BY <1>13 DEF vars, WaitTypeOK
  <1> QED
    BY <1>1, <1>2, <1>3, <1>4, <1>5, <1>6, <1>7, <1>8, <1>9, <1>10, <1>11, <1>12, <1>13,
       DeployedIsMain DEF Next

-----------------------------------------------------------------------------
(* Timers and rows *)

(* A timer is held if it is in the entry of its execution. *)
LEMMA HeldIsEntry ==
    ASSUME WaitTypeOK, NEW m \in Main, NEW t \in timers[m]
    PROVE  /\ t = <<t[1], t[2]>> /\ t[1] \in Execution /\ t[2] \in Time
           /\ t \in held(m) <=> waitingExecutions[m][t[1]] = t[2]
  <1>1. t \in Execution \X Time
    BY DEF WaitTypeOK
  <1>2. t = <<t[1], t[2]>> /\ t[1] \in Execution /\ t[2] \in Time
    BY <1>1
  <1> QED BY <1>2 DEF held

(***************************************************************************)
(* A timer stays held by a step that leaves the entry of its execution     *)
(* alone or deletes that of a parent.                                      *)
(***************************************************************************)
LEMMA HeldStays ==
    ASSUME WaitTypeOK, WaitTypeOK', TimerIsHeld,
           \A n \in Main : \A t \in timers'[n] :
               \/ t[1] \in Parents
               \/ /\ t \in timers[n]
                  /\ waitingExecutions'[n][t[1]] = waitingExecutions[n][t[1]]
               \/ waitingExecutions'[n][t[1]] = t[2]
    PROVE  TimerIsHeld'
  <1> SUFFICES ASSUME NEW n \in Main, NEW t \in timers'[n], t[1] \notin Parents
               PROVE  t \in held(n)'
    BY DEF TimerIsHeld
  <1>1. t = <<t[1], t[2]>> /\ t[1] \in Execution
    <2>1. t \in Execution \X Time
      BY DEF WaitTypeOK
    <2> QED BY <2>1
  <1>2. waitingExecutions'[n][t[1]] = t[2]
    <2>1. CASE t \in timers[n] /\ waitingExecutions'[n][t[1]] = waitingExecutions[n][t[1]]
      BY <2>1, HeldIsEntry DEF TimerIsHeld
    <2> QED BY <2>1
  <1> QED BY <1>1, <1>2 DEF held

(* No step lets a timer escape that a stop or a stepdown would have to     *)
(* clear.                                                                  *)
LEMMA NextTimerIsHeld ==
    WaitTypeOK /\ WaitTypeOK' /\ TimerIsHeld /\ [Next]_vars => TimerIsHeld'
  <1> SUFFICES ASSUME WaitTypeOK, WaitTypeOK', TimerIsHeld, [Next]_vars PROVE TimerIsHeld'
    OBVIOUS
  <1> USE DEF trackerVars, startVars, bounds
  <1>t. /\ timers \in [Main -> SUBSET (Execution \X Time)]
        /\ waitingExecutions \in [Main -> [Execution -> Time \cup {NoTime}]]
    BY DEF WaitTypeOK, Found
  <1>1. ASSUME waitingExecutions' = waitingExecutions,
               \A n \in Main : timers'[n] \subseteq timers[n]
        PROVE  TimerIsHeld'
    BY <1>1, HeldStays
  <1>2. ASSUME NEW m \in Main, SetTimers(m) PROVE TimerIsHeld'
    <2> DEFINE result == Head(polls[m])
               fresh == {e \in Execution : result[e] # NoTime /\ waitingExecutions[m][e] = NoTime}
    <2>1. /\ waitingExecutions' = [waitingExecutions EXCEPT ![m] =
                 [e \in Execution |-> IF e \in fresh THEN result[e] ELSE waitingExecutions[m][e]]]
          /\ timers' = [timers EXCEPT ![m] = @ \cup {<<e, result[e]>> : e \in fresh}]
      BY <1>2 DEF SetTimers
    <2>2. \A e \in fresh : e \in Execution /\ waitingExecutions[m][e] = NoTime
      OBVIOUS
    <2> HIDE DEF result, fresh
    <2>3. ASSUME NEW n \in Main, NEW t \in timers'[n], t[1] \notin Parents
          PROVE  \/ t \in timers[n] /\ waitingExecutions'[n][t[1]] = waitingExecutions[n][t[1]]
                 \/ waitingExecutions'[n][t[1]] = t[2]
      <3>1. CASE n # m
        BY <1>t, <2>1, <3>1
      <3>2. CASE n = m /\ t \in timers[n]
        <4>1. waitingExecutions[n][t[1]] = t[2] /\ t[2] \in Time /\ t[1] \in Execution
          BY <2>3, <3>2, HeldIsEntry DEF TimerIsHeld
        <4>2. t[1] \notin fresh
          BY <2>2, <3>2, <4>1, Times
        <4> QED BY <1>t, <2>1, <3>2, <4>1, <4>2
      <3>3. CASE n = m /\ t \notin timers[n]
        <4>1. PICK e \in fresh : t = <<e, result[e]>>
          BY <1>t, <2>1, <3>3
        <4>2. waitingExecutions'[m][e] = result[e]
          BY <1>t, <2>1, <2>2, <4>1
        <4> QED BY <3>3, <4>1, <4>2
      <3> QED BY <3>1, <3>2, <3>3
    <2> QED BY <2>3, HeldStays
  <1>3. ASSUME NEW m \in Main, NEW e \in Execution, NEW due \in Time, TimerFires(m, e, due)
        PROVE  TimerIsHeld'
    <2>1. /\ <<e, due>> \in timers[m]
          /\ timers' = [timers EXCEPT ![m] = @ \ {<<e, due>>}]
          /\ waitingExecutions' = [waitingExecutions EXCEPT ![m][e] = NoTime]
      BY <1>3 DEF TimerFires, startExecution
    <2>2. ASSUME NEW n \in Main, NEW t \in timers'[n], t[1] \notin Parents
          PROVE  t \in timers[n] /\ waitingExecutions'[n][t[1]] = waitingExecutions[n][t[1]]
      <3>1. t \in timers[n]
        BY <1>t, <2>1
      <3>2. t = <<t[1], t[2]>> /\ waitingExecutions[n][t[1]] = t[2]
        BY <2>2, <3>1, HeldIsEntry DEF TimerIsHeld
      <3>3. CASE n = m /\ t[1] = e
        <4>1. waitingExecutions[m][e] = due
          BY <2>1, <2>2, <3>3, HeldIsEntry DEF TimerIsHeld
        <4>2. t = <<e, due>>
          BY <3>2, <3>3, <4>1
        <4> QED BY <1>t, <2>1, <3>3, <4>2
      <3>4. CASE ~(n = m /\ t[1] = e)
        BY <1>t, <2>1, <3>1, <3>4
      <3> QED BY <3>3, <3>4
    <2> QED BY <2>2, HeldStays
  <1>4. ASSUME NEW m \in Main, NEW e \in Execution, RunEnds(m, e) PROVE TimerIsHeld'
    <2>1. timers' = timers
      BY <1>4 DEF RunEnds
    <2>2. \/ waitingExecutions' = waitingExecutions
          \/ waitingExecutions' = [waitingExecutions EXCEPT ![m][Parent[e]] = NoTime]
      BY <1>4 DEF RunEnds, resumeParent, startExecution
    <2>3. \A n \in Main : \A d \in Execution :
              d # Parent[e] => waitingExecutions'[n][d] = waitingExecutions[n][d]
      BY <1>t, <2>2
    <2>4. \A d \in Execution : d = Parent[e] => d \in Parents
      BY WaitAssumption DEF Parents
    <2> QED BY <2>1, <2>3, <2>4, HeldStays, HeldIsEntry
  <1>5. ASSUME NEW m \in Main, NEW e \in Execution, Stop(m, e) PROVE TimerIsHeld'
    <2>1. /\ timers' = [timers EXCEPT ![m] = @ \ {<<e, waitingExecutions[m][e]>>}]
          /\ waitingExecutions' = [waitingExecutions EXCEPT ![m][e] = NoTime]
      BY <1>5 DEF Stop
    <2>2. ASSUME NEW n \in Main, NEW t \in timers'[n], t[1] \notin Parents
          PROVE  t \in timers[n] /\ waitingExecutions'[n][t[1]] = waitingExecutions[n][t[1]]
      <3>1. t \in timers[n]
        BY <1>t, <2>1
      <3>2. t = <<t[1], t[2]>> /\ waitingExecutions[n][t[1]] = t[2]
        BY <2>2, <3>1, HeldIsEntry DEF TimerIsHeld
      <3>3. ~(n = m /\ t[1] = e)
        BY <1>t, <2>1, <3>2
      <3> QED BY <1>t, <2>1, <3>1, <3>3
    <2> QED BY <2>2, HeldStays
  <1>6. ASSUME NEW m \in Main, StopTracking(m) PROVE TimerIsHeld'
    BY <1>t, <1>1, <1>6 DEF StopTracking
  <1>7. CASE Tick
    BY <1>1, <1>7 DEF Tick
  <1>8. ASSUME NEW m \in Main, StartTracking(m) \/ Poll(m) PROVE TimerIsHeld'
    BY <1>1, <1>8 DEF StartTracking, Poll
  <1>9. ASSUME NEW m \in Main, NEW e \in Execution,
               FindExecution(m, e) \/ ExecuteWebhook(m, e) \/ Run(m, e)
        PROVE  TimerIsHeld'
    BY <1>1, <1>9 DEF FindExecution, ExecuteWebhook, Run
  <1>10. ASSUME NEW e \in Execution, StopWritten(e) PROVE TimerIsHeld'
    BY <1>1, <1>10 DEF StopWritten
  <1>11. CASE UNCHANGED vars
    BY <1>1, <1>11 DEF vars
  <1> QED
    BY <1>2, <1>3, <1>4, <1>5, <1>6, <1>7, <1>8, <1>9, <1>10, <1>11, DeployedIsMain DEF Next

(* A row that is written gets a time only with the status `waiting`. *)
LEMMA NextOnlyWaiting ==
    WaitTypeOK /\ OnlyWaitingHasTime /\ [Next]_vars => OnlyWaitingHasTime'
  <1> SUFFICES ASSUME WaitTypeOK, OnlyWaitingHasTime, [Next]_vars PROVE OnlyWaitingHasTime'
    OBVIOUS
  <1> USE DEF trackerVars, startVars, bounds
  <1>t. row \in [Execution -> Row]
    BY DEF WaitTypeOK
  <1>1. ASSUME row' = row PROVE OnlyWaitingHasTime'
    BY <1>1 DEF OnlyWaitingHasTime
  <1>2. ASSUME NEW e \in Execution, NEW status, NEW till,
               row' = [row EXCEPT ![e] = [status |-> status, waitTill |-> till]],
               status # "waiting" => till = NoTime
        PROVE  OnlyWaitingHasTime'
    BY <1>t, <1>2 DEF OnlyWaitingHasTime
  <1>3. ASSUME NEW m \in Main, NEW e \in Execution, Run(m, e) PROVE OnlyWaitingHasTime'
    BY <1>2, <1>3 DEF Run
  <1>4. ASSUME NEW m \in Main, NEW e \in Execution, RunEnds(m, e) PROVE OnlyWaitingHasTime'
    BY <1>2, <1>4 DEF RunEnds
  <1>5. ASSUME NEW e \in Execution, StopWritten(e) PROVE OnlyWaitingHasTime'
    BY <1>2, <1>5 DEF StopWritten
  <1>6. CASE Tick
    BY <1>1, <1>6 DEF Tick
  <1>7. ASSUME NEW m \in Main, StartTracking(m) \/ Poll(m) \/ SetTimers(m) \/ StopTracking(m)
        PROVE  OnlyWaitingHasTime'
    BY <1>1, <1>7 DEF StartTracking, Poll, SetTimers, StopTracking
  <1>8. ASSUME NEW m \in Main, NEW e \in Execution,
               \/ \E due \in Time : TimerFires(m, e, due)
               \/ FindExecution(m, e) \/ ExecuteWebhook(m, e) \/ Stop(m, e)
        PROVE  OnlyWaitingHasTime'
    BY <1>1, <1>8 DEF TimerFires, FindExecution, ExecuteWebhook, Stop
  <1>9. CASE UNCHANGED vars
    BY <1>1, <1>9 DEF vars
  <1> QED
    BY <1>3, <1>4, <1>5, <1>6, <1>7, <1>8, <1>9, DeployedIsMain DEF Next

(* Executions wait or have succeeded, and no process tracks any. *)
LEMMA InitIInv == Init => IInv
  <1> SUFFICES ASSUME Init PROVE IInv
    OBVIOUS
  <1>1. PICK till \in [Execution -> Time \cup {Never}] :
            row = [e \in Execution |->
                      IF e \in deployment.waiting
                      THEN [status |-> "waiting", waitTill |-> till[e]]
                      ELSE [status |-> "success", waitTill |-> NoTime]]
    BY DEF Init
  <1>2. row \in [Execution -> Row]
    BY <1>1 DEF Row
  <1>3. 0 \in Time /\ 0 \in 0 .. MaxWaits /\ 0 \in 0 .. MaxStepdowns
    BY WaitAssumption DEF Time
  <1>4. WaitTypeOK
    BY <1>2, <1>3 DEF Init, WaitTypeOK, Found
  <1>5. OnlyWaitingHasTime
    BY <1>1 DEF OnlyWaitingHasTime
  <1>6. TimerIsHeld
    BY DEF Init, TimerIsHeld
  <1> QED BY <1>4, <1>5, <1>6 DEF IInv

(* The invariant holds in every reachable state. *)
LEMMA Invariant == Spec => []IInv
  <1>1. IInv /\ [Next]_vars => IInv'
    BY NextWaitTypeOK, NextTimerIsHeld, NextOnlyWaiting DEF IInv
  <1> QED BY <1>1, InitIInv, PTL DEF Spec

(***************************************************************************)
(* Type correctness of the wait tracker and of the rows it reads.          *)
(***************************************************************************)
THEOREM TypeCorrect == Spec => []WaitTypeOK
  <1>1. IInv => WaitTypeOK
    BY DEF IInv
  <1> QED BY <1>1, Invariant, PTL

(***************************************************************************)
(* A timer that is set can be found by a stop and by a stepdown, except    *)
(* one of a parent, for any number of polls, starts and changes of         *)
(* leadership in flight.                                                   *)
(***************************************************************************)
THEOREM TimersAreHeld == Spec => []TimerIsHeld
  <1>1. IInv => TimerIsHeld
    BY DEF IInv
  <1> QED BY <1>1, Invariant, PTL

-----------------------------------------------------------------------------
(* Stopped executions *)

(* Nothing starts execution e: it does not wait or run, and nothing that   *)
(* would start it is in flight.                                            *)
Quiet(e) == ~InFlight(e) /\ row[e].status \notin {"waiting", "running"}

(* What is not in flight. *)
LEMMA QuietParts ==
    ASSUME WaitTypeOK, NEW e \in Execution, Quiet(e)
    PROVE  /\ e \notin stopping
           /\ row[e].status \notin {"waiting", "running"}
           /\ \A m \in Main :
                 /\ \A t \in timers[m] : t[1] # e
                 /\ finding[m][e] = 0 /\ adding[m][e] = 0 /\ running[m][e] = 0
                 /\ \A n \in 1 .. Len(polls[m]) : polls[m][n][e] = NoTime
  <1>1. \A m \in Main : finding[m][e] = 0 /\ adding[m][e] = 0 /\ running[m][e] = 0
    <2> SUFFICES ASSUME NEW m \in Main
                 PROVE  finding[m][e] = 0 /\ adding[m][e] = 0 /\ running[m][e] = 0
      OBVIOUS
    <2>1. finding[m][e] \in Nat /\ adding[m][e] \in Nat /\ running[m][e] \in Nat
      BY DEF WaitTypeOK
    <2>2. ~(finding[m][e] + adding[m][e] + running[m][e] > 0)
      BY DEF Quiet, InFlight
    <2> QED BY <2>1, <2>2
  <1>2. /\ e \notin stopping
        /\ row[e].status \notin {"waiting", "running"}
        /\ \A m \in Main :
              /\ \A t \in timers[m] : t[1] # e
              /\ \A n \in 1 .. Len(polls[m]) : polls[m][n][e] = NoTime
    BY DEF Quiet, InFlight
  <1> QED BY <1>1, <1>2

(* An execution stays quiet if a step brings nothing of it in flight. *)
LEMMA QuietStays ==
    ASSUME WaitTypeOK, NEW e \in Execution, Quiet(e),
           row'[e] = row[e],
           e \notin stopping',
           \A m \in Main :
               /\ \A t \in timers'[m] : t[1] # e
               /\ finding'[m][e] = finding[m][e]
               /\ adding'[m][e] = adding[m][e]
               /\ running'[m][e] = running[m][e]
               /\ \A n \in 1 .. Len(polls'[m]) : polls'[m][n][e] = NoTime
    PROVE  Quiet(e)'
  <1>1. \A m \in Main : ~(finding'[m][e] + adding'[m][e] + running'[m][e] > 0)
    BY QuietParts
  <1>2. row'[e].status \notin {"waiting", "running"}
    BY DEF Quiet
  <1>3. ~InFlight(e)'
    BY <1>1 DEF InFlight
  <1> QED BY <1>2, <1>3 DEF Quiet

(* A poll finds no execution that neither waits nor runs. *)
LEMMA QuietIsNotFound ==
    ASSUME IInv, NEW e \in Execution, Quiet(e), NEW m \in Main, query(m), NEW k \in Main,
           NEW n \in 1 .. Len(polls'[k])
    PROVE  polls'[k][n][e] = NoTime
  <1>1. found[e] = NoTime
    BY DEF found, IInv, OnlyWaitingHasTime, Quiet
  <1>2. \A i \in 1 .. Len(polls[k]) : polls[k][i][e] = NoTime
    BY QuietParts DEF IInv
  <1>3. polls \in [Main -> Seq(Found)] /\ found \in Found
    BY FoundType DEF IInv, WaitTypeOK
  <1>4. CASE k # m
    <2>1. polls'[k] = polls[k]
      BY <1>3, <1>4 DEF query
    <2> QED BY <1>2, <2>1
  <1>5. CASE k = m
    <2>1. polls'[k] = Append(polls[k], found)
      BY <1>3, <1>5 DEF query
    <2>2. CASE n = Len(polls[k]) + 1
      BY <1>1, <1>3, <2>1, <2>2
    <2>3. CASE n \in 1 .. Len(polls[k])
      BY <1>2, <1>3, <2>1, <2>3
    <2> QED BY <1>3, <2>1, <2>2, <2>3
  <1> QED BY <1>4, <1>5

(***************************************************************************)
(* A family that is quiet stays quiet, and its rows stay as they are: a    *)
(* step of another execution resumes at most its own parent, which is in   *)
(* the family only if that execution is.                                   *)
(***************************************************************************)
LEMMA FamilyStaysQuiet ==
    ASSUME IInv, [Next]_vars, NEW F \in Families, \A c \in F : Quiet(c),
           NEW e \in F
    PROVE  Quiet(e)' /\ row'[e] = row[e]
  <1> USE DEF trackerVars, startVars, bounds
  <1>f. e \in Execution /\ F \subseteq Execution /\ Quiet(e)
    BY DEF Families
  <1>t. WaitTypeOK
    BY DEF IInv
  <1>q. /\ e \notin stopping
        /\ row[e].status \notin {"waiting", "running"}
        /\ \A m \in Main :
              /\ \A t \in timers[m] : t[1] # e
              /\ finding[m][e] = 0 /\ adding[m][e] = 0 /\ running[m][e] = 0
              /\ \A n \in 1 .. Len(polls[m]) : polls[m][n][e] = NoTime
    BY <1>f, <1>t, QuietParts
  <1>y. /\ row \in [Execution -> Row]
        /\ timers \in [Main -> SUBSET (Execution \X Time)]
        /\ finding \in [Main -> [Execution -> Nat]]
        /\ adding \in [Main -> [Execution -> Nat]]
        /\ running \in [Main -> [Execution -> Nat]]
    BY <1>t DEF WaitTypeOK
  <1>1. ASSUME UNCHANGED <<row, stopping, timers, finding, adding, running, polls>>
        PROVE  Quiet(e)' /\ row'[e] = row[e]
    BY <1>1, <1>f, <1>t, <1>q, QuietStays
  <1>2. CASE Tick
    BY <1>1, <1>2 DEF Tick
  <1>3. ASSUME NEW m \in Main, StartTracking(m) \/ Poll(m) PROVE Quiet(e)' /\ row'[e] = row[e]
    <2>1. query(m) /\ UNCHANGED <<row, stopping, timers, finding, adding, running>>
      BY <1>3 DEF StartTracking, Poll
    <2>2. \A k \in Main : \A n \in 1 .. Len(polls'[k]) : polls'[k][n][e] = NoTime
      BY <1>f, <2>1, QuietIsNotFound
    <2> QED BY <1>f, <1>t, <1>q, <2>1, <2>2, QuietStays
  <1>4. ASSUME NEW m \in Main, SetTimers(m) PROVE Quiet(e)' /\ row'[e] = row[e]
    <2> DEFINE result == Head(polls[m])
               fresh == {d \in Execution : result[d] # NoTime /\ waitingExecutions[m][d] = NoTime}
    <2>1. /\ timers' = [timers EXCEPT ![m] = @ \cup {<<d, result[d]>> : d \in fresh}]
          /\ polls' = [polls EXCEPT ![m] = Tail(@)]
          /\ polls[m] # <<>>
          /\ UNCHANGED <<row, stopping, finding, adding, running>>
      BY <1>4 DEF SetTimers
    <2>2. polls \in [Main -> Seq(Found)]
      BY <1>t DEF WaitTypeOK
    <2>3. result[e] = NoTime
      BY <1>q, <2>1, <2>2
    <2>4. e \notin fresh
      BY <2>3
    <2> HIDE DEF result, fresh
    <2>5. \A k \in Main : \A t \in timers'[k] : t[1] # e
      BY <1>q, <1>y, <2>1, <2>4
    <2>6. ASSUME NEW k \in Main, NEW n \in 1 .. Len(polls'[k]) PROVE polls'[k][n][e] = NoTime
      <3>1. CASE k # m
        BY <1>q, <2>1, <2>2, <3>1
      <3>2. CASE k = m
        <4>1. polls[m] \in Seq(Found) /\ polls'[k] = Tail(polls[m])
          BY <2>1, <2>2, <3>2
        <4>2. Len(Tail(polls[m])) = Len(polls[m]) - 1 /\ Len(polls[m]) \in Nat
          BY <2>1, <4>1
        <4>3. n \in 1 .. Len(polls[m]) - 1
          BY <2>6, <4>1, <4>2
        <4>4. n + 1 \in 1 .. Len(polls[m]) /\ Tail(polls[m])[n] = polls[m][n + 1]
          BY <2>1, <4>1, <4>2, <4>3
        <4> QED BY <1>q, <4>1, <4>4
      <3> QED BY <3>1, <3>2
    <2> QED BY <1>f, <1>t, <1>q, <2>1, <2>5, <2>6, QuietStays
  <1>5. ASSUME NEW m \in Main, StopTracking(m) PROVE Quiet(e)' /\ row'[e] = row[e]
    <2>1. \A k \in Main : timers'[k] \subseteq timers[k]
      BY <1>5, <1>y DEF StopTracking
    <2> QED BY <1>5, <1>f, <1>t, <1>q, <2>1, QuietStays DEF StopTracking
  <1>6. ASSUME NEW m \in Main, NEW d \in Execution, NEW due \in Time, TimerFires(m, d, due)
        PROVE  Quiet(e)' /\ row'[e] = row[e]
    <2>1. d # e
      BY <1>6, <1>q DEF TimerFires
    <2>2. /\ \A k \in Main : timers'[k] \subseteq timers[k] /\ finding'[k][e] = finding[k][e]
          /\ UNCHANGED <<row, stopping, adding, running, polls>>
      BY <1>6, <1>f, <1>y, <2>1 DEF TimerFires, startExecution
    <2> QED BY <1>f, <1>t, <1>q, <2>2, QuietStays
  <1>7. ASSUME NEW m \in Main, NEW d \in Execution, FindExecution(m, d)
        PROVE  Quiet(e)' /\ row'[e] = row[e]
    <2>1. d # e
      BY <1>7, <1>q DEF FindExecution
    <2>2. /\ \A k \in Main : finding'[k][e] = finding[k][e] /\ adding'[k][e] = adding[k][e]
          /\ UNCHANGED <<row, stopping, timers, running, polls>>
      BY <1>7, <1>f, <1>y, <2>1 DEF FindExecution
    <2> QED BY <1>f, <1>t, <1>q, <2>2, QuietStays
  <1>8. ASSUME NEW m \in Main, NEW d \in Execution, ExecuteWebhook(m, d)
        PROVE  Quiet(e)' /\ row'[e] = row[e]
    <2>1. d # e
      BY <1>8, <1>q DEF ExecuteWebhook
    <2>2. /\ \A k \in Main : adding'[k][e] = adding[k][e]
          /\ UNCHANGED <<row, stopping, timers, finding, running, polls>>
      BY <1>8, <1>f, <1>y, <2>1 DEF ExecuteWebhook
    <2> QED BY <1>f, <1>t, <1>q, <2>2, QuietStays
  <1>9. ASSUME NEW m \in Main, NEW d \in Execution, Run(m, d)
        PROVE  Quiet(e)' /\ row'[e] = row[e]
    <2>1. d # e
      BY <1>9, <1>q DEF Run
    <2>2. /\ row'[e] = row[e]
          /\ \A k \in Main : adding'[k][e] = adding[k][e] /\ running'[k][e] = running[k][e]
          /\ UNCHANGED <<stopping, timers, finding, polls>>
      BY <1>9, <1>f, <1>y, <2>1 DEF Run
    <2> QED BY <1>f, <1>t, <1>q, <2>2, QuietStays
  <1>10. ASSUME NEW m \in Main, NEW d \in Execution, RunEnds(m, d)
         PROVE  Quiet(e)' /\ row'[e] = row[e]
    <2>1. d \notin F
      <3>1. ASSUME d \in F PROVE FALSE
        BY <1>10, <1>t, <3>1, QuietParts DEF RunEnds
      <3> QED BY <3>1
    <2>2. Parent[d] # e
      BY <2>1 DEF Families
    <2>3. \A k \in Main : finding'[k][e] = finding[k][e]
      <3>1. finding' = finding \/ finding' = [finding EXCEPT ![m][Parent[d]] = @ + 1]
        BY <1>10 DEF RunEnds, resumeParent, startExecution
      <3>2. CASE finding' = finding
        BY <3>2
      <3>3. CASE finding' = [finding EXCEPT ![m][Parent[d]] = @ + 1]
        BY <1>f, <1>y, <2>2, <3>3
      <3> QED BY <3>1, <3>2, <3>3
    <2>4. /\ \A k \in Main : running'[k][e] = running[k][e]
          /\ UNCHANGED <<stopping, timers, adding, polls>>
      BY <1>10, <1>f, <1>y, <2>1 DEF RunEnds
    <2>5. PICK r : row' = [row EXCEPT ![d] = r]
      BY <1>10 DEF RunEnds
    <2>6. row'[e] = row[e]
      BY <1>f, <1>y, <2>1, <2>5
    <2> QED BY <1>f, <1>t, <1>q, <2>3, <2>4, <2>6, QuietStays
  <1>11. ASSUME NEW m \in Main, NEW d \in Execution, Stop(m, d)
         PROVE  Quiet(e)' /\ row'[e] = row[e]
    <2>1. d # e
      BY <1>11, <1>q DEF Stop
    <2>2. /\ e \notin stopping'
          /\ \A k \in Main : running'[k][e] = running[k][e] /\ timers'[k] \subseteq timers[k]
          /\ UNCHANGED <<row, finding, adding, polls>>
      BY <1>11, <1>f, <1>q, <1>y, <2>1 DEF Stop
    <2> QED BY <1>f, <1>t, <1>q, <2>2, QuietStays
  <1>12. ASSUME NEW d \in Execution, StopWritten(d) PROVE Quiet(e)' /\ row'[e] = row[e]
    <2>1. d # e
      BY <1>12, <1>q DEF StopWritten
    <2>2. /\ e \notin stopping'
          /\ row'[e] = row[e]
          /\ UNCHANGED <<timers, finding, adding, running, polls>>
      BY <1>12, <1>f, <1>q, <1>y, <2>1 DEF StopWritten
    <2> QED BY <1>f, <1>t, <1>q, <2>2, QuietStays
  <1>13. CASE UNCHANGED vars
    BY <1>1, <1>13 DEF vars
  <1> QED
    BY <1>2, <1>3, <1>4, <1>5, <1>6, <1>7, <1>8, <1>9, <1>10, <1>11, <1>12, <1>13, <1>t,
       DeployedIsMain DEF Next

(***************************************************************************)
(* A stopped execution stays stopped: no poll, timer, webhook call, end of *)
(* a sub-execution of any depth or change of leadership starts it again.   *)
(***************************************************************************)
THEOREM StoppedStays == Spec => StoppedForGood
  <1>1. ASSUME IInv, [Next]_vars PROVE [\A e \in Execution : Stopped(e) => Stopped(e)']_vars
    <2> SUFFICES ASSUME NEW e \in Execution, Stopped(e) PROVE Stopped(e)'
      OBVIOUS
    <2>1. PICK F \in Families : e \in F /\ \A c \in F : Quiet(c)
      BY DEF Stopped, Quiet
    <2>2. \A c \in F : Quiet(c)' /\ row'[c] = row[c]
      BY <1>1, <2>1, FamilyStaysQuiet
    <2>3. row'[e].status = "canceled"
      BY <2>1, <2>2 DEF Stopped
    <2> QED BY <2>1, <2>2, <2>3 DEF Stopped, Quiet, Families
  <1> QED BY <1>1, Invariant, PTL DEF Spec, StoppedForGood

=============================================================================
