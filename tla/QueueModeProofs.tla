-------------------------- MODULE QueueModeProofs --------------------------
(***************************************************************************)
(* Proofs about QueueMode, for any number of executions, workers, stop     *)
(* requests, cycles of queue recovery and faults.                          *)
(*                                                                         *)
(* The argument: as long as no live worker loses a lock, a run belongs to  *)
(* the worker that holds the lock of the job, or its job was cancelled by  *)
(* stopJob (RunHasLock); whoever is reached by a stop has no entry any     *)
(* more (KilledIsGone); and a job that has ended stays as it is, so that   *)
(* nobody but the main process writes the row of an execution whose end it *)
(* has heard of.                                                           *)
(***************************************************************************)
EXTENDS QueueMode, TLAPS

(* A job is added after the entry is there, and once. *)
JobIsAdded(e) == main[e] \in {"idle", "admitted"} => job[e] = "none"

(* A run that has not returned holds the lock of its job, or the job was   *)
(* moved to failed by stopJob.                                             *)
RunHasLock(e) ==
    lockLosses = 0 =>
        \A w \in Worker :
            run[w][e] \notin {"idle", "writing"} => holder[e] = w \/ job[e] = "cancelled"

(* The job of an execution is stopped only after its entry has gone. *)
Killed(e) ==
    \/ kill[e] # "none"
    \/ job[e] = "cancelled"
    \/ \E w \in Worker : <<w, e>> \in aborts \/ run[w][e] \in {"cancelling", "writing"}

KilledIsGone(e) == Killed(e) => e \notin active /\ main[e] # "idle"

(* What job.finished has told the main process is still so. *)
SettledStays(e) ==
    /\ main[e] \in {"checking", "erring"} => job[e] = "failed"
    /\ main[e] = "fetching" => job[e] \in {"completed", "failed", "cancelled"}

(* A worker saves the outcome of a run before it returns. *)
OutcomeIsSaved(e) ==
    (lockLosses = 0 /\ e \in active) =>
        ((job[e] = "completed" \/ \E w \in Worker : run[w][e] \in {"saved", "completing"})
             => row[e] \notin InProgress)

(* The rows that the main process reads and writes once a job has ended    *)
(* (SettledMeansEnded and SuccessIsNotFailed for one execution).           *)
RowIsRight(e) ==
    lockLosses = 0 =>
        /\ main[e] = "fetching" /\ e \in active => row[e] \notin InProgress
        /\ main[e] = "erring" => row[e] # "success"

ExecutionInv(e) ==
    /\ JobIsAdded(e) /\ RunHasLock(e) /\ KilledIsGone(e)
    /\ SettledStays(e) /\ OutcomeIsSaved(e) /\ RowIsRight(e)

(* An execution that queue recovery saw in the queue has had its job       *)
(* added, and a job that left the queue is never put back.                 *)
RecoveryInv ==
    /\ \A e \in recovery.since : job[e] # "none"
    /\ QueuedIsNotCrashed

QueueInv == RecoveryInv /\ \A e \in Execution : ExecutionInv(e)

-----------------------------------------------------------------------------
(* Types *)

(* The bounds of a deployment are numbers. *)
LEMMA DeploymentBounds ==
    ASSUME TypeOK
    PROVE  /\ deployment.MaxFaults \in Nat
           /\ deployment.MaxStops \in Nat
           /\ deployment.MaxRecoveries \in Nat
           /\ faults \in Nat
           /\ lockLosses \in Nat
  <1>1. deployment \in [executions : SUBSET Execution, workers : SUBSET Worker,
                        MaxFaults : Nat, MaxStops : Nat, MaxRecoveries : Nat]
    BY ConstantsAssumption DEF TypeOK
  <1> HIDE DEF TypeOK
  <1>2. /\ deployment.MaxFaults \in Nat
        /\ deployment.MaxStops \in Nat
        /\ deployment.MaxRecoveries \in Nat
    BY <1>1
  <1>3. faults \in 0 .. deployment.MaxFaults /\ lockLosses \in 0 .. faults
    BY DEF TypeOK
  <1> QED BY <1>2, <1>3

(* A fault stays within its bound. *)
LEMMA FaultCounted ==
    ASSUME TypeOK, Fault, deployment' = deployment
    PROVE  /\ faults' \in 0 .. deployment'.MaxFaults
           /\ lockLosses \in 0 .. faults'
           /\ lockLosses + 1 \in 0 .. faults'
  <1>1. faults' = faults + 1 /\ faults < deployment.MaxFaults /\ lockLosses \in 0 .. faults
    BY DEF Fault, TypeOK
  <1> QED BY <1>1, DeploymentBounds

(***************************************************************************)
(* Every step of the main process, of a stop request, of queue recovery,   *)
(* of a worker and of Bull keeps the types.                                *)
(***************************************************************************)
LEMMA NextTypeOK == TypeOK /\ QueueInv /\ [Next]_vars => TypeOK'
  <1> SUFFICES ASSUME TypeOK, QueueInv, [Next]_vars PROVE TypeOK'
    OBVIOUS
  <1> USE DEF rowVars, bullVars, requestVars, mainVars, recoveryVars, workerVars, faultVars
  <1>b. /\ deployment.MaxFaults \in Nat
        /\ deployment.MaxStops \in Nat
        /\ deployment.MaxRecoveries \in Nat
        /\ faults \in Nat
        /\ lockLosses \in Nat
        /\ MaxStalledCount \in Nat
        /\ NoWorker \notin Worker
    BY DeploymentBounds, ConstantsAssumption
  <1>1. ASSUME NEW e \in Execution, Add(e), deployment' = deployment PROVE TypeOK'
    BY <1>b, <1>1
       DEF Add, MainGoesTo, TypeOK, RowStatus, InProgress, JobState, Queued, MainStep,
           RunStep
  <1>2. ASSUME NEW e \in Execution, Refuse(e), deployment' = deployment PROVE TypeOK'
    BY <1>b, <1>2
       DEF Refuse, MainGoesTo, update, finalizeExecution, TypeOK, RowStatus, InProgress,
           JobState, Queued, MainStep, RunStep
  <1>3. ASSUME NEW e \in Execution, AddJob(e), deployment' = deployment PROVE TypeOK'
    <2>1. holder[e] = NoWorker
      BY <1>3 DEF AddJob, QueueInv, ExecutionInv, JobIsAdded, TypeOK
    <2> QED BY <1>b, <1>3, <2>1
               DEF AddJob, MainGoesTo, addJob, TypeOK, RowStatus, InProgress, JobState,
                   Queued, MainStep, RunStep
  <1>4. ASSUME NEW e \in Execution, AwaitJob(e), deployment' = deployment PROVE TypeOK'
    BY <1>b, <1>4
       DEF AwaitJob, MainGoesTo, TypeOK, RowStatus, InProgress, JobState, Queued,
           MainStep, RunStep
  <1>5. ASSUME NEW e \in Execution, JobFinished(e), deployment' = deployment PROVE TypeOK'
    BY <1>b, <1>5
       DEF JobFinished, MainGoesTo, TypeOK, RowStatus, InProgress, JobState, Queued,
           MainStep, RunStep
  <1>6. ASSUME NEW e \in Execution, ProcessError(e), deployment' = deployment PROVE TypeOK'
    BY <1>b, <1>6
       DEF ProcessError, MainGoesTo, finalizeExecution, sanityRun, TypeOK, RowStatus,
           InProgress, JobState, Queued, MainStep, RunStep
  <1>7. ASSUME NEW e \in Execution, SaveError(e), deployment' = deployment PROVE TypeOK'
    BY <1>b, <1>7
       DEF SaveError, MainGoesTo, update, TypeOK, RowStatus, InProgress, JobState, Queued,
           MainStep, RunStep
  <1>8. ASSUME NEW e \in Execution, Fetch(e), deployment' = deployment PROVE TypeOK'
    BY <1>b, <1>8
       DEF Fetch, MainGoesTo, finalizeExecution, TypeOK, RowStatus, InProgress, JobState,
           Queued, MainStep, RunStep
  <1>9. ASSUME NEW e \in Execution, Discard(e), deployment' = deployment PROVE TypeOK'
    BY <1>b, <1>9
       DEF Discard, MainGoesTo, update, TypeOK, RowStatus, InProgress, JobState, Queued,
           MainStep, RunStep
  <1>10. ASSUME NEW e \in Execution, Stop(e), deployment' = deployment PROVE TypeOK'
    BY <1>b, <1>10
       DEF Stop, TypeOK, RowStatus, InProgress, JobState, Queued, MainStep, RunStep
  <1>11. ASSUME NEW e \in Execution, StopExecution(e), deployment' = deployment PROVE TypeOK'
    BY <1>b, <1>11
       DEF StopExecution, stopExecution, TypeOK, RowStatus, InProgress, JobState, Queued,
           MainStep, RunStep
  <1>12. ASSUME NEW e \in Execution, StopDuringRun(e), deployment' = deployment PROVE TypeOK'
    BY <1>b, <1>12
       DEF StopDuringRun, update, TypeOK, RowStatus, InProgress, JobState, Queued,
           MainStep, RunStep
  <1>13. ASSUME NEW e \in Execution, StopJob(e), deployment' = deployment PROVE TypeOK'
    BY <1>b, <1>13
       DEF StopJob, KillGoesTo, TypeOK, RowStatus, InProgress, JobState, Queued, MainStep,
           RunStep
  <1>14. ASSUME NEW e \in Execution, AbortJob(e), deployment' = deployment PROVE TypeOK'
    BY <1>b, <1>14
       DEF AbortJob, KillGoesTo, TypeOK, RowStatus, InProgress, JobState, Queued,
           MainStep, RunStep
  <1>15. ASSUME NEW e \in Execution, MoveToFailed(e), deployment' = deployment PROVE TypeOK'
    <2>1. kill' \in [Execution -> {"none", "asking", "aborting", "failing", "removing"}]
      BY <1>15 DEF MoveToFailed, KillGoesTo, TypeOK
    <2>2. /\ job' \in [Execution -> JobState]
          /\ holder' \in [Execution -> Worker \cup {NoWorker}]
          /\ \A d \in Execution : holder'[d] # NoWorker => job'[d] = "active"
      <3>1. CASE job[e] = "active"
        <4>1. /\ job' = [job EXCEPT ![e] = "cancelled"]
              /\ holder' = [holder EXCEPT ![e] = NoWorker]
              /\ "cancelled" \in JobState
          BY <1>15, <3>1 DEF MoveToFailed, JobState
        <4> QED BY <4>1 DEF TypeOK
      <3>2. CASE job[e] # "active"
        BY <1>15, <3>2 DEF MoveToFailed, TypeOK
      <3> QED BY <3>1, <3>2
    <2> QED BY <1>15, <2>1, <2>2 DEF MoveToFailed, TypeOK
  <1>16. ASSUME NEW e \in Execution, RemoveJob(e), deployment' = deployment PROVE TypeOK'
    BY <1>b, <1>16
       DEF RemoveJob, KillGoesTo, TypeOK, RowStatus, InProgress, JobState, Queued,
           MainStep, RunStep
  <1>17. ASSUME NEW e \in Execution, Stall(e), deployment' = deployment PROVE TypeOK'
    <2>1. stalls' \in [Execution -> 0 .. MaxStalledCount]
      <3>1. CASE stalls[e] < MaxStalledCount
        <4>1. stalls[e] + 1 \in 0 .. MaxStalledCount
          BY <1>b, <3>1 DEF TypeOK
        <4> QED BY <1>17, <3>1, <4>1 DEF Stall, TypeOK
      <3>2. CASE ~(stalls[e] < MaxStalledCount)
        BY <1>17, <3>2 DEF Stall, TypeOK
      <3> QED BY <3>1, <3>2
    <2>2. /\ job' \in [Execution -> JobState]
          /\ \A d \in Execution : holder[d] # NoWorker => job'[d] = "active"
      BY <1>17 DEF Stall, TypeOK, JobState, Queued
    <2> QED BY <1>17, <2>1, <2>2 DEF Stall, TypeOK
  <1>18. ASSUME NEW w \in Worker, NEW e \in Execution, Take(w, e), deployment' = deployment
        PROVE  TypeOK'
    BY <1>b, <1>18
       DEF Take, RunGoesTo, TypeOK, RowStatus, InProgress, JobState, Queued, MainStep,
           RunStep
  <1>19. ASSUME NEW w \in Worker, NEW e \in Execution, Load(w, e), deployment' = deployment
        PROVE  TypeOK'
    BY <1>b, <1>19
       DEF Load, RunGoesTo, TypeOK, RowStatus, InProgress, JobState, Queued, MainStep,
           RunStep
  <1>20. ASSUME NEW w \in Worker, NEW e \in Execution, SetRunning(w, e), deployment' = deployment
        PROVE  TypeOK'
    BY <1>b, <1>20
       DEF SetRunning, RunGoesTo, update, TypeOK, RowStatus, InProgress, JobState, Queued,
           MainStep, RunStep
  <1>21. ASSUME NEW w \in Worker, NEW e \in Execution, StartRun(w, e), deployment' = deployment
        PROVE  TypeOK'
    <2>1. run' \in [Worker -> [Execution -> RunStep]]
      <3>1. PICK step \in RunStep : RunGoesTo(w, e, step)
        BY <1>21 DEF StartRun, RunStep
      <3> QED BY <3>1 DEF RunGoesTo, TypeOK
    <2>2. row' \in [Execution -> RowStatus]
      BY <1>21 DEF StartRun, update, TypeOK, RowStatus, InProgress
    <2> QED BY <1>21, <2>1, <2>2 DEF StartRun, TypeOK
  <1>22. ASSUME NEW w \in Worker, NEW e \in Execution, FinishRun(w, e), deployment' = deployment
        PROVE  TypeOK'
    BY <1>b, <1>22
       DEF FinishRun, RunGoesTo, update, TypeOK, RowStatus, InProgress, JobState, Queued,
           MainStep, RunStep
  <1>23. ASSUME NEW w \in Worker, NEW e \in Execution, Return(w, e), deployment' = deployment
        PROVE  TypeOK'
    <2>1. run' \in [Worker -> [Execution -> RunStep]]
      <3>1. PICK step \in RunStep : RunGoesTo(w, e, step)
        BY <1>23 DEF Return, RunStep
      <3> QED BY <3>1 DEF RunGoesTo, TypeOK
    <2>2. /\ job' \in [Execution -> JobState]
          /\ holder' \in [Execution -> Worker \cup {NoWorker}]
          /\ \A d \in Execution : holder'[d] # NoWorker => job'[d] = "active"
      <3>1. settle(w, e, "completed") /\ "completed" \in JobState
        BY <1>23 DEF Return, JobState
      <3>2. CASE holder[e] = w
        <4>1. /\ job' = [job EXCEPT ![e] = "completed"]
              /\ holder' = [holder EXCEPT ![e] = NoWorker]
          BY <3>1, <3>2 DEF settle
        <4> QED BY <3>1, <4>1 DEF TypeOK
      <3>3. CASE holder[e] # w
        BY <3>1, <3>3 DEF settle, TypeOK
      <3> QED BY <3>2, <3>3
    <2> QED BY <1>23, <2>1, <2>2 DEF Return, TypeOK
  <1>24. ASSUME NEW w \in Worker, NEW e \in Execution, Throw(w, e), deployment' = deployment
        PROVE  TypeOK'
    <2>1. run' \in [Worker -> [Execution -> RunStep]]
      BY <1>24 DEF Throw, RunGoesTo, TypeOK, RunStep
    <2>2. /\ job' \in [Execution -> JobState]
          /\ holder' \in [Execution -> Worker \cup {NoWorker}]
          /\ \A d \in Execution : holder'[d] # NoWorker => job'[d] = "active"
      <3>1. settle(w, e, "failed") /\ "failed" \in JobState
        BY <1>24 DEF Throw, JobState
      <3>2. CASE holder[e] = w
        <4>1. /\ job' = [job EXCEPT ![e] = "failed"]
              /\ holder' = [holder EXCEPT ![e] = NoWorker]
          BY <3>1, <3>2 DEF settle
        <4> QED BY <3>1, <4>1 DEF TypeOK
      <3>3. CASE holder[e] # w
        BY <3>1, <3>3 DEF settle, TypeOK
      <3> QED BY <3>2, <3>3
    <2> QED BY <1>24, <2>1, <2>2 DEF Throw, TypeOK
  <1>25. ASSUME NEW w \in Worker, NEW e \in Execution, ReceiveAbort(w, e), deployment' = deployment
        PROVE  TypeOK'
    BY <1>b, <1>25
       DEF ReceiveAbort, TypeOK, RowStatus, InProgress, JobState, Queued, MainStep,
           RunStep
  <1>26. ASSUME NEW w \in Worker, NEW e \in Execution, SaveCanceled(w, e), deployment' = deployment
        PROVE  TypeOK'
    BY <1>b, <1>26
       DEF SaveCanceled, RunGoesTo, update, TypeOK, RowStatus, InProgress, JobState,
           Queued, MainStep, RunStep
  <1>27. ASSUME NEW e \in Execution, EnqueueFails(e), deployment' = deployment PROVE TypeOK'
    <2>1. /\ faults' \in 0 .. deployment'.MaxFaults
          /\ lockLosses' \in 0 .. faults'
      BY <1>27, FaultCounted DEF EnqueueFails
    <2> QED BY <1>b, <1>27, <2>1
               DEF EnqueueFails, MainGoesTo, TypeOK, RowStatus, InProgress, JobState,
                   Queued, MainStep, RunStep
  <1>28. ASSUME NEW e \in Execution, LoseLock(e), deployment' = deployment PROVE TypeOK'
    <2>1. /\ faults' \in 0 .. deployment'.MaxFaults
          /\ lockLosses' \in 0 .. faults'
      BY <1>28, FaultCounted DEF LoseLock
    <2> QED BY <1>b, <1>28, <2>1
               DEF LoseLock, TypeOK, RowStatus, InProgress, JobState, Queued, MainStep,
                   RunStep
  <1>29. ASSUME NEW w \in Worker, Crash(w), deployment' = deployment PROVE TypeOK'
    <2>1. /\ faults' \in 0 .. deployment'.MaxFaults
          /\ lockLosses' \in 0 .. faults'
      BY <1>29, FaultCounted DEF Crash
    <2> QED BY <1>b, <1>29, <2>1
               DEF Crash, end, TypeOK, RowStatus, InProgress, JobState, Queued, MainStep,
                   RunStep
  <1>30. ASSUME NEW w \in Worker, PauseQueue(w), deployment' = deployment PROVE TypeOK'
    <2>1. /\ faults' \in 0 .. deployment'.MaxFaults
          /\ lockLosses' \in 0 .. faults'
      BY <1>30, FaultCounted DEF PauseQueue
    <2> QED BY <1>b, <1>30, <2>1
               DEF PauseQueue, TypeOK, RowStatus, InProgress, JobState, Queued, MainStep,
                   RunStep
  <1>31. ASSUME NEW w \in Worker, Exit(w), deployment' = deployment PROVE TypeOK'
    BY <1>b, <1>31
       DEF Exit, end, TypeOK, RowStatus, InProgress, JobState, Queued, MainStep, RunStep
  <1>32. ASSUME NEW w \in Worker, RestartWorker(w), deployment' = deployment PROVE TypeOK'
    BY <1>b, <1>32
       DEF RestartWorker, TypeOK, RowStatus, InProgress, JobState, Queued, MainStep,
           RunStep
  <1>33. ASSUME RecoverFromQueue, deployment' = deployment PROVE TypeOK'
    BY <1>b, <1>33
       DEF RecoverFromQueue, kSubset, TypeOK, RowStatus, InProgress, JobState, Queued,
           MainStep, RunStep
  <1>34. ASSUME FindDangling, deployment' = deployment PROVE TypeOK'
    BY <1>b, <1>34
       DEF FindDangling, queuedIds, NoRecovery, TypeOK, RowStatus, InProgress, JobState,
           Queued, MainStep, RunStep
  <1>35. ASSUME MarkAsCrashed, deployment' = deployment PROVE TypeOK'
    BY <1>b, <1>35
       DEF MarkAsCrashed, NoRecovery, TypeOK, RowStatus, InProgress, JobState, Queued,
           MainStep, RunStep
  <1>36. ASSUME RestartMain, deployment' = deployment PROVE TypeOK'
    <2>1. /\ faults' \in 0 .. deployment'.MaxFaults
          /\ lockLosses' \in 0 .. faults'
      BY <1>36, FaultCounted DEF RestartMain
    <2> QED BY <1>b, <1>36, <2>1
               DEF RestartMain, NoRecovery, TypeOK, RowStatus, InProgress, JobState,
                   Queued, MainStep, RunStep
  <1>37. CASE UNCHANGED vars
    BY <1>37 DEF vars, TypeOK, RowStatus, InProgress, JobState, Queued, MainStep, RunStep
  <1> HIDE DEF rowVars, bullVars, requestVars, mainVars, recoveryVars, workerVars, faultVars
  <1> QED
    BY <1>1, <1>2, <1>3, <1>4, <1>5, <1>6, <1>7, <1>8, <1>9, <1>10, <1>11, <1>12, <1>13,
       <1>14, <1>15, <1>16, <1>17, <1>18, <1>19, <1>20, <1>21, <1>22, <1>23, <1>24, <1>25,
       <1>26, <1>27, <1>28, <1>29, <1>30, <1>31, <1>32, <1>33, <1>34, <1>35, <1>36, <1>37
       DEF Next, Steps, RunnerSteps, StopSteps, WorkerSteps

-----------------------------------------------------------------------------
(* The invariant *)

(* A step leaves execution d alone. *)
Same(d) ==
    /\ row'[d] = row[d] /\ job'[d] = job[d] /\ holder'[d] = holder[d]
    /\ main'[d] = main[d] /\ kill'[d] = kill[d]
    /\ d \in active' <=> d \in active
    /\ \A w \in Worker : run'[w][d] = run[w][d] /\ (<<w, d>> \in aborts' <=> <<w, d>> \in aborts)

LEMMA SameKeeps ==
    ASSUME NEW d \in Execution, ExecutionInv(d), Same(d), lockLosses' = 0 => lockLosses = 0
    PROVE  ExecutionInv(d)'
  BY DEF ExecutionInv, JobIsAdded, RunHasLock, KilledIsGone, Killed, SettledStays,
         OutcomeIsSaved, RowIsRight, Same

(* How the job of an execution may move: it is added once, and leaves the  *)
(* queue for good.                                                         *)
JobMoves(d) ==
    \/ job'[d] = job[d]
    \/ job[d] = "none" /\ job'[d] \in Queued
    \/ job[d] \in Queued /\ job'[d] # "none"

LEMMA RecoveryKeeps ==
    ASSUME TypeOK, RecoveryInv, recovery' = recovery, \A d \in Execution : JobMoves(d)
    PROVE  RecoveryInv'
  <1>1. recovery.since \subseteq Execution
    BY DEF TypeOK
  <1> QED BY <1>1 DEF RecoveryInv, QueuedIsNotCrashed, JobMoves, Queued

(* A step on one execution: only that one has to be looked at. *)
LEMMA OneExecution ==
    ASSUME TypeOK, QueueInv, NEW e \in Execution, ExecutionInv(e)', JobMoves(e),
           recovery' = recovery, lockLosses' = 0 => lockLosses = 0,
           \A d \in Execution \ {e} : Same(d)
    PROVE  QueueInv'
  <1>1. \A d \in Execution : JobMoves(d)
    BY DEF Same, JobMoves
  <1>2. \A d \in Execution \ {e} : ExecutionInv(d)'
    BY SameKeeps DEF QueueInv
  <1> QED BY <1>1, <1>2, RecoveryKeeps DEF QueueInv

(* Every step keeps it. *)
LEMMA NextQueueInv == TypeOK /\ QueueInv /\ [Next]_vars => QueueInv'
  <1> SUFFICES ASSUME TypeOK, QueueInv, [Next]_vars PROVE QueueInv'
    OBVIOUS
  <1> USE DEF rowVars, bullVars, requestVars, mainVars, recoveryVars, workerVars, faultVars
  <1>t. /\ row \in [Execution -> RowStatus] /\ job \in [Execution -> JobState]
        /\ holder \in [Execution -> Worker \cup {NoWorker}]
        /\ active \subseteq Execution
        /\ main \in [Execution -> MainStep]
        /\ kill \in [Execution -> {"none", "asking", "aborting", "failing", "removing"}]
        /\ run \in [Worker -> [Execution -> RunStep]]
        /\ aborts \subseteq Worker \X Execution
    BY DEF TypeOK
  <1>e. ASSUME NEW e \in Execution
        PROVE  /\ ExecutionInv(e)
               /\ holder[e] # NoWorker => job[e] = "active"
               /\ NoWorker \notin Worker
    BY ConstantsAssumption DEF QueueInv, TypeOK
  <1>1. ASSUME NEW e \in Execution, Add(e) PROVE QueueInv'
    <2>1. recovery' = recovery /\ lockLosses' = lockLosses /\ JobMoves(e)
      BY <1>t, <1>e, <1>1 DEF Add, MainGoesTo, JobMoves, Queued
    <2>2. \A d \in Execution \ {e} : Same(d)
      BY <1>t, <1>1 DEF Add, MainGoesTo, Same
    <2>3. ExecutionInv(e)'
      BY <1>t, <1>e, <1>1
         DEF Add, MainGoesTo, ExecutionInv, JobIsAdded, RunHasLock, KilledIsGone, Killed,
             SettledStays, OutcomeIsSaved, RowIsRight, InProgress
    <2> QED BY <2>1, <2>2, <2>3, OneExecution
  <1>2. ASSUME NEW e \in Execution, Refuse(e) PROVE QueueInv'
    <2>1. recovery' = recovery /\ lockLosses' = lockLosses /\ JobMoves(e)
      BY <1>t, <1>e, <1>2
         DEF Refuse, MainGoesTo, update, finalizeExecution, JobMoves, Queued
    <2>2. \A d \in Execution \ {e} : Same(d)
      BY <1>t, <1>2 DEF Refuse, MainGoesTo, update, finalizeExecution, Same
    <2>3. ExecutionInv(e)'
      BY <1>t, <1>e, <1>2
         DEF Refuse, MainGoesTo, update, finalizeExecution, ExecutionInv, JobIsAdded,
             RunHasLock, KilledIsGone, Killed, SettledStays, OutcomeIsSaved, RowIsRight,
             InProgress
    <2> QED BY <2>1, <2>2, <2>3, OneExecution
  <1>3. ASSUME NEW e \in Execution, AddJob(e) PROVE QueueInv'
    <2>1. recovery' = recovery /\ lockLosses' = lockLosses /\ JobMoves(e)
      BY <1>t, <1>e, <1>3
         DEF AddJob, MainGoesTo, addJob, JobMoves, Queued, ExecutionInv, JobIsAdded
    <2>2. \A d \in Execution \ {e} : Same(d)
      BY <1>t, <1>3 DEF AddJob, MainGoesTo, addJob, Same
    <2>3. ExecutionInv(e)'
      BY <1>t, <1>e, <1>3
         DEF AddJob, MainGoesTo, addJob, ExecutionInv, JobIsAdded, RunHasLock,
             KilledIsGone, Killed, SettledStays, OutcomeIsSaved, RowIsRight, InProgress
    <2> QED BY <2>1, <2>2, <2>3, OneExecution
  <1>4. ASSUME NEW e \in Execution, AwaitJob(e) PROVE QueueInv'
    <2>1. recovery' = recovery /\ lockLosses' = lockLosses /\ JobMoves(e)
      BY <1>t, <1>e, <1>4 DEF AwaitJob, MainGoesTo, JobMoves, Queued
    <2>2. \A d \in Execution \ {e} : Same(d)
      BY <1>t, <1>4 DEF AwaitJob, MainGoesTo, Same
    <2>3. ExecutionInv(e)'
      BY <1>t, <1>e, <1>4
         DEF AwaitJob, MainGoesTo, ExecutionInv, JobIsAdded, RunHasLock, KilledIsGone,
             Killed, SettledStays, OutcomeIsSaved, RowIsRight, InProgress
    <2> QED BY <2>1, <2>2, <2>3, OneExecution
  <1>5. ASSUME NEW e \in Execution, JobFinished(e) PROVE QueueInv'
    <2>1. recovery' = recovery /\ lockLosses' = lockLosses /\ JobMoves(e)
      BY <1>t, <1>e, <1>5 DEF JobFinished, MainGoesTo, JobMoves, Queued
    <2>2. \A d \in Execution \ {e} : Same(d)
      BY <1>t, <1>5 DEF JobFinished, MainGoesTo, Same
    <2>3. ExecutionInv(e)'
      BY <1>t, <1>e, <1>5
         DEF JobFinished, MainGoesTo, ExecutionInv, JobIsAdded, RunHasLock, KilledIsGone,
             Killed, SettledStays, OutcomeIsSaved, RowIsRight, InProgress
    <2> QED BY <2>1, <2>2, <2>3, OneExecution
  <1>6. ASSUME NEW e \in Execution, ProcessError(e) PROVE QueueInv'
    <2>1. recovery' = recovery /\ lockLosses' = lockLosses /\ JobMoves(e)
      BY <1>t, <1>e, <1>6
         DEF ProcessError, MainGoesTo, finalizeExecution, sanityRun, JobMoves, Queued
    <2>2. \A d \in Execution \ {e} : Same(d)
      BY <1>t, <1>6 DEF ProcessError, MainGoesTo, finalizeExecution, sanityRun, Same
    <2>3. ExecutionInv(e)'
      BY <1>t, <1>e, <1>6
         DEF ProcessError, MainGoesTo, finalizeExecution, sanityRun, ExecutionInv,
             JobIsAdded, RunHasLock, KilledIsGone, Killed, SettledStays, OutcomeIsSaved,
             RowIsRight, InProgress
    <2> QED BY <2>1, <2>2, <2>3, OneExecution
  <1>7. ASSUME NEW e \in Execution, SaveError(e) PROVE QueueInv'
    <2>1. recovery' = recovery /\ lockLosses' = lockLosses /\ JobMoves(e)
      BY <1>t, <1>e, <1>7 DEF SaveError, MainGoesTo, update, JobMoves, Queued
    <2>2. \A d \in Execution \ {e} : Same(d)
      BY <1>t, <1>7 DEF SaveError, MainGoesTo, update, Same
    <2>3. ExecutionInv(e)'
      BY <1>t, <1>e, <1>7
         DEF SaveError, MainGoesTo, update, ExecutionInv, JobIsAdded, RunHasLock,
             KilledIsGone, Killed, SettledStays, OutcomeIsSaved, RowIsRight, InProgress
    <2> QED BY <2>1, <2>2, <2>3, OneExecution
  <1>8. ASSUME NEW e \in Execution, Fetch(e) PROVE QueueInv'
    <2>1. recovery' = recovery /\ lockLosses' = lockLosses /\ JobMoves(e)
      BY <1>t, <1>e, <1>8 DEF Fetch, MainGoesTo, finalizeExecution, JobMoves, Queued
    <2>2. \A d \in Execution \ {e} : Same(d)
      BY <1>t, <1>8 DEF Fetch, MainGoesTo, finalizeExecution, Same
    <2>3. ExecutionInv(e)'
      BY <1>t, <1>e, <1>8
         DEF Fetch, MainGoesTo, finalizeExecution, ExecutionInv, JobIsAdded, RunHasLock,
             KilledIsGone, Killed, SettledStays, OutcomeIsSaved, RowIsRight, InProgress
    <2> QED BY <2>1, <2>2, <2>3, OneExecution
  <1>9. ASSUME NEW e \in Execution, Discard(e) PROVE QueueInv'
    <2>1. recovery' = recovery /\ lockLosses' = lockLosses /\ JobMoves(e)
      BY <1>t, <1>e, <1>9 DEF Discard, MainGoesTo, update, JobMoves, Queued
    <2>2. \A d \in Execution \ {e} : Same(d)
      BY <1>t, <1>9 DEF Discard, MainGoesTo, update, Same
    <2>3. ExecutionInv(e)'
      BY <1>t, <1>e, <1>9
         DEF Discard, MainGoesTo, update, ExecutionInv, JobIsAdded, RunHasLock,
             KilledIsGone, Killed, SettledStays, OutcomeIsSaved, RowIsRight, InProgress
    <2> QED BY <2>1, <2>2, <2>3, OneExecution
  <1>10. ASSUME NEW e \in Execution, Stop(e) PROVE QueueInv'
    <2>1. recovery' = recovery /\ lockLosses' = lockLosses /\ JobMoves(e)
      BY <1>t, <1>e, <1>10 DEF Stop, JobMoves, Queued
    <2>2. \A d \in Execution \ {e} : Same(d)
      BY <1>t, <1>10 DEF Stop, Same
    <2>3. ExecutionInv(e)'
      BY <1>t, <1>e, <1>10
         DEF Stop, ExecutionInv, JobIsAdded, RunHasLock, KilledIsGone, Killed,
             SettledStays, OutcomeIsSaved, RowIsRight, InProgress
    <2> QED BY <2>1, <2>2, <2>3, OneExecution
  <1>11. ASSUME NEW e \in Execution, StopExecution(e) PROVE QueueInv'
    <2>1. recovery' = recovery /\ lockLosses' = lockLosses /\ JobMoves(e)
      BY <1>t, <1>e, <1>11 DEF StopExecution, stopExecution, JobMoves, Queued
    <2>2. \A d \in Execution \ {e} : Same(d)
      BY <1>t, <1>11 DEF StopExecution, stopExecution, Same
    <2>3. ExecutionInv(e)'
      BY <1>t, <1>e, <1>11
         DEF StopExecution, stopExecution, ExecutionInv, JobIsAdded, RunHasLock,
             KilledIsGone, Killed, SettledStays, OutcomeIsSaved, RowIsRight, InProgress
    <2> QED BY <2>1, <2>2, <2>3, OneExecution
  <1>12. ASSUME NEW e \in Execution, StopDuringRun(e) PROVE QueueInv'
    <2>1. recovery' = recovery /\ lockLosses' = lockLosses /\ JobMoves(e)
      BY <1>t, <1>e, <1>12 DEF StopDuringRun, update, JobMoves, Queued
    <2>2. \A d \in Execution \ {e} : Same(d)
      BY <1>t, <1>12 DEF StopDuringRun, update, Same
    <2>3. ExecutionInv(e)'
      BY <1>t, <1>e, <1>12
         DEF StopDuringRun, update, ExecutionInv, JobIsAdded, RunHasLock, KilledIsGone,
             Killed, SettledStays, OutcomeIsSaved, RowIsRight, InProgress
    <2> QED BY <2>1, <2>2, <2>3, OneExecution
  <1>13. ASSUME NEW e \in Execution, StopJob(e) PROVE QueueInv'
    <2>1. recovery' = recovery /\ lockLosses' = lockLosses /\ JobMoves(e)
      BY <1>t, <1>e, <1>13 DEF StopJob, KillGoesTo, JobMoves, Queued
    <2>2. \A d \in Execution \ {e} : Same(d)
      BY <1>t, <1>13 DEF StopJob, KillGoesTo, Same
    <2>3. ExecutionInv(e)'
      BY <1>t, <1>e, <1>13
         DEF StopJob, KillGoesTo, ExecutionInv, JobIsAdded, RunHasLock, KilledIsGone,
             Killed, SettledStays, OutcomeIsSaved, RowIsRight, InProgress
    <2> QED BY <2>1, <2>2, <2>3, OneExecution
  <1>14. ASSUME NEW e \in Execution, AbortJob(e) PROVE QueueInv'
    <2>1. recovery' = recovery /\ lockLosses' = lockLosses /\ JobMoves(e)
      BY <1>t, <1>e, <1>14 DEF AbortJob, KillGoesTo, JobMoves, Queued
    <2>2. \A d \in Execution \ {e} : Same(d)
      BY <1>t, <1>14 DEF AbortJob, KillGoesTo, Same
    <2>3. ExecutionInv(e)'
      BY <1>t, <1>e, <1>14
         DEF AbortJob, KillGoesTo, ExecutionInv, JobIsAdded, RunHasLock, KilledIsGone,
             Killed, SettledStays, OutcomeIsSaved, RowIsRight, InProgress
    <2> QED BY <2>1, <2>2, <2>3, OneExecution
  <1>15. ASSUME NEW e \in Execution, MoveToFailed(e) PROVE QueueInv'
    <2>1. recovery' = recovery /\ lockLosses' = lockLosses /\ JobMoves(e)
      BY <1>t, <1>e, <1>15 DEF MoveToFailed, KillGoesTo, JobMoves, Queued
    <2>2. \A d \in Execution \ {e} : Same(d)
      BY <1>t, <1>15 DEF MoveToFailed, KillGoesTo, Same
    <2>3. ExecutionInv(e)'
      BY <1>t, <1>e, <1>15
         DEF MoveToFailed, KillGoesTo, ExecutionInv, JobIsAdded, RunHasLock, KilledIsGone,
             Killed, SettledStays, OutcomeIsSaved, RowIsRight, InProgress
    <2> QED BY <2>1, <2>2, <2>3, OneExecution
  <1>16. ASSUME NEW e \in Execution, RemoveJob(e) PROVE QueueInv'
    <2>1. recovery' = recovery /\ lockLosses' = lockLosses /\ JobMoves(e)
      BY <1>t, <1>e, <1>16 DEF RemoveJob, KillGoesTo, JobMoves, Queued
    <2>2. \A d \in Execution \ {e} : Same(d)
      BY <1>t, <1>16 DEF RemoveJob, KillGoesTo, Same
    <2>3. ExecutionInv(e)'
      BY <1>t, <1>e, <1>16
         DEF RemoveJob, KillGoesTo, ExecutionInv, JobIsAdded, RunHasLock, KilledIsGone,
             Killed, SettledStays, OutcomeIsSaved, RowIsRight, InProgress
    <2> QED BY <2>1, <2>2, <2>3, OneExecution
  <1>17. ASSUME NEW e \in Execution, Stall(e) PROVE QueueInv'
    <2>1. recovery' = recovery /\ lockLosses' = lockLosses /\ JobMoves(e)
      BY <1>t, <1>e, <1>17 DEF Stall, JobMoves, Queued
    <2>2. \A d \in Execution \ {e} : Same(d)
      BY <1>t, <1>17 DEF Stall, Same
    <2>3. ExecutionInv(e)'
      BY <1>t, <1>e, <1>17
         DEF Stall, ExecutionInv, JobIsAdded, RunHasLock, KilledIsGone, Killed,
             SettledStays, OutcomeIsSaved, RowIsRight, InProgress
    <2> QED BY <2>1, <2>2, <2>3, OneExecution
  <1>18. ASSUME NEW e \in Execution, EnqueueFails(e) PROVE QueueInv'
    <2>1. recovery' = recovery /\ lockLosses' = lockLosses /\ JobMoves(e)
      BY <1>t, <1>e, <1>18 DEF EnqueueFails, MainGoesTo, JobMoves, Queued
    <2>2. \A d \in Execution \ {e} : Same(d)
      BY <1>t, <1>18 DEF EnqueueFails, MainGoesTo, Same
    <2>3. ExecutionInv(e)'
      BY <1>t, <1>e, <1>18
         DEF EnqueueFails, MainGoesTo, ExecutionInv, JobIsAdded, RunHasLock, KilledIsGone,
             Killed, SettledStays, OutcomeIsSaved, RowIsRight, InProgress
    <2> QED BY <2>1, <2>2, <2>3, OneExecution
  <1>19. ASSUME NEW w \in Worker, NEW e \in Execution, Take(w, e) PROVE QueueInv'
    <2>1. recovery' = recovery /\ lockLosses' = lockLosses /\ JobMoves(e)
      BY <1>t, <1>e, <1>19 DEF Take, RunGoesTo, JobMoves, Queued
    <2>2. \A d \in Execution \ {e} : Same(d)
      BY <1>t, <1>19 DEF Take, RunGoesTo, Same
    <2>3. ExecutionInv(e)'
      BY <1>t, <1>e, <1>19
         DEF Take, RunGoesTo, ExecutionInv, JobIsAdded, RunHasLock, KilledIsGone, Killed,
             SettledStays, OutcomeIsSaved, RowIsRight, InProgress
    <2> QED BY <2>1, <2>2, <2>3, OneExecution
  <1>20. ASSUME NEW w \in Worker, NEW e \in Execution, Load(w, e) PROVE QueueInv'
    <2>1. recovery' = recovery /\ lockLosses' = lockLosses /\ JobMoves(e)
      BY <1>t, <1>e, <1>20 DEF Load, RunGoesTo, JobMoves, Queued
    <2>2. \A d \in Execution \ {e} : Same(d)
      BY <1>t, <1>20 DEF Load, RunGoesTo, Same
    <2>3. ExecutionInv(e)'
      BY <1>t, <1>e, <1>20
         DEF Load, RunGoesTo, ExecutionInv, JobIsAdded, RunHasLock, KilledIsGone, Killed,
             SettledStays, OutcomeIsSaved, RowIsRight, InProgress
    <2> QED BY <2>1, <2>2, <2>3, OneExecution
  <1>21. ASSUME NEW w \in Worker, NEW e \in Execution, SetRunning(w, e) PROVE QueueInv'
    <2>1. recovery' = recovery /\ lockLosses' = lockLosses /\ JobMoves(e)
      BY <1>t, <1>e, <1>21 DEF SetRunning, RunGoesTo, update, JobMoves, Queued
    <2>2. \A d \in Execution \ {e} : Same(d)
      BY <1>t, <1>21 DEF SetRunning, RunGoesTo, update, Same
    <2>3. ExecutionInv(e)'
      BY <1>t, <1>e, <1>21
         DEF SetRunning, RunGoesTo, update, ExecutionInv, JobIsAdded, RunHasLock,
             KilledIsGone, Killed, SettledStays, OutcomeIsSaved, RowIsRight, InProgress
    <2> QED BY <2>1, <2>2, <2>3, OneExecution
  <1>22. ASSUME NEW w \in Worker, NEW e \in Execution, StartRun(w, e) PROVE QueueInv'
    <2>1. recovery' = recovery /\ lockLosses' = lockLosses /\ JobMoves(e)
      BY <1>t, <1>e, <1>22 DEF StartRun, RunGoesTo, update, JobMoves, Queued
    <2>2. \A d \in Execution \ {e} : Same(d)
      BY <1>t, <1>22 DEF StartRun, RunGoesTo, update, Same
    <2>3. ExecutionInv(e)'
      <3>1. PICK step \in {"running", "throwing", "completing"} :
                /\ run' = [run EXCEPT ![w][e] = step]
                /\ row'[e] = IF step = "completing" /\ row[e] \notin {"none", "deleted"}
                             THEN "error" ELSE row[e]
        BY <1>t, <1>22 DEF StartRun, RunGoesTo, update
      <3>2. /\ run[w][e] = "preparing"
            /\ UNCHANGED <<job, holder, main, kill, active, aborts, lockLosses>>
        BY <1>22 DEF StartRun
      <3> QED BY <1>t, <1>e, <3>1, <3>2
                 DEF ExecutionInv, JobIsAdded, RunHasLock, KilledIsGone, Killed,
                     SettledStays, OutcomeIsSaved, RowIsRight, InProgress
    <2> QED BY <2>1, <2>2, <2>3, OneExecution
  <1>23. ASSUME NEW w \in Worker, NEW e \in Execution, FinishRun(w, e) PROVE QueueInv'
    <2>1. recovery' = recovery /\ lockLosses' = lockLosses /\ JobMoves(e)
      BY <1>t, <1>e, <1>23 DEF FinishRun, RunGoesTo, update, JobMoves, Queued
    <2>2. \A d \in Execution \ {e} : Same(d)
      BY <1>t, <1>23 DEF FinishRun, RunGoesTo, update, Same
    <2>3. ExecutionInv(e)'
      <3>1. PICK status \in {"success", "error", "waiting"} :
                row'[e] = IF row[e] \in {"none", "deleted"} THEN row[e] ELSE status
        BY <1>t, <1>23 DEF FinishRun, update
      <3>2. /\ run[w][e] = "running" /\ run' = [run EXCEPT ![w][e] = "saved"]
            /\ UNCHANGED <<job, holder, main, kill, active, aborts, lockLosses>>
        BY <1>23 DEF FinishRun, RunGoesTo
      <3> QED BY <1>t, <1>e, <3>1, <3>2
                 DEF ExecutionInv, JobIsAdded, RunHasLock, KilledIsGone, Killed,
                     SettledStays, OutcomeIsSaved, RowIsRight, InProgress
    <2> QED BY <2>1, <2>2, <2>3, OneExecution
  <1>24. ASSUME NEW w \in Worker, NEW e \in Execution, Return(w, e) PROVE QueueInv'
    <2>1. recovery' = recovery /\ lockLosses' = lockLosses /\ JobMoves(e)
      BY <1>t, <1>e, <1>24 DEF Return, RunGoesTo, settle, JobMoves, Queued
    <2>2. \A d \in Execution \ {e} : Same(d)
      BY <1>t, <1>24 DEF Return, RunGoesTo, settle, Same
    <2>3. ExecutionInv(e)'
      <3>1. PICK step \in {"idle", "writing"} :
                /\ run' = [run EXCEPT ![w][e] = step]
                /\ step = "idle" => run[w][e] \in {"saved", "completing"}
                /\ step = "writing" => run[w][e] = "cancelling"
        BY <1>t, <1>24 DEF Return, RunGoesTo
      <3>2. /\ run[w][e] \in {"saved", "completing", "cancelling"}
            /\ UNCHANGED <<row, main, kill, active, aborts, lockLosses>>
        BY <1>24 DEF Return
      <3>3. CASE holder[e] = w
        <4>1. job'[e] = "completed" /\ holder'[e] = NoWorker
          BY <1>t, <1>24, <3>3 DEF Return, settle
        <4> QED BY <1>t, <1>e, <3>1, <3>2, <3>3, <4>1
                   DEF ExecutionInv, JobIsAdded, RunHasLock, KilledIsGone, Killed,
                       SettledStays, OutcomeIsSaved, RowIsRight, InProgress
      <3>4. CASE holder[e] # w
        <4>1. job'[e] = job[e] /\ holder'[e] = holder[e]
          BY <3>4, <1>24 DEF Return, settle
        <4> QED BY <1>t, <1>e, <3>1, <3>2, <3>4, <4>1
                   DEF ExecutionInv, JobIsAdded, RunHasLock, KilledIsGone, Killed,
                       SettledStays, OutcomeIsSaved, RowIsRight, InProgress
      <3> QED BY <3>3, <3>4
    <2> QED BY <2>1, <2>2, <2>3, OneExecution
  <1>25. ASSUME NEW w \in Worker, NEW e \in Execution, Throw(w, e) PROVE QueueInv'
    <2>1. recovery' = recovery /\ lockLosses' = lockLosses /\ JobMoves(e)
      BY <1>t, <1>e, <1>25 DEF Throw, RunGoesTo, settle, JobMoves, Queued
    <2>2. \A d \in Execution \ {e} : Same(d)
      BY <1>t, <1>25 DEF Throw, RunGoesTo, settle, Same
    <2>3. ExecutionInv(e)'
      <3>1. /\ run[w][e] = "throwing" /\ run' = [run EXCEPT ![w][e] = "idle"]
            /\ UNCHANGED <<row, main, kill, active, aborts, lockLosses>>
        BY <1>25 DEF Throw, RunGoesTo
      <3>2. CASE holder[e] = w
        <4>1. job'[e] = "failed" /\ holder'[e] = NoWorker
          BY <1>t, <1>25, <3>2 DEF Throw, settle
        <4> QED BY <1>t, <1>e, <3>1, <3>2, <4>1
                   DEF ExecutionInv, JobIsAdded, RunHasLock, KilledIsGone, Killed,
                       SettledStays, OutcomeIsSaved, RowIsRight, InProgress
      <3>3. CASE holder[e] # w
        <4>1. job'[e] = job[e] /\ holder'[e] = holder[e]
          BY <1>25, <3>3 DEF Throw, settle
        <4> QED BY <1>t, <1>e, <3>1, <3>3, <4>1
                   DEF ExecutionInv, JobIsAdded, RunHasLock, KilledIsGone, Killed,
                       SettledStays, OutcomeIsSaved, RowIsRight, InProgress
      <3> QED BY <3>2, <3>3
    <2> QED BY <2>1, <2>2, <2>3, OneExecution
  <1>26. ASSUME NEW w \in Worker, NEW e \in Execution, ReceiveAbort(w, e) PROVE QueueInv'
    <2>1. recovery' = recovery /\ lockLosses' = lockLosses /\ JobMoves(e)
      BY <1>t, <1>e, <1>26 DEF ReceiveAbort, JobMoves, Queued
    <2>2. \A d \in Execution \ {e} : Same(d)
      BY <1>t, <1>26 DEF ReceiveAbort, Same
    <2>3. ExecutionInv(e)'
      BY <1>t, <1>e, <1>26
         DEF ReceiveAbort, ExecutionInv, JobIsAdded, RunHasLock, KilledIsGone, Killed,
             SettledStays, OutcomeIsSaved, RowIsRight, InProgress
    <2> QED BY <2>1, <2>2, <2>3, OneExecution
  <1>27. ASSUME NEW w \in Worker, NEW e \in Execution, SaveCanceled(w, e) PROVE QueueInv'
    <2>1. recovery' = recovery /\ lockLosses' = lockLosses /\ JobMoves(e)
      BY <1>t, <1>e, <1>27 DEF SaveCanceled, RunGoesTo, update, JobMoves, Queued
    <2>2. \A d \in Execution \ {e} : Same(d)
      BY <1>t, <1>27 DEF SaveCanceled, RunGoesTo, update, Same
    <2>3. ExecutionInv(e)'
      BY <1>t, <1>e, <1>27
         DEF SaveCanceled, RunGoesTo, update, ExecutionInv, JobIsAdded, RunHasLock,
             KilledIsGone, Killed, SettledStays, OutcomeIsSaved, RowIsRight, InProgress
    <2> QED BY <2>1, <2>2, <2>3, OneExecution
  <1>28. ASSUME NEW e \in Execution, LoseLock(e) PROVE QueueInv'
    <2>1. lockLosses \in Nat /\ lockLosses' = lockLosses + 1
      BY <1>28, DeploymentBounds DEF LoseLock
    <2>2. lockLosses' # 0
      BY <2>1
    <2>3. recovery' = recovery /\ \A d \in Execution : JobMoves(d)
      BY <1>28 DEF LoseLock, JobMoves
    <2>4. \A d \in Execution : ExecutionInv(d)'
      BY <1>e, <1>28, <2>2
         DEF LoseLock, ExecutionInv, JobIsAdded, RunHasLock, KilledIsGone, Killed,
             SettledStays, OutcomeIsSaved, RowIsRight, InProgress
    <2> QED BY <2>3, <2>4, RecoveryKeeps DEF QueueInv
  <1>29. ASSUME NEW w \in Worker, end(w), lockLosses' = lockLosses PROVE QueueInv'
    <2>1. recovery' = recovery /\ \A d \in Execution : JobMoves(d)
      BY <1>29 DEF end, JobMoves
    <2>2. ASSUME NEW d \in Execution PROVE ExecutionInv(d)'
      <3>1. \A v \in Worker : /\ run'[v][d] = IF v = w THEN "idle" ELSE run[v][d]
                              /\ <<v, d>> \in aborts' => <<v, d>> \in aborts
        BY <1>t, <1>29 DEF end
      <3>2. holder'[d] = IF holder[d] = w THEN NoWorker ELSE holder[d]
        BY <1>t, <1>29 DEF end
      <3>3. UNCHANGED <<row, job, main, kill, active>>
        BY <1>29 DEF end
      <3> QED BY <1>e, <1>29, <3>1, <3>2, <3>3
                 DEF ExecutionInv, JobIsAdded, RunHasLock, KilledIsGone, Killed,
                     SettledStays, OutcomeIsSaved, RowIsRight, InProgress
    <2> QED BY <2>1, <2>2, RecoveryKeeps DEF QueueInv
  <1>30. ASSUME UNCHANGED <<row, job, holder, main, kill, active, run, aborts, recovery, lockLosses>>
        PROVE  QueueInv'
    <2>1. \A d \in Execution : Same(d) /\ JobMoves(d)
      BY <1>30 DEF Same, JobMoves
    <2> QED BY <1>e, <1>30, <2>1, SameKeeps, RecoveryKeeps DEF QueueInv
  <1>31. ASSUME NEW w \in Worker, PauseQueue(w) \/ RestartWorker(w) PROVE QueueInv'
    BY <1>30, <1>31 DEF PauseQueue, RestartWorker
  <1>32. ASSUME RecoverFromQueue PROVE QueueInv'
    <2>1. \A d \in Execution : Same(d)
      BY <1>32 DEF RecoverFromQueue, Same
    <2>2. /\ recovery'.since = {d \in Execution : job[d] \in Queued}
          /\ recovery'.dangling = {}
          /\ UNCHANGED <<job, lockLosses>>
      BY <1>32 DEF RecoverFromQueue
    <2>3. RecoveryInv'
      BY <2>2 DEF RecoveryInv, QueuedIsNotCrashed, Queued
    <2> QED BY <1>e, <2>1, <2>2, <2>3, SameKeeps DEF QueueInv
  <1>33. ASSUME FindDangling PROVE QueueInv'
    <2>1. \A d \in Execution : Same(d)
      BY <1>33 DEF FindDangling, Same
    <2>2. UNCHANGED <<job, lockLosses>>
      BY <1>33 DEF FindDangling
    <2>3. RecoveryInv'
      <3>1. \/ recovery' = NoRecovery
            \/ /\ recovery'.since = recovery.since
               /\ recovery'.dangling = recovery.stored \ queuedIds
        BY <1>33 DEF FindDangling, TypeOK
      <3>2. recovery.stored \subseteq Execution
        BY DEF TypeOK
      <3> QED BY <2>2, <3>1, <3>2
              DEF NoRecovery, queuedIds, QueueInv, RecoveryInv, QueuedIsNotCrashed
    <2> QED BY <1>e, <2>1, <2>2, <2>3, SameKeeps DEF QueueInv
  <1>34. ASSUME MarkAsCrashed PROVE QueueInv'
    <2>1. RecoveryInv'
      BY <1>34 DEF MarkAsCrashed, NoRecovery, RecoveryInv, QueuedIsNotCrashed
    <2>2. ASSUME NEW d \in Execution PROVE ExecutionInv(d)'
      <3>1. row'[d] \in {row[d], "crashed"}
        BY <1>34 DEF MarkAsCrashed
      <3>2. UNCHANGED <<job, holder, main, kill, active, run, aborts, lockLosses>>
        BY <1>34 DEF MarkAsCrashed
      <3> QED BY <1>e, <3>1, <3>2
                 DEF ExecutionInv, JobIsAdded, RunHasLock, KilledIsGone, Killed,
                     SettledStays, OutcomeIsSaved, RowIsRight, InProgress
    <2> QED BY <2>1, <2>2 DEF QueueInv
  <1>35. ASSUME RestartMain PROVE QueueInv'
    <2>1. RecoveryInv'
      BY <1>35 DEF RestartMain, NoRecovery, RecoveryInv, QueuedIsNotCrashed
    <2>2. ASSUME NEW d \in Execution PROVE ExecutionInv(d)'
      <3>1. /\ main'[d] = IF main[d] = "idle" THEN "idle" ELSE "over"
            /\ kill'[d] = "none" /\ active' = {}
            /\ UNCHANGED <<row, job, holder, run, aborts, lockLosses>>
        BY <1>t, <1>35 DEF RestartMain
      <3> QED BY <1>e, <3>1
                 DEF ExecutionInv, JobIsAdded, RunHasLock, KilledIsGone, Killed,
                     SettledStays, OutcomeIsSaved, RowIsRight, InProgress
    <2> QED BY <2>1, <2>2 DEF QueueInv
  <1>36. CASE UNCHANGED vars
    BY <1>30, <1>36 DEF vars
  <1> HIDE DEF rowVars, bullVars, requestVars, mainVars, recoveryVars, workerVars, faultVars
  <1>37. ASSUME NEW w \in Worker, Crash(w) \/ Exit(w) PROVE QueueInv'
    BY <1>29, <1>37 DEF Crash, Exit, faultVars
  <1> QED
    BY <1>1, <1>2, <1>3, <1>4, <1>5, <1>6, <1>7, <1>8, <1>9, <1>10, <1>11, <1>12, <1>13,
       <1>14, <1>15, <1>16, <1>17, <1>18, <1>19, <1>20, <1>21, <1>22, <1>23, <1>24, <1>25,
       <1>26, <1>27, <1>28, <1>31, <1>32, <1>33, <1>34, <1>35, <1>36, <1>37
       DEF Next, Steps, RunnerSteps, StopSteps, WorkerSteps

(* The processes start without executions, jobs and runs. *)
LEMMA InitQueueInv == Init => TypeOK /\ QueueInv
  <1> SUFFICES ASSUME Init PROVE TypeOK /\ QueueInv
    OBVIOUS
  <1>1. TypeOK
    <2>1. /\ deployment \in Deployment
          /\ deployment \in [executions : SUBSET Execution, workers : SUBSET Worker,
                              MaxFaults : Nat, MaxStops : Nat, MaxRecoveries : Nat]
      BY ConstantsAssumption DEF Init
    <2>2. /\ deployment.MaxFaults \in Nat
          /\ deployment.MaxStops \in Nat
          /\ deployment.MaxRecoveries \in Nat
      BY <2>1
    <2>3. /\ faults \in 0 .. deployment.MaxFaults
          /\ stops \in 0 .. deployment.MaxStops
          /\ lockLosses \in 0 .. faults
          /\ recoveries \in 0 .. deployment.MaxRecoveries
      BY <2>2 DEF Init
    <2>4. 0 \in 0 .. MaxStalledCount
      BY ConstantsAssumption
    <2> QED BY <2>1, <2>3, <2>4
            DEF Init, TypeOK, RowStatus, InProgress, JobState, Queued, MainStep, RunStep, NoRecovery
  <1>2. RecoveryInv
    BY DEF Init, NoRecovery, RecoveryInv, QueuedIsNotCrashed
  <1>3. ASSUME NEW e \in Execution PROVE ExecutionInv(e)
    BY DEF Init, ExecutionInv, JobIsAdded, RunHasLock, KilledIsGone, Killed, SettledStays,
       OutcomeIsSaved, RowIsRight, InProgress
  <1> QED BY <1>1, <1>2, <1>3 DEF QueueInv

(* The invariant holds in every reachable state. *)
LEMMA QueueInvariant == Spec => [](TypeOK /\ QueueInv)
  BY InitQueueInv, NextTypeOK, NextQueueInv, PTL DEF Spec

-----------------------------------------------------------------------------
(***************************************************************************)
(* Type correctness, with the fact that only an active job has a lock.     *)
(***************************************************************************)
THEOREM TypeCorrect == Spec => []TypeOK
  BY QueueInvariant, PTL

(***************************************************************************)
(* Without a lock that a live worker lost, enqueueExecution never          *)
(* finalizes an execution from a row that says it is in progress, for any  *)
(* number of executions, workers, crashes, restarts, stop requests and     *)
(* cycles of queue recovery.                                               *)
(***************************************************************************)
THEOREM FinalizedIsEnded == Spec => []SettledMeansEnded
  <1>1. QueueInv => SettledMeansEnded
    BY DEF QueueInv, ExecutionInv, RowIsRight, SettledMeansEnded
  <1> QED BY <1>1, QueueInvariant, PTL

(***************************************************************************)
(* Without a lock that a live worker lost, processError overwrites no      *)
(* success: the row cannot turn to success after its sanity run.           *)
(***************************************************************************)
THEOREM SuccessIsKept == Spec => []SuccessIsNotFailed
  <1>1. QueueInv => SuccessIsNotFailed
    BY DEF QueueInv, ExecutionInv, RowIsRight, SuccessIsNotFailed
  <1> QED BY <1>1, QueueInvariant, PTL

(***************************************************************************)
(* A cycle of queue recovery marks no execution as crashed whose job has   *)
(* been in the queue since the cycle began, whatever happens between its   *)
(* three queries.                                                          *)
(***************************************************************************)
THEOREM RecoverySparesQueued == Spec => []QueuedIsNotCrashed
  <1>1. QueueInv => QueuedIsNotCrashed
    BY DEF QueueInv, RecoveryInv
  <1> QED BY <1>1, QueueInvariant, PTL

=============================================================================
