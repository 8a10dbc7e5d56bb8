------------------------------ MODULE QueueMode ------------------------------
(***************************************************************************)
(* Queue mode: the main process stores an execution, enqueues a job for it *)
(* and awaits the job; a worker takes the job, runs the execution and      *)
(* saves its outcome in the row of the execution.  A stop request, queue   *)
(* recovery, jobs that stall and processes that die run into this at any   *)
(* point.                                                                  *)
(*                                                                         *)
(* A step of the model is what the code does between two awaits.  The      *)
(* queue is Bull over Redis: a worker holds a lock on the job it takes,    *)
(* and a job whose lock is lost goes back to the queue, or fails when that *)
(* has happened too often.                                                 *)
(***************************************************************************)
EXTENDS Integers, FiniteSets, FiniteSetsExt

CONSTANTS
    Execution,
    Worker,
    NoWorker,
    Discarded,       \* executions whose success is not kept
    MaxStalledCount, \* how often Bull puts a stalled job back
    BatchSize,       \* rows that queue recovery looks at
    Deployment       \* executions, workers and bounds of the deployments

ASSUME ConstantsAssumption ==
    /\ NoWorker \notin Worker
    /\ Discarded \subseteq Execution
    /\ MaxStalledCount \in Nat
    /\ BatchSize \in Nat \ {0}
    /\ Deployment \subseteq [executions : SUBSET Execution, workers : SUBSET Worker,
                             MaxFaults : Nat, MaxStops : Nat, MaxRecoveries : Nat]

VARIABLES
    row,        \* status of an execution in the database
    job,        \* state of its job in Bull
    stalls,     \* how often the job stalled
    holder,     \* worker that holds the lock of the job
    active,     \* executions in ActiveExecutions of the main process
    main,       \* where WorkflowRunner is with an execution
    stop,       \* where a stop request is with an execution
    kill,       \* where stopJob is with the job of an execution
    recovery,   \* the cycle of queue recovery in progress
    worker,     \* whether a worker process is up
    run,        \* where a worker is with a job
    aborts,     \* abort-job messages on their way to a worker
    deployment, \* the deployment
    faults,     \* restarts, crashes, lost locks and failures so far
    stops,      \* stop requests so far
    lockLosses, \* locks that a live worker lost so far
    recoveries  \* cycles of queue recovery so far

rowVars == <<row>>
bullVars == <<job, stalls, holder>>
requestVars == <<stop, kill, stops>>
mainVars == <<active, main, requestVars>>
recoveryVars == <<recovery, recoveries>>
workerVars == <<worker, run, aborts>>
faultVars == <<faults, lockLosses>>
vars == <<rowVars, bullVars, mainVars, recoveryVars, workerVars, faultVars, deployment>>

InProgress == {"new", "running"}
RowStatus == InProgress \cup {"none", "waiting", "success", "error", "canceled", "crashed",
                           "deleted"}
Queued == {"waiting", "active"}
JobState == Queued \cup {"none", "completed", "failed", "cancelled", "removed"}
MainStep == {"idle", "admitted", "hooking", "awaiting", "checking", "erring", "fetching",
             "closing", "rejecting", "rejected", "over", "thrown"}
RunStep == {"idle", "loading", "starting", "preparing", "running", "saved", "cancelling",
            "completing", "throwing", "writing"}

NoRecovery == [step |-> "idle", stored |-> {}, since |-> {}, dangling |-> {}]

TypeOK ==
    /\ row \in [Execution -> RowStatus]
    /\ job \in [Execution -> JobState]
    /\ stalls \in [Execution -> 0 .. MaxStalledCount]
    /\ holder \in [Execution -> Worker \cup {NoWorker}]
    /\ \A e \in Execution : holder[e] # NoWorker => job[e] = "active"
    /\ active \subseteq Execution
    /\ main \in [Execution -> MainStep]
    /\ stop \in [Execution -> {"none", "asked", "writing"}]
    /\ kill \in [Execution -> {"none", "asking", "aborting", "failing", "removing"}]
    /\ recovery \in [step : {"idle", "listing", "marking"}, stored : SUBSET Execution,
                     since : SUBSET Execution, dangling : SUBSET Execution]
    /\ worker \in [Worker -> {"up", "stopping", "down"}]
    /\ run \in [Worker -> [Execution -> RunStep]]
    /\ aborts \subseteq Worker \X Execution
    /\ deployment \in Deployment
    /\ faults \in 0 .. deployment.MaxFaults
    /\ stops \in 0 .. deployment.MaxStops
    /\ lockLosses \in 0 .. faults
    /\ recoveries \in 0 .. deployment.MaxRecoveries

Init ==
    /\ deployment \in Deployment
    /\ row = [e \in Execution |-> "none"]
    /\ job = [e \in Execution |-> "none"]
    /\ stalls = [e \in Execution |-> 0]
    /\ holder = [e \in Execution |-> NoWorker]
    /\ active = {}
    /\ main = [e \in Execution |-> "idle"]
    /\ stop = [e \in Execution |-> "none"]
    /\ kill = [e \in Execution |-> "none"]
    /\ recovery = NoRecovery
    /\ worker = [w \in Worker |-> IF w \in deployment.workers THEN "up" ELSE "down"]
    /\ run = [w \in Worker |-> [e \in Execution |-> "idle"]]
    /\ aborts = {}
    /\ faults = 0
    /\ stops = 0
    /\ lockLosses = 0
    /\ recoveries = 0

Fault == faults < deployment.MaxFaults /\ faults' = faults + 1

(* An update of the row of an execution; without a row it changes nothing. *)
update(e, status) ==
    row' = [row EXCEPT ![e] = IF @ \in {"none", "deleted"} THEN @ ELSE status]

-----------------------------------------------------------------------------
(* The main process runs an execution *)

MainGoesTo(e, step) == main' = [main EXCEPT ![e] = step]

(* The promise of the entry, if there is one, is resolved and the entry goes. *)
finalizeExecution(e) == active' = active \ {e}

(* ActiveExecutions.add for a new execution, which queue mode does not throttle. *)
Add(e) ==
    /\ e \in deployment.executions
    /\ main[e] = "idle"
    /\ row' = [row EXCEPT ![e] = "new"]
    /\ active' = active \cup {e}
    /\ MainGoesTo(e, "admitted")
    /\ UNCHANGED <<bullVars, requestVars, recoveryVars, workerVars, faultVars>>

(* The credentials check of run fails: the hooks save the failure. *)
Refuse(e) ==
    /\ main[e] = "admitted"
    /\ update(e, "error")
    /\ finalizeExecution(e)
    /\ MainGoesTo(e, "over")
    /\ UNCHANGED <<bullVars, requestVars, recoveryVars, workerVars, faultVars>>

addJob(e) ==
    /\ job' = [job EXCEPT ![e] = "waiting"]
    /\ UNCHANGED <<stalls, holder>>

(* enqueueExecution up to the hook workflowExecuteBefore. *)
AddJob(e) ==
    /\ main[e] = "admitted"
    /\ addJob(e)
    /\ MainGoesTo(e, "hooking")
    /\ UNCHANGED <<rowVars, active, requestVars, recoveryVars, workerVars, faultVars>>

(* Adding the job or the hook workflowExecuteBefore fails; in the latter   *)
(* case the job is in the queue.                                           *)
EnqueueFails(e) ==
    /\ main[e] \in {"admitted", "hooking"}
    /\ MainGoesTo(e, "rejecting")
    /\ Fault
    /\ UNCHANGED <<rowVars, bullVars, active, requestVars,
                   recoveryVars, workerVars, lockLosses>>

AwaitJob(e) ==
    /\ main[e] = "hooking"
    /\ MainGoesTo(e, "awaiting")
    /\ UNCHANGED <<rowVars, bullVars, active, requestVars,
                   recoveryVars, workerVars, faultVars>>

(* job.finished settles.  The error of a job that stopJob moved to failed  *)
(* says that it was cancelled, and processError returns at once.           *)
JobFinished(e) ==
    /\ main[e] = "awaiting"
    /\ \/ /\ job[e] \in {"completed", "cancelled"}
          /\ MainGoesTo(e, "fetching")
       \/ /\ job[e] = "failed"
          /\ MainGoesTo(e, "checking")
    /\ UNCHANGED <<rowVars, bullVars, active, requestVars,
                   recoveryVars, workerVars, faultVars>>

(* Mutant: the row of an execution that failed is not looked at. *)
sanityRunSkipped(e) == FALSE

(* The sanity run of processError. *)
sanityRun(e) == row[e] = "success"

(* Mutant: enqueueExecution returns once it has rejected its promise. *)
ProcessErrorLast(e) ==
    /\ \/ /\ main[e] = "checking"
          /\ MainGoesTo(e, IF sanityRun(e) THEN "over" ELSE "erring")
       \/ /\ main[e] = "rejecting"
          /\ MainGoesTo(e, IF sanityRun(e) THEN "thrown" ELSE "rejected")
    /\ IF sanityRun(e) THEN UNCHANGED active ELSE finalizeExecution(e)
    /\ UNCHANGED <<rowVars, bullVars, requestVars, recoveryVars, workerVars, faultVars>>

(* processError up to the hook that saves the error. *)
ProcessError(e) ==
    /\ \/ /\ main[e] = "checking"
          /\ MainGoesTo(e, IF sanityRun(e) THEN "fetching" ELSE "erring")
       \/ /\ main[e] = "rejecting"
          /\ MainGoesTo(e, IF sanityRun(e) THEN "thrown" ELSE "rejected")
    /\ IF sanityRun(e) THEN UNCHANGED active ELSE finalizeExecution(e)
    /\ UNCHANGED <<rowVars, bullVars, requestVars, recoveryVars, workerVars, faultVars>>

(* The hook workflowExecuteAfter that processError runs. *)
SaveError(e) ==
    /\ main[e] \in {"erring", "rejected"}
    /\ update(e, "error")
    /\ MainGoesTo(e, IF main[e] = "erring" THEN "fetching" ELSE "thrown")
    /\ UNCHANGED <<bullVars, active, requestVars, recoveryVars, workerVars, faultVars>>

(* The row is read and the execution is finalized with what it says.  This *)
(* follows a rejection as well.                                            *)
Fetch(e) ==
    /\ main[e] = "fetching"
    /\ IF row[e] = "deleted" THEN UNCHANGED active ELSE finalizeExecution(e)
    /\ MainGoesTo(e, IF row[e] = "success" /\ e \in Discarded THEN "closing" ELSE "over")
    /\ UNCHANGED <<rowVars, bullVars, requestVars, recoveryVars, workerVars, faultVars>>

(* The hook workflowExecuteAfter of the main process deletes the execution. *)
Discard(e) ==
    /\ main[e] = "closing"
    /\ update(e, "deleted")
    /\ MainGoesTo(e, "over")
    /\ UNCHANGED <<bullVars, active, requestVars, recoveryVars, workerVars, faultVars>>

(* The main process ends and is started again: what it kept is lost. *)
RestartMain ==
    /\ active' = {}
    /\ main' = [e \in Execution |-> IF main[e] = "idle" THEN "idle" ELSE "over"]
    /\ stop' = [e \in Execution |-> "none"]
    /\ kill' = [e \in Execution |-> "none"]
    /\ recovery' = NoRecovery
    /\ Fault
    /\ UNCHANGED <<rowVars, bullVars, stops, recoveries, workerVars, lockLosses>>

-----------------------------------------------------------------------------
(* A stop request *)

(* ExecutionService.stop finds the execution stoppable. *)
Stop(e) ==
    /\ stop[e] = "none"
    /\ row[e] \in InProgress \cup {"waiting"}
    /\ stops < deployment.MaxStops
    /\ stop' = [stop EXCEPT ![e] = "asked"]
    /\ stops' = stops + 1
    /\ UNCHANGED <<rowVars, bullVars, active, main, kill,
                   recoveryVars, workerVars, faultVars>>

(* ActiveExecutions.stopExecution: the entry goes, and the promise, once   *)
(* it is attached, is cancelled, which starts stopJob.                     *)
stopExecution(e) ==
    /\ active' = active \ {e}
    /\ kill' = [kill EXCEPT ![e] =
                   IF main[e] \in {"awaiting", "checking", "fetching"} THEN "asking" ELSE @]

(* stopInScalingMode on the process that runs the execution, or on another *)
(* main process, where there is no entry.                                  *)
StopExecution(e) ==
    /\ stop[e] = "asked"
    /\ stop' = [stop EXCEPT ![e] = "writing"]
    /\ \/ UNCHANGED <<active, kill>>
       \/ e \in active /\ stopExecution(e)
    /\ UNCHANGED <<rowVars, bullVars, main, stops, recoveryVars, workerVars, faultVars>>

(* stopDuringRun. *)
StopDuringRun(e) ==
    /\ stop[e] = "writing"
    /\ update(e, "canceled")
    /\ stop' = [stop EXCEPT ![e] = "none"]
    /\ UNCHANGED <<bullVars, active, main, kill, stops,
                   recoveryVars, workerVars, faultVars>>

KillGoesTo(e, step) == kill' = [kill EXCEPT ![e] = step]

(* stopJob asks Bull whether the job is active. *)
StopJob(e) ==
    /\ kill[e] = "asking"
    /\ KillGoesTo(e, IF job[e] = "active" THEN "aborting" ELSE "removing")
    /\ UNCHANGED <<rowVars, bullVars, active, main, stop, stops,
                   recoveryVars, workerVars, faultVars>>

(* The message abort-job goes to every worker. *)
AbortJob(e) ==
    /\ kill[e] = "aborting"
    /\ KillGoesTo(e, "failing")
    /\ aborts' = aborts \cup ({w \in Worker : worker[w] # "down"} \X {e})
    /\ UNCHANGED <<rowVars, bullVars, active, main, stop, stops,
                   recoveryVars, worker, run, faultVars>>

(* moveToFailed, whoever holds the lock; it fails if the job is not active. *)
MoveToFailed(e) ==
    /\ kill[e] = "failing"
    /\ KillGoesTo(e, "none")
    /\ \/ /\ job[e] = "active"
          /\ job' = [job EXCEPT ![e] = "cancelled"]
          /\ holder' = [holder EXCEPT ![e] = NoWorker]
       \/ /\ job[e] # "active"
          /\ UNCHANGED <<job, holder>>
    /\ UNCHANGED <<rowVars, stalls, active, main, stop, stops,
                   recoveryVars, workerVars, faultVars>>

(* A job that a worker has taken in the meantime is locked and stays. *)
RemoveJob(e) ==
    /\ kill[e] = "removing"
    /\ KillGoesTo(e, "none")
    /\ job' = [job EXCEPT ![e] = IF @ = "waiting" THEN "removed" ELSE @]
    /\ UNCHANGED <<rowVars, stalls, holder, active, main, stop, stops,
                   recoveryVars, workerVars, faultVars>>

-----------------------------------------------------------------------------
(* Queue recovery *)

(* Mutant: jobs that wait in the queue are not looked at. *)
queuedIdsActive == {e \in Execution : job[e] = "active"}

(* Executions with an active or a waiting job. *)
queuedIds == {e \in Execution : job[e] \in Queued}

(* getInProgressExecutionIds; "since" remembers who was queued then. *)
RecoverFromQueue ==
    /\ recovery.step = "idle"
    /\ recoveries < deployment.MaxRecoveries
    /\ recoveries' = recoveries + 1
    /\ LET ids == {e \in Execution : row[e] \in InProgress}
           size == IF Cardinality(ids) < BatchSize THEN Cardinality(ids) ELSE BatchSize
       IN  /\ ids # {}
           /\ \E stored \in kSubset(size, ids) :
                 recovery' = [step |-> "listing", stored |-> stored, dangling |-> {},
                              since |-> {e \in Execution : job[e] \in Queued}]
    /\ UNCHANGED <<rowVars, bullVars, mainVars, workerVars, faultVars>>

FindDangling ==
    /\ recovery.step = "listing"
    /\ LET dangling == recovery.stored \ queuedIds
       IN  recovery' = IF queuedIds = {} \/ dangling = {}
                         THEN NoRecovery
                         ELSE [recovery EXCEPT !.step = "marking", !.dangling = dangling]
    /\ UNCHANGED <<rowVars, bullVars, mainVars, recoveries, workerVars, faultVars>>

(* markAsCrashed, whatever the rows say by now. *)
MarkAsCrashed ==
    /\ recovery.step = "marking"
    /\ row' = [e \in Execution |->
                  IF e \in recovery.dangling /\ row[e] # "deleted" THEN "crashed" ELSE row[e]]
    /\ recovery' = NoRecovery
    /\ UNCHANGED <<bullVars, mainVars, recoveries, workerVars, faultVars>>

-----------------------------------------------------------------------------
(* A worker processes a job *)

RunGoesTo(w, e, step) == run' = [run EXCEPT ![w][e] = step]

(* Bull hands a waiting job, with its lock, to a worker that is not paused. *)
Take(w, e) ==
    /\ worker[w] = "up"
    /\ job[e] = "waiting"
    /\ run[w][e] = "idle"
    /\ job' = [job EXCEPT ![e] = "active"]
    /\ holder' = [holder EXCEPT ![e] = w]
    /\ RunGoesTo(w, e, "loading")
    /\ UNCHANGED <<rowVars, stalls, mainVars, recoveryVars, worker, aborts, faultVars>>

(* processJob reads the row and refrains from running a crashed execution. *)
Load(w, e) ==
    /\ run[w][e] = "loading"
    /\ RunGoesTo(w, e, CASE row[e] = "deleted" -> "throwing"
                         [] row[e] = "crashed" -> "completing"
                         [] OTHER -> "starting")
    /\ UNCHANGED <<rowVars, bullVars, mainVars, recoveryVars, worker, aborts, faultVars>>

SetRunning(w, e) ==
    /\ run[w][e] = "starting"
    /\ update(e, "running")
    /\ RunGoesTo(w, e, "preparing")
    /\ UNCHANGED <<bullVars, mainVars, recoveryVars, worker, aborts, faultVars>>

(* The job enters runningJobs once the run has been started.  Before that  *)
(* the workflow may turn out to be gone, or to have issues that fail the   *)
(* execution.                                                              *)
StartRun(w, e) ==
    /\ run[w][e] = "preparing"
    /\ \/ RunGoesTo(w, e, "running") /\ UNCHANGED row
       \/ RunGoesTo(w, e, "throwing") /\ UNCHANGED row
       \/ RunGoesTo(w, e, "completing") /\ update(e, "error")
    /\ UNCHANGED <<bullVars, mainVars, recoveryVars, worker, aborts, faultVars>>

(* Mutant: the worker leaves the outcome to be saved by someone else. *)
FinishRunUnsaved(w, e) ==
    /\ run[w][e] = "running"
    /\ UNCHANGED row
    /\ RunGoesTo(w, e, "saved")
    /\ UNCHANGED <<bullVars, mainVars, recoveryVars, worker, aborts, faultVars>>

(* The run ends or is put to wait; the hook workflowExecuteAfter saves the outcome. *)
FinishRun(w, e) ==
    /\ run[w][e] = "running"
    /\ \E status \in {"success", "error", "waiting"} : update(e, status)
    /\ RunGoesTo(w, e, "saved")
    /\ UNCHANGED <<bullVars, mainVars, recoveryVars, worker, aborts, faultVars>>

(* Mutant: the outcome of a job is accepted from every worker. *)
settleUnlocked(w, e, outcome) ==
    /\ job' = [job EXCEPT ![e] = outcome]
    /\ UNCHANGED holder

(* Bull accepts the outcome of a job only from the worker with its lock. *)
settle(w, e, outcome) ==
    IF holder[e] = w
      THEN /\ job' = [job EXCEPT ![e] = outcome]
           /\ holder' = [holder EXCEPT ![e] = NoWorker]
      ELSE UNCHANGED <<job, holder>>

(* processJob returns.  A run that was cancelled may end before the hook   *)
(* has saved that.                                                         *)
Return(w, e) ==
    /\ \/ /\ run[w][e] \in {"saved", "completing"}
          /\ RunGoesTo(w, e, "idle")
       \/ /\ run[w][e] = "cancelling"
          /\ RunGoesTo(w, e, "writing")
    /\ settle(w, e, "completed")
    /\ UNCHANGED <<rowVars, stalls, mainVars, recoveryVars, worker, aborts, faultVars>>

(* reportJobProcessingError. *)
Throw(w, e) ==
    /\ run[w][e] = "throwing"
    /\ RunGoesTo(w, e, "idle")
    /\ settle(w, e, "failed")
    /\ UNCHANGED <<rowVars, stalls, mainVars, recoveryVars, worker, aborts, faultVars>>

(* JobProcessor.stopJob: only a job in runningJobs is cancelled. *)
ReceiveAbort(w, e) ==
    /\ <<w, e>> \in aborts
    /\ aborts' = aborts \ {<<w, e>>}
    /\ run' = [run EXCEPT ![w][e] = CASE @ = "running" -> "cancelling"
                                      [] @ = "saved" -> "completing"
                                      [] OTHER -> @]
    /\ UNCHANGED <<rowVars, bullVars, mainVars, recoveryVars, worker, faultVars>>

(* The hook workflowExecuteAfter of a run that was cancelled. *)
SaveCanceled(w, e) ==
    /\ run[w][e] \in {"cancelling", "writing"}
    /\ update(e, "canceled")
    /\ RunGoesTo(w, e, IF run[w][e] = "cancelling" THEN "completing" ELSE "idle")
    /\ UNCHANGED <<bullVars, mainVars, recoveryVars, worker, aborts, faultVars>>

(* The worker process ends: its runs are lost, its locks expire. *)
end(w) ==
    /\ worker' = [worker EXCEPT ![w] = "down"]
    /\ run' = [run EXCEPT ![w] = [e \in Execution |-> "idle"]]
    /\ aborts' = {a \in aborts : a[1] # w}
    /\ holder' = [e \in Execution |-> IF holder[e] = w THEN NoWorker ELSE holder[e]]
    /\ UNCHANGED <<rowVars, job, stalls, mainVars, recoveryVars>>

Crash(w) ==
    /\ worker[w] # "down"
    /\ end(w)
    /\ Fault
    /\ UNCHANGED lockLosses

(* stopWorker pauses the queue on this worker. *)
PauseQueue(w) ==
    /\ worker[w] = "up"
    /\ worker' = [worker EXCEPT ![w] = "stopping"]
    /\ Fault
    /\ UNCHANGED <<rowVars, bullVars, mainVars, recoveryVars, run, aborts, lockLosses>>

(* stopWorker waits for the jobs in runningJobs. *)
Exit(w) ==
    /\ worker[w] = "stopping"
    /\ \A e \in Execution : run[w][e] \notin {"running", "saved"}
    /\ end(w)
    /\ UNCHANGED faultVars

RestartWorker(w) ==
    /\ w \in deployment.workers
    /\ worker[w] = "down"
    /\ worker' = [worker EXCEPT ![w] = "up"]
    /\ UNCHANGED <<rowVars, bullVars, mainVars, recoveryVars, run, aborts, faultVars>>

(* A worker that is alive fails to renew the lock in time. *)
LoseLock(e) ==
    /\ holder[e] # NoWorker
    /\ holder' = [holder EXCEPT ![e] = NoWorker]
    /\ Fault
    /\ lockLosses' = lockLosses + 1
    /\ UNCHANGED <<rowVars, job, stalls, mainVars, recoveryVars, workerVars>>

(* Bull finds an active job without a lock. *)
Stall(e) ==
    /\ job[e] = "active"
    /\ holder[e] = NoWorker
    /\ IF stalls[e] < MaxStalledCount
         THEN /\ job' = [job EXCEPT ![e] = "waiting"]
              /\ stalls' = [stalls EXCEPT ![e] = @ + 1]
         ELSE /\ job' = [job EXCEPT ![e] = "failed"]
              /\ UNCHANGED stalls
    /\ UNCHANGED <<rowVars, holder, mainVars, recoveryVars, workerVars, faultVars>>

-----------------------------------------------------------------------------
RunnerSteps(e) ==
    \/ AddJob(e) \/ AwaitJob(e) \/ JobFinished(e) \/ ProcessError(e) \/ SaveError(e)
    \/ Fetch(e) \/ Discard(e)

StopSteps(e) ==
    \/ StopExecution(e) \/ StopDuringRun(e)
    \/ StopJob(e) \/ AbortJob(e) \/ MoveToFailed(e) \/ RemoveJob(e)

WorkerSteps(w, e) ==
    \/ Load(w, e) \/ SetRunning(w, e) \/ StartRun(w, e) \/ FinishRun(w, e)
    \/ Return(w, e) \/ Throw(w, e) \/ SaveCanceled(w, e)

Steps ==
    \/ \E e \in Execution :
          \/ Add(e) \/ Refuse(e) \/ EnqueueFails(e) \/ RunnerSteps(e)
          \/ Stop(e) \/ StopSteps(e) \/ LoseLock(e) \/ Stall(e)
    \/ \E w \in Worker, e \in Execution : Take(w, e) \/ WorkerSteps(w, e) \/ ReceiveAbort(w, e)
    \/ \E w \in Worker : Crash(w) \/ PauseQueue(w) \/ Exit(w) \/ RestartWorker(w)
    \/ RecoverFromQueue \/ FindDangling \/ MarkAsCrashed \/ RestartMain

Next == Steps /\ UNCHANGED deployment

(* Promises of the main process that can settle do, runs end, Bull hands   *)
(* out the jobs it has and finds the ones that stalled, and workers that   *)
(* went down are started again.                                            *)
Fairness ==
    /\ \A e \in Execution :
          /\ WF_vars(RunnerSteps(e) /\ UNCHANGED deployment)
          /\ WF_vars(Stall(e) /\ UNCHANGED deployment)
          /\ WF_vars((\E w \in Worker : Take(w, e)) /\ UNCHANGED deployment)
    /\ \A w \in Worker, e \in Execution : WF_vars(WorkerSteps(w, e) /\ UNCHANGED deployment)
    /\ \A w \in Worker : WF_vars((Exit(w) \/ RestartWorker(w)) /\ UNCHANGED deployment)

Spec == Init /\ [][Next]_vars
FairSpec == Spec /\ Fairness

-----------------------------------------------------------------------------
(* No execution stays in ActiveExecutions for ever: whatever happens to    *)
(* its job and to the workers that take it, enqueueExecution settles its   *)
(* promise, unless enqueueing threw.                                       *)
EntrySettles ==
    \A e \in Execution : e \in active ~> e \notin active \/ main[e] = "thrown"

(* Without a lock that a live worker lost, the main process finalizes no   *)
(* execution as if it had ended while its row says that it is in progress: *)
(* workers save before they return, and processError saves before it goes  *)
(* on to read the row.                                                     *)
SettledMeansEnded ==
    \A e \in Execution :
        main[e] = "fetching" /\ e \in active /\ lockLosses = 0 => row[e] \notin InProgress

(* Without a lock that a live worker lost, processError does not overwrite *)
(* the success of an execution whose job failed or stalled.                *)
SuccessIsNotFailed ==
    \A e \in Execution :
        main[e] = "erring" /\ lockLosses = 0 => row[e] # "success"

(* Queue recovery marks no execution as crashed whose job has been in the  *)
(* queue ever since it began.                                              *)
QueuedIsNotCrashed ==
    \A e \in recovery.dangling \cap recovery.since : job[e] \notin Queued
=============================================================================
