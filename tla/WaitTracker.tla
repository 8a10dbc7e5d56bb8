---------------------------- MODULE WaitTracker ----------------------------
(***************************************************************************)
(* Waiting executions and what resumes them.  The leader polls the         *)
(* database for executions that are due soon and sets a timer for each     *)
(* one it does not track yet; the timer, a call of the execution's waiting *)
(* webhook or the end of a sub-execution starts it again; a user stops it. *)
(*                                                                         *)
(* Every await is a point where another handler may run, so a poll is a    *)
(* query and its result, a start is the row read and the row written, and  *)
(* a stop is the timer cleared and the row written.                        *)
(***************************************************************************)
EXTENDS Integers, Sequences, FiniteSets, Functions

CONSTANTS
    Main,            \* main processes
    Execution,
    NoExecution,
    Parent,          \* parentExecution: the execution that waits for this one
    Webhooked,       \* executions that a webhook call may resume
    Deployment,      \* processes that run, executions that wait, bound of stop requests
    Window,          \* executions due within this time are polled
    MaxTime,         \* bound: the clock
    MaxWaits,        \* bound: times that resumed executions wait again
    MaxPolls,        \* bound: queries of a process whose results are on the way
    MaxStarts,       \* bound: starts of an execution in progress, and instances that run
    MaxStepdowns     \* bound: times leadership is lost

Time == 0 .. MaxTime

Never == MaxTime + Window + 1    \* WAIT_INDEFINITELY

NoTime == -1                     \* waitTill is null, or there is no entry

ASSUME WaitAssumption ==
    /\ NoExecution \notin Execution
    /\ Parent \in [Execution -> Execution \cup {NoExecution}]
    /\ Webhooked \subseteq Execution
    /\ Deployment \subseteq [main : SUBSET Main, waiting : SUBSET Execution, stops : Nat]
    /\ Window \in Nat
    /\ MaxTime \in Nat
    /\ MaxWaits \in Nat
    /\ MaxPolls \in Nat \ {0}
    /\ MaxStarts \in Nat \ {0}
    /\ MaxStepdowns \in Nat

VARIABLES
    deployment,
    now,
    row,         \* status and waitTill of each execution in the database
    tracking,    \* processes whose mainTimer is set: those that lead
    waitingExecutions,  \* due time of each entry, NoTime without one
    timers,      \* timers that are set, as pairs of execution and time
    polls,       \* results on the way: waitTill of the rows found
    finding,     \* starts that read the row
    adding,      \* starts that are about to write the row
    running,     \* instances of each execution that run
    onEnd,       \* executions whose end resumes their parent
    stopping,    \* stop requests that are about to write the row
    waits, stepdowns, stops

bounds == <<waits, stepdowns, stops>>
trackerVars == <<tracking, waitingExecutions, timers, polls>>
startVars == <<finding, adding, running, onEnd>>
vars == <<deployment, now, row, trackerVars, startVars, stopping, bounds>>

Row == [status : {"waiting", "running", "success", "error", "canceled"},
        waitTill : Time \cup {Never, NoTime}]

Found == [Execution -> Time \cup {NoTime}]

WaitTypeOK ==
    /\ deployment \in Deployment
    /\ now \in Time
    /\ row \in [Execution -> Row]
    /\ tracking \in SUBSET Main
    /\ waitingExecutions \in [Main -> Found]
    /\ timers \in [Main -> SUBSET (Execution \X Time)]
    /\ polls \in [Main -> Seq(Found)]
    /\ finding \in [Main -> [Execution -> Nat]]
    /\ adding \in [Main -> [Execution -> Nat]]
    /\ running \in [Main -> [Execution -> Nat]]
    /\ onEnd \in [Main -> SUBSET Execution]
    /\ stopping \in SUBSET Execution
    /\ waits \in 0 .. MaxWaits
    /\ stepdowns \in 0 .. MaxStepdowns
    /\ stops \in Nat

Parents == {Parent[e] : e \in Execution} \ {NoExecution}

(* Executions wait, one with a sub-execution for the end of that, or have  *)
(* succeeded.                                                              *)
Init ==
    /\ deployment \in Deployment
    /\ now = 0
    /\ \E till \in [Execution -> Time \cup {Never}] :
          /\ \A e \in Execution : till[e] = Never <=> \E c \in deployment.waiting : Parent[c] = e
          /\ row = [e \in Execution |->
                       IF e \in deployment.waiting
                       THEN [status |-> "waiting", waitTill |-> till[e]]
                       ELSE [status |-> "success", waitTill |-> NoTime]]
    /\ tracking = {}
    /\ waitingExecutions = [m \in Main |-> [e \in Execution |-> NoTime]]
    /\ timers = [m \in Main |-> {}]
    /\ polls = [m \in Main |-> <<>>]
    /\ finding = [m \in Main |-> [e \in Execution |-> 0]]
    /\ adding = [m \in Main |-> [e \in Execution |-> 0]]
    /\ running = [m \in Main |-> [e \in Execution |-> 0]]
    /\ onEnd = [m \in Main |-> {}]
    /\ stopping = {}
    /\ waits = 0
    /\ stepdowns = 0
    /\ stops = 0

Tick ==
    /\ now < MaxTime
    /\ now' = now + 1
    /\ UNCHANGED <<deployment, row, trackerVars, startVars, stopping, bounds>>

-----------------------------------------------------------------------------
(* Polling *)

(* getWaitingExecutions of the repository: rows that are due within the    *)
(* window; waitTill alone decides, whatever the status is.                 *)
found == [e \in Execution |-> IF row[e].waitTill <= now + Window THEN row[e].waitTill ELSE NoTime]

query(m) == polls' = [polls EXCEPT ![m] = Append(@, found)]

(* init of a leader, or leader-takeover: startTracking. *)
StartTracking(m) ==
    /\ m \notin tracking
    /\ Len(polls[m]) < MaxPolls
    /\ tracking' = tracking \cup {m}
    /\ query(m)
    /\ UNCHANGED <<deployment, now, row, waitingExecutions, timers, startVars, stopping, bounds>>

(* The interval of the leader queries the database. *)
Poll(m) ==
    /\ m \in tracking
    /\ Len(polls[m]) < MaxPolls
    /\ query(m)
    /\ UNCHANGED <<deployment, now, row, tracking, waitingExecutions, timers, startVars, stopping, bounds>>

(* Mutant: an execution gets a timer although it has an entry. *)
SetAllTimers(m) ==
    /\ polls[m] # <<>>
    /\ LET result == Head(polls[m])
           fresh == {e \in Execution : result[e] # NoTime}
       IN  /\ waitingExecutions' = [waitingExecutions EXCEPT ![m] =
                  [e \in Execution |-> IF e \in fresh THEN result[e] ELSE @[e]]]
           /\ timers' = [timers EXCEPT ![m] = @ \cup {<<e, result[e]>> : e \in fresh}]
    /\ polls' = [polls EXCEPT ![m] = Tail(@)]
    /\ UNCHANGED <<deployment, now, row, tracking, startVars, stopping, bounds>>

(* The result of a query: a timer for each execution without an entry,     *)
(* also if the process has stepped down since.                             *)
SetTimers(m) ==
    /\ polls[m] # <<>>
    /\ LET result == Head(polls[m])
           fresh == {e \in Execution : result[e] # NoTime /\ waitingExecutions[m][e] = NoTime}
       IN  /\ waitingExecutions' = [waitingExecutions EXCEPT ![m] =
                  [e \in Execution |-> IF e \in fresh THEN result[e] ELSE @[e]]]
           /\ timers' = [timers EXCEPT ![m] = @ \cup {<<e, result[e]>> : e \in fresh}]
    /\ polls' = [polls EXCEPT ![m] = Tail(@)]
    /\ UNCHANGED <<deployment, now, row, tracking, startVars, stopping, bounds>>

(* Timers that an entry refers to. *)
held(m) == {<<e, waitingExecutions[m][e]>> : e \in Execution}

isMultiMain == Cardinality(deployment.main) > 1

(* leader-stepdown: stopTracking clears the timers and keeps the entries. *)
StopTracking(m) ==
    /\ isMultiMain
    /\ m \in tracking
    /\ stepdowns < MaxStepdowns
    /\ stepdowns' = stepdowns + 1
    /\ tracking' = tracking \ {m}
    /\ timers' = [timers EXCEPT ![m] = @ \ held(m)]
    /\ UNCHANGED <<deployment, now, row, waitingExecutions, polls, startVars, stopping, waits, stops>>

-----------------------------------------------------------------------------
(* Starting an execution *)

(* Starts of execution e in progress, with the instances that run. *)
starts(e) == SumFunctionOnSet([m \in Main |-> finding[m][e] + adding[m][e] + running[m][e]], Main)

(* Mutant: the entry stays. *)
startExecutionTracked(m, e) ==
    /\ finding' = [finding EXCEPT ![m][e] = @ + 1]
    /\ UNCHANGED waitingExecutions

(* startExecution, up to the query for the row: the entry is deleted. *)
startExecution(m, e) ==
    /\ waitingExecutions' = [waitingExecutions EXCEPT ![m][e] = NoTime]
    /\ finding' = [finding EXCEPT ![m][e] = @ + 1]

TimerFires(m, e, due) ==
    /\ <<e, due>> \in timers[m]
    /\ due <= now
    /\ starts(e) < MaxStarts
    /\ timers' = [timers EXCEPT ![m] = @ \ {<<e, due>>}]
    /\ startExecution(m, e)
    /\ UNCHANGED <<deployment, now, row, tracking, polls, adding, running, onEnd, stopping, bounds>>

(* startExecution with the row: only one that succeeded is left alone. *)
FindExecution(m, e) ==
    /\ finding[m][e] > 0
    /\ finding' = [finding EXCEPT ![m][e] = @ - 1]
    /\ adding' = IF row[e].status = "success" THEN adding ELSE [adding EXCEPT ![m][e] = @ + 1]
    /\ UNCHANGED <<deployment, now, row, trackerVars, running, onEnd, stopping, bounds>>

(* executeWebhook of WaitingWebhooks: executions that run, have an error   *)
(* or are finished are refused.                                            *)
ExecuteWebhook(m, e) ==
    /\ e \in Webhooked
    /\ row[e].status = "waiting"
    /\ starts(e) < MaxStarts
    /\ adding' = [adding EXCEPT ![m][e] = @ + 1]
    /\ UNCHANGED <<deployment, now, row, trackerVars, finding, running, onEnd, stopping, bounds>>

(* run and ActiveExecutions.add: the row says `running`, and the parent is *)
(* to be resumed when the promise of this entry is settled.                *)
Run(m, e) ==
    /\ adding[m][e] > 0
    /\ adding' = [adding EXCEPT ![m][e] = @ - 1]
    /\ row' = [row EXCEPT ![e] = [status |-> "running", waitTill |-> NoTime]]
    /\ running' = [running EXCEPT ![m][e] = @ + 1]
    /\ onEnd' = [onEnd EXCEPT ![m] = IF Parent[e] = NoExecution THEN @ ELSE @ \cup {e}]
    /\ UNCHANGED <<deployment, now, trackerVars, finding, stopping, bounds>>

(* The promise of the entry of e resolves: startExecution of the parent. *)
resumeParent(m, e) ==
    IF e \in onEnd[m]
    THEN /\ startExecution(m, Parent[e])
         /\ onEnd' = [onEnd EXCEPT ![m] = @ \ {e}]
    ELSE UNCHANGED <<waitingExecutions, finding, onEnd>>

(* An instance ends or goes to wait again: its row is saved and the        *)
(* promise of the entry resolves.                                          *)
RunEnds(m, e) ==
    /\ running[m][e] > 0
    /\ running' = [running EXCEPT ![m][e] = @ - 1]
    /\ \/ /\ \E status \in {"success", "error"} :
               row' = [row EXCEPT ![e] = [status |-> status, waitTill |-> NoTime]]
          /\ UNCHANGED waits
       \/ /\ waits < MaxWaits
          /\ waits' = waits + 1
          /\ \E till \in now .. MaxTime :
               row' = [row EXCEPT ![e] = [status |-> "waiting", waitTill |-> till]]
    /\ resumeParent(m, e)
    /\ UNCHANGED <<deployment, now, tracking, timers, polls, adding, stopping, stepdowns, stops>>

-----------------------------------------------------------------------------
(* Stopping an execution *)

(* ExecutionService.stop, up to the write: the running instance of this    *)
(* process is canceled without resuming the parent, stopExecution of the   *)
(* tracker clears the timer and deletes the entry.                         *)
Stop(m, e) ==
    /\ row[e].status \in {"waiting", "running"}
    /\ e \notin stopping
    /\ stops < deployment.stops
    /\ stops' = stops + 1
    /\ stopping' = stopping \cup {e}
    /\ running' = [running EXCEPT ![m][e] = IF @ > 0 THEN @ - 1 ELSE 0]
    /\ onEnd' = [onEnd EXCEPT ![m] = @ \ {e}]
    /\ waitingExecutions' = [waitingExecutions EXCEPT ![m][e] = NoTime]
    /\ timers' = [timers EXCEPT ![m] = @ \ {<<e, waitingExecutions[m][e]>>}]
    /\ UNCHANGED <<deployment, now, row, tracking, polls, finding, adding, waits, stepdowns>>

(* Mutant: the stopped execution keeps its waitTill. *)
StopWrittenWithWait(e) ==
    /\ e \in stopping
    /\ stopping' = stopping \ {e}
    /\ row' = [row EXCEPT ![e].status = "canceled"]
    /\ UNCHANGED <<deployment, now, trackerVars, startVars, bounds>>

(* stopDuringRun. *)
StopWritten(e) ==
    /\ e \in stopping
    /\ stopping' = stopping \ {e}
    /\ row' = [row EXCEPT ![e] = [status |-> "canceled", waitTill |-> NoTime]]
    /\ UNCHANGED <<deployment, now, trackerVars, startVars, bounds>>

-----------------------------------------------------------------------------
Next ==
    \/ Tick
    \/ \E m \in deployment.main :
          \/ StartTracking(m) \/ Poll(m) \/ SetTimers(m) \/ StopTracking(m)
          \/ \E e \in Execution :
                \/ \E due \in Time : TimerFires(m, e, due)
                \/ FindExecution(m, e) \/ ExecuteWebhook(m, e)
                \/ Run(m, e) \/ RunEnds(m, e) \/ Stop(m, e)
    \/ \E e \in Execution : StopWritten(e)

Spec == Init /\ [][Next]_vars

(* Time passes, timers fire, the database answers, every run ends or goes  *)
(* to wait, and when no process leads one takes over.                      *)
Fairness ==
    /\ WF_vars(Tick)
    /\ WF_vars(tracking = {} /\ \E m \in deployment.main : StartTracking(m))
    /\ \A m \in Main :
          /\ WF_vars(Poll(m))
          /\ WF_vars(SetTimers(m))
          /\ \A e \in Execution :
                /\ WF_vars(\E due \in Time : TimerFires(m, e, due))
                /\ WF_vars(FindExecution(m, e))
                /\ WF_vars(Run(m, e))
                /\ WF_vars(RunEnds(m, e))
    /\ \A e \in Execution : WF_vars(StopWritten(e))

FairSpec == Spec /\ Fairness

-----------------------------------------------------------------------------
(* Properties *)

(***************************************************************************)
(* A timer that is set has an entry with its time, so that a stop and a    *)
(* stepdown find it, and an execution has one timer in a process, except   *)
(* that the end of a sub-execution deletes the entry of its parent         *)
(* (getWaitingExecutions, startExecution, stopExecution).                  *)
(***************************************************************************)
TimerIsHeld ==
    \A m \in Main : \A t \in timers[m] : t[1] \in Parents \/ t \in held(m)

(* What may still start execution e: a timer, a start or a result on the   *)
(* way, a run in progress or a stop.                                       *)
InFlight(e) ==
    \/ e \in stopping
    \/ \E m \in Main :
          \/ \E t \in timers[m] : t[1] = e
          \/ finding[m][e] + adding[m][e] + running[m][e] > 0
          \/ \E n \in 1 .. Len(polls[m]) : polls[m][n][e] # NoTime

(* Sets of executions that hold the sub-executions of their members. *)
Families == {F \in SUBSET Execution : \A c \in Execution : Parent[c] \in F => c \in F}

(* Execution e is stopped, and neither it nor what would resume it, its    *)
(* sub-executions and theirs, waits, runs or is in flight.                 *)
Stopped(e) ==
    /\ row[e].status = "canceled"
    /\ \E F \in Families :
          /\ e \in F
          /\ \A c \in F : ~InFlight(c) /\ row[c].status \notin {"waiting", "running"}

(***************************************************************************)
(* Once an execution is stopped and nothing that read its row before is in *)
(* progress, it stays stopped: no poll, webhook or restart of tracking     *)
(* picks it up again (stopDuringRun, getWaitingExecutions,                 *)
(* WaitingWebhooks.executeWebhook).                                        *)
(***************************************************************************)
StoppedForGood == [][\A e \in Execution : Stopped(e) => Stopped(e)']_vars

(* An entry whose timer was cleared. *)
Stale(m, e) ==
    waitingExecutions[m][e] # NoTime /\ <<e, waitingExecutions[m][e]>> \notin timers[m]

(***************************************************************************)
(* An execution that waits for a time is resumed in the end, however       *)
(* leadership moves, unless the leader kept an entry of it when it stepped *)
(* down before (startTracking, getWaitingExecutions, startExecution,       *)
(* stopTracking).                                                          *)
(***************************************************************************)
DueIsResumed ==
    \A e \in Execution :
        (row[e].status = "waiting" /\ row[e].waitTill \in Time)
            ~> \/ row[e].status # "waiting"
               \/ stepdowns > 0 /\ \E m \in tracking : Stale(m, e)

=============================================================================
