----------------------------- MODULE TaskBroker -----------------------------
(***************************************************************************)
(* The task broker of a main or worker process, with the two parties it    *)
(* brings together: task runners, separate processes that connect over a   *)
(* websocket and offer to run tasks, and the requester of the same         *)
(* process, which turns each call of startTask into one task request.      *)
(*                                                                         *)
(* The handlers of the broker and of the local requester run in one event  *)
(* loop, so everything between two macrotasks is one action: a message     *)
(* "runner:taskaccepted" creates the task, tells the requester and sends   *)
(* its settings to the runner in a single step.  Messages between broker   *)
(* and runner travel in order, and what a runner sent before it died may   *)
(* still arrive until the broker notices the closed connection.            *)
(*                                                                         *)
(* The broker names a task when it accepts an offer.  An offer is accepted *)
(* at most once, so a task goes here by the name of its offer.             *)
(***************************************************************************)
EXTENDS Integers, Sequences, FiniteSets, SequencesExt

CONSTANTS
    Runner,           \* task runner processes
    Request,          \* calls of startTask
    NoRequest,
    RunnerType,       \* task type of each runner
    RequestType,      \* task type of each request
    Deployment,       \* ways in which runners are set up
    MaxConcurrency,   \* tasks a runner executes at the same time
    MaxOffer,         \* bound: offer names per runner
    MaxLosses,        \* bound: runners that crash or stop, launchers that start
    MaxSlowAccepts,   \* bound: accept windows of 2 seconds that elapse
    MaxSlowOffers     \* bound: offers that lapse in the runner while being accepted

ASSUME ConstantsAssumption ==
    /\ NoRequest \notin Request
    /\ IsFiniteSet(Request)
    /\ IsFiniteSet(Runner)
    /\ Deployment \subseteq
         [internal : BOOLEAN, runners : SUBSET Runner, launchers : SUBSET Runner]
    /\ MaxConcurrency \in Nat \ {0}
    /\ MaxOffer \in Nat
    /\ MaxLosses \in Nat
    /\ MaxSlowAccepts \in Nat
    /\ MaxSlowOffers \in Nat

(* An offer is named by its runner and a number that no other use of the   *)
(* runner's offers has at the time.                                        *)
Offer == Runner \X (1 .. MaxOffer)

OfferType(o) == RunnerType[o[1]]

VARIABLES
    deployment,            \* the way in which runners are set up
    (* the broker *)
    knownRunners,
    pendingTaskOffers,
    pendingTaskRequests,
    acceptInProgress,
    runnerAcceptRejects,   \* the request whose acceptOffer awaits the runner's answer
    tasks,                 \* the request each task is for
    (* the requester *)
    startTask,             \* progress of each call
    (* the runners *)
    runner,                \* connection state of each runner process
    openOffers,
    runningTasks,          \* TaskState.status of each task the runner holds
    (* the network *)
    toRunner, toBroker,
    (* the bounds *)
    losses, slowAccepts, slowOffers

brokerVars == <<knownRunners, pendingTaskOffers, pendingTaskRequests,
                acceptInProgress, runnerAcceptRejects, tasks>>
runnerVars == <<runner, openOffers, runningTasks>>
bounds == <<losses, slowAccepts, slowOffers>>
vars == <<deployment, brokerVars, startTask, runnerVars, toRunner, toBroker, bounds>>

(* taskRunnersConfig.mode: internal, with a runner that is a child process *)
(* of n8n, or external.                                                    *)
InternalMode == deployment.internal

(* External processes that stand in for a runner until it is needed: they  *)
(* offer to run tasks and defer every task they are given.                 *)
Launcher == deployment.launchers

RunnerState == {"down", "connected", "offering", "stopping"}
TaskStatus == {"waitingForSettings", "running", "aborting:cancelled", "aborting:timeout"}
ToRunnerMessage ==
    [type : {"runnerregistered"}]
      \cup [type : {"taskofferaccept", "tasksettings", "taskcancel"}, offer : Offer]
ToBrokerMessage ==
    [type : {"taskoffer", "taskaccepted", "taskrejected", "taskdeferred", "taskdone", "taskerror"},
     offer : Offer]

TypeOK ==
    /\ deployment \in Deployment
    /\ knownRunners \in SUBSET Runner
    /\ pendingTaskOffers \in Seq(Offer)
    /\ pendingTaskRequests \in Seq(Request)
    /\ acceptInProgress \in SUBSET Request
    /\ runnerAcceptRejects \in [Offer -> Request \cup {NoRequest}]
    /\ tasks \in [Offer -> Request \cup {NoRequest}]
    /\ startTask \in [Request -> {"idle", "requested", "started", "done", "error"}]
    /\ runner \in [Runner -> RunnerState]
    /\ openOffers \in SUBSET Offer
    /\ runningTasks \in [Offer -> TaskStatus \cup {"none"}]
    /\ toRunner \in [Runner -> Seq(ToRunnerMessage)]
    /\ toBroker \in [Runner -> Seq(ToBrokerMessage)]
    /\ losses \in 0 .. MaxLosses
    /\ slowAccepts \in 0 .. MaxSlowAccepts
    /\ slowOffers \in 0 .. MaxSlowOffers

Init ==
    /\ deployment \in Deployment
    /\ knownRunners = {}
    /\ pendingTaskOffers = <<>>
    /\ pendingTaskRequests = <<>>
    /\ acceptInProgress = {}
    /\ runnerAcceptRejects = [o \in Offer |-> NoRequest]
    /\ tasks = [o \in Offer |-> NoRequest]
    /\ startTask = [q \in Request |-> "idle"]
    /\ runner = [r \in Runner |-> "down"]
    /\ openOffers = {}
    /\ runningTasks = [o \in Offer |-> "none"]
    /\ toRunner = [r \in Runner |-> <<>>]
    /\ toBroker = [r \in Runner |-> <<>>]
    /\ losses = 0
    /\ slowAccepts = 0
    /\ slowOffers = 0

-----------------------------------------------------------------------------
(* Messages *)

message(kind, o) == [type |-> kind, offer |-> o]

(* The channels to the runners once ms are sent to r; nothing reaches a    *)
(* connection that is gone.                                                *)
sent(r, ms) ==
    [toRunner EXCEPT ![r] = IF runner[r] = "down" THEN @ ELSE @ \o ms]

(* The broker takes the next message of runner r, of the given kind.  It   *)
(* ignores runners it does not know.                                       *)
receive(r, kind, o) ==
    /\ r \in knownRunners
    /\ toBroker[r] # <<>>
    /\ Head(toBroker[r]) = message(kind, o)
    /\ toBroker' = [toBroker EXCEPT ![r] = Tail(@)]

-----------------------------------------------------------------------------
(* settleTasks *)

(* The entries of s that are in S.  SelectSeq, of which the prover knows   *)
(* nothing, is the same.                                                   *)
only(s, S) ==
    LET picked[i \in 0 .. Len(s)] ==
            IF i = 0 THEN <<>>
            ELSE IF s[i] \in S THEN Append(picked[i - 1], s[i]) ELSE picked[i - 1]
    IN  picked[Len(s)]

(* Requests that are pending and not being accepted, by position.  A       *)
(* request that is listed twice is one object with one flag.               *)
free(reqs) ==
    {i \in 1 .. Len(reqs) : /\ reqs[i] \notin acceptInProgress
                            /\ \A j \in 1 .. i - 1 : reqs[j] # reqs[i]}

(***************************************************************************)
(* The loop gives each free request, in order, the first offer of its type *)
(* that is left: the k-th free request of a type gets the k-th offer of    *)
(* that type.                                                              *)
(***************************************************************************)
matches(offs, reqs) ==
    {p \in free(reqs) \X (1 .. Len(offs)) :
        LET t == RequestType[reqs[p[1]]]
        IN  /\ OfferType(offs[p[2]]) = t
            /\ Cardinality({i \in free(reqs) : i <= p[1] /\ RequestType[reqs[i]] = t})
                 = Cardinality({j \in 1 .. p[2] : OfferType(offs[j]) = t})}

(***************************************************************************)
(* Match offers and requests, and start acceptOffer for each pair, up to   *)
(* its await of the runner's answer.                                       *)
(***************************************************************************)
settleTasks(offs, reqs) ==
    LET pairs == matches(offs, reqs)
        taken == {offs[p[2]] : p \in pairs}
        requestOf(o) == reqs[(CHOOSE p \in pairs : offs[p[2]] = o)[1]]
    IN  /\ pendingTaskRequests' = reqs
        /\ pendingTaskOffers' = only(offs, Offer \ taken)
        /\ acceptInProgress' = acceptInProgress \cup {reqs[p[1]] : p \in pairs}
        /\ runnerAcceptRejects' =
               [o \in Offer |-> IF o \in taken THEN requestOf(o) ELSE runnerAcceptRejects[o]]
        /\ toRunner' =
               [r \in Runner |->
                   LET accepted == only(offs, {o \in taken : o[1] = r})
                   IN  sent(r, [i \in 1 .. Len(accepted) |->
                                    message("taskofferaccept", accepted[i])])[r]]

-----------------------------------------------------------------------------
(* The broker and the requester *)

(* TaskRequester.startTask, up to the promise of the task id. *)
StartTask(q) ==
    /\ startTask[q] = "idle"
    /\ startTask' = [startTask EXCEPT ![q] = "requested"]
    /\ settleTasks(pendingTaskOffers, Append(pendingTaskRequests, q))
    /\ UNCHANGED <<deployment, knownRunners, tasks, runnerVars, toBroker, bounds>>

TaskOffered(r, o) ==
    /\ receive(r, "taskoffer", o)
    /\ settleTasks(Append(pendingTaskOffers, o), pendingTaskRequests)
    /\ UNCHANGED <<deployment, knownRunners, tasks, startTask, runnerVars, bounds>>

(***************************************************************************)
(* A pending offer expires; those of a launcher never do.  expireTasks     *)
(* drops it when settleTasks looks at the offers next, and nobody else     *)
(* does, so that it can as well be dropped at once.                        *)
(***************************************************************************)
OfferLapses(o) ==
    /\ o \in Range(pendingTaskOffers)
    /\ o[1] \notin Launcher
    /\ pendingTaskOffers' = only(pendingTaskOffers, Offer \ {o})
    /\ UNCHANGED <<deployment, knownRunners, pendingTaskRequests,
                   acceptInProgress, runnerAcceptRejects, tasks, startTask, runnerVars,
                   toRunner, toBroker, bounds>>

(* The requests without the first entry of q. *)
removeFirst(reqs, q) ==
    LET i == CHOOSE i \in 1 .. Len(reqs) : reqs[i] = q /\ \A j \in 1 .. i - 1 : reqs[j] # q
    IN  SubSeq(reqs, 1, i - 1) \o SubSeq(reqs, i + 1, Len(reqs))

(***************************************************************************)
(* acceptOffer once the runner accepted.  The task stays without settings  *)
(* if its request is not pending any more; it is canceled if the requester *)
(* does not await it.                                                      *)
(***************************************************************************)
createTask(r, o, q) ==
    IF q \in Range(pendingTaskRequests)
    THEN /\ pendingTaskRequests' = removeFirst(pendingTaskRequests, q)
         /\ IF startTask[q] = "requested"
            THEN /\ tasks' = [tasks EXCEPT ![o] = q]
                 /\ startTask' = [startTask EXCEPT ![q] = "started"]
                 /\ toRunner' = sent(r, <<message("tasksettings", o)>>)
            ELSE /\ toRunner' = sent(r, <<message("taskcancel", o)>>)
                 /\ UNCHANGED <<tasks, startTask>>
    ELSE /\ tasks' = [tasks EXCEPT ![o] = q]
         /\ UNCHANGED <<pendingTaskRequests, startTask, toRunner>>

(***************************************************************************)
(* handleRunnerAccept and the rest of acceptOffer: the task is created,    *)
(* its request leaves the pending ones, the requester learns the task id   *)
(* and answers with the settings, which go to the runner.  An answer after *)
(* the accept window has no effect.                                        *)
(***************************************************************************)
TaskAccepted(r, o) ==
    /\ receive(r, "taskaccepted", o)
    /\ \/ /\ runnerAcceptRejects[o] = NoRequest
          /\ UNCHANGED <<pendingTaskRequests, runnerAcceptRejects, tasks, startTask, toRunner>>
       \/ /\ runnerAcceptRejects[o] # NoRequest
          /\ runnerAcceptRejects' = [runnerAcceptRejects EXCEPT ![o] = NoRequest]
          /\ createTask(r, o, runnerAcceptRejects[o])
    /\ UNCHANGED <<deployment, knownRunners, pendingTaskOffers,
                   acceptInProgress, runnerVars, bounds>>

(* Mutant: the request stays marked as being accepted. *)
acceptFailsMarked(o, reqs) ==
    /\ runnerAcceptRejects' = [runnerAcceptRejects EXCEPT ![o] = NoRequest]
    /\ acceptInProgress' = acceptInProgress
    /\ pendingTaskRequests' = reqs

(* The promise of acceptOffer is rejected: the request is free again. *)
acceptFails(o, reqs) ==
    /\ runnerAcceptRejects' = [runnerAcceptRejects EXCEPT ![o] = NoRequest]
    /\ acceptInProgress' = acceptInProgress \ {runnerAcceptRejects[o]}
    /\ pendingTaskRequests' = reqs

TaskRejected(r, o) ==
    /\ receive(r, "taskrejected", o)
    /\ acceptFails(o, pendingTaskRequests)
    /\ UNCHANGED <<deployment, knownRunners, pendingTaskOffers, tasks,
                   startTask, runnerVars, toRunner, bounds>>

(* A deferred request is pushed once more. *)
TaskDeferred(r, o) ==
    /\ receive(r, "taskdeferred", o)
    /\ LET q == runnerAcceptRejects[o]
       IN  acceptFails(o, IF q = NoRequest THEN pendingTaskRequests
                          ELSE Append(pendingTaskRequests, q))
    /\ UNCHANGED <<deployment, knownRunners, pendingTaskOffers, tasks,
                   startTask, runnerVars, toRunner, bounds>>

(* The question whether runner r takes offer o, or its answer, is on the   *)
(* way.                                                                    *)
answerIsComing(r, o) ==
    \/ \E i \in 1 .. Len(toRunner[r]) : toRunner[r][i] = message("taskofferaccept", o)
    \/ \E i \in 1 .. Len(toBroker[r]) :
          \E kind \in {"taskaccepted", "taskrejected", "taskdeferred"} :
              toBroker[r][i] = message(kind, o)

(* Mutant: an answer after the accept window is still honoured. *)
AcceptTimeoutHonoured(o) ==
    /\ runnerAcceptRejects[o] # NoRequest
    /\ answerIsComing(o[1], o) => slowAccepts < MaxSlowAccepts
    /\ slowAccepts' = IF answerIsComing(o[1], o) THEN slowAccepts + 1 ELSE slowAccepts
    /\ acceptInProgress' = acceptInProgress \ {runnerAcceptRejects[o]}
    /\ UNCHANGED <<deployment, knownRunners, pendingTaskOffers,
                   pendingTaskRequests, runnerAcceptRejects, tasks, startTask,
                   runnerVars, toRunner, toBroker, losses, slowOffers>>

(***************************************************************************)
(* The runner did not answer within two seconds: its connection was lost,  *)
(* or, within the bound, it is slow.  The code keeps the callbacks of the  *)
(* settled promise, and calling them later has no effect.                  *)
(***************************************************************************)
AcceptTimeout(o) ==
    /\ runnerAcceptRejects[o] # NoRequest
    /\ answerIsComing(o[1], o) => slowAccepts < MaxSlowAccepts
    /\ slowAccepts' = IF answerIsComing(o[1], o) THEN slowAccepts + 1 ELSE slowAccepts
    /\ acceptFails(o, pendingTaskRequests)
    /\ UNCHANGED <<deployment, knownRunners, pendingTaskOffers, tasks,
                   startTask, runnerVars, toRunner, toBroker, losses, slowOffers>>

(* Mutant: the task is not deleted. *)
settleResultAndKeep(o, result) ==
    /\ tasks' = tasks
    /\ startTask' = IF tasks[o] = NoRequest THEN startTask
                    ELSE [startTask EXCEPT ![tasks[o]] = result]

(* The requester's promise for the result of task o, if the task is known. *)
settleResult(o, result) ==
    /\ tasks' = [tasks EXCEPT ![o] = NoRequest]
    /\ startTask' = IF tasks[o] = NoRequest THEN startTask
                    ELSE [startTask EXCEPT ![tasks[o]] = result]

(* Mutant: the message is handed to the requester as its result. *)
TaskEndedVerbatim(r, o, kind) ==
    /\ receive(r, kind, o)
    /\ settleResult(o, kind)
    /\ UNCHANGED <<deployment, knownRunners, pendingTaskOffers,
                   pendingTaskRequests, acceptInProgress, runnerAcceptRejects,
                   runnerVars, toRunner, bounds>>

(* taskDoneHandler and taskErrorHandler. *)
TaskEnded(r, o, kind) ==
    /\ receive(r, kind, o)
    /\ settleResult(o, IF kind = "taskdone" THEN "done" ELSE "error")
    /\ UNCHANGED <<deployment, knownRunners, pendingTaskOffers,
                   pendingTaskRequests, acceptInProgress, runnerAcceptRejects,
                   runnerVars, toRunner, bounds>>

(* What becomes of the tasks and offers of a runner process that ends. *)
gone(r) ==
    /\ runner' = [runner EXCEPT ![r] = "down"]
    /\ openOffers' = {o \in openOffers : o[1] # r}
    /\ runningTasks' = [o \in Offer |-> IF o[1] = r THEN "none" ELSE runningTasks[o]]

(***************************************************************************)
(* handleTaskTimeout: the requester gets an error, and the runner is told  *)
(* to cancel the task, or, in internal mode, its process is replaced.      *)
(***************************************************************************)
TaskTimeout(o) ==
    /\ tasks[o] # NoRequest
    /\ settleResult(o, "error")
    /\ \/ /\ InternalMode
          /\ gone(o[1])
          /\ toRunner' = [toRunner EXCEPT ![o[1]] = <<>>]
       \/ /\ ~InternalMode
          /\ toRunner' = sent(o[1], <<message("taskcancel", o)>>)
          /\ UNCHANGED runnerVars
    /\ UNCHANGED <<deployment, knownRunners, pendingTaskOffers,
                   pendingTaskRequests, acceptInProgress, runnerAcceptRejects, toBroker,
                   bounds>>

(* Mutant: the requesters of the lost tasks are not told. *)
DeregisterRunnerSilently(r) ==
    /\ r \in knownRunners
    /\ runner[r] = "down"
    /\ knownRunners' = knownRunners \ {r}
    /\ pendingTaskOffers' = only(pendingTaskOffers, {o \in Offer : o[1] # r})
    /\ tasks' = [o \in Offer |-> IF o[1] = r THEN NoRequest ELSE tasks[o]]
    /\ toBroker' = [toBroker EXCEPT ![r] = <<>>]
    /\ UNCHANGED <<deployment, pendingTaskRequests, acceptInProgress,
                   runnerAcceptRejects, startTask, runnerVars, toRunner, bounds>>

(* The broker notices that the connection of r is closed: deregisterRunner *)
(* drops its offers and fails its tasks.                                   *)
DeregisterRunner(r) ==
    /\ r \in knownRunners
    /\ runner[r] = "down"
    /\ knownRunners' = knownRunners \ {r}
    /\ pendingTaskOffers' = only(pendingTaskOffers, {o \in Offer : o[1] # r})
    /\ tasks' = [o \in Offer |-> IF o[1] = r THEN NoRequest ELSE tasks[o]]
    /\ startTask' = [q \in Request |->
                        IF \E o \in Offer : o[1] = r /\ tasks[o] = q
                        THEN "error" ELSE startTask[q]]
    /\ toBroker' = [toBroker EXCEPT ![r] = <<>>]
    /\ UNCHANGED <<deployment, pendingTaskRequests, acceptInProgress,
                   runnerAcceptRejects, runnerVars, toRunner, bounds>>

-----------------------------------------------------------------------------
(* The runners *)

(* A runner process connects, says who it is and is registered. *)
Connect(r) ==
    /\ r \in deployment.runners \cup Launcher
    /\ runner[r] = "down"
    /\ r \notin knownRunners
    /\ r \in Launcher => losses < MaxLosses
    /\ losses' = IF r \in Launcher THEN losses + 1 ELSE losses
    /\ runner' = [runner EXCEPT ![r] = "connected"]
    /\ knownRunners' = knownRunners \cup {r}
    /\ toRunner' = [toRunner EXCEPT ![r] = <<[type |-> "runnerregistered"]>>]
    /\ UNCHANGED <<deployment, pendingTaskOffers, pendingTaskRequests,
                   acceptInProgress, runnerAcceptRejects, tasks, startTask, openOffers,
                   runningTasks, toBroker, slowAccepts, slowOffers>>

(* The runner takes its next message. *)
take(r) ==
    /\ toRunner[r] # <<>>
    /\ toRunner' = [toRunner EXCEPT ![r] = Tail(@)]

StartTaskOffers(r) ==
    /\ take(r)
    /\ Head(toRunner[r]).type = "runnerregistered"
    /\ runner' = [runner EXCEPT ![r] = IF @ = "connected" THEN "offering" ELSE @]
    /\ UNCHANGED <<deployment, brokerVars, startTask, openOffers, runningTasks,
                   toBroker, bounds>>

ofRunner(S, r) == {o \in S : o[1] = r}

Held == {o \in Offer : runningTasks[o] # "none"}

(* Offers of r that are mentioned anywhere, as the names of offers are not *)
(* used again.                                                             *)
inUse(r) ==
    UNION { openOffers, Held, Range(pendingTaskOffers),
            {o \in Offer : runnerAcceptRejects[o] # NoRequest \/ tasks[o] # NoRequest},
            {o \in ofRunner(Offer, r) :
                \/ \E i \in 1 .. Len(toRunner[r]) :
                      toRunner[r][i].type # "runnerregistered" /\ toRunner[r][i].offer = o
                \/ \E i \in 1 .. Len(toBroker[r]) : toBroker[r][i].offer = o} }

(* Offers that are still valid for the broker, or being accepted. *)
current(o) ==
    \/ o \in Range(pendingTaskOffers)
    \/ \E i \in 1 .. Len(toRunner[o[1]]) : toRunner[o[1]][i] = message("taskofferaccept", o)
    \/ \E i \in 1 .. Len(toBroker[o[1]]) : toBroker[o[1]][i] = message("taskoffer", o)

(***************************************************************************)
(* sendOffers: stale offers are dropped, and as many are made as the runner*)
(* can take, given the tasks `held` it holds.  An offer is valid in the    *)
(* runner for longer than in the broker; a slow message can still let one  *)
(* lapse that is being accepted.  `done` is sent ahead of the offers.      *)
(***************************************************************************)
sendOffers(r, stale, held, done) ==
    LET open == ofRunner(openOffers, r) \ stale
        room == IF runner[r] # "offering" THEN 0
                ELSE MaxConcurrency - (Cardinality(open) + Cardinality(ofRunner(held, r)))
        unused == {n \in 1 .. MaxOffer : <<r, n>> \notin inUse(r)}
        offered == SetToSeq({n \in unused : Cardinality({m \in unused : m <= n}) <= room})
    IN  /\ stale \subseteq ofRunner(openOffers, r)
        /\ Cardinality({o \in stale : current(o)}) <= MaxSlowOffers - slowOffers
        /\ slowOffers' = slowOffers + Cardinality({o \in stale : current(o)})
        /\ openOffers' = (openOffers \ stale) \cup {<<r, n>> : n \in Range(offered)}
        /\ toBroker' = [toBroker EXCEPT ![r] = @ \o done \o
                           [i \in 1 .. Len(offered) |-> message("taskoffer", <<r, offered[i]>>)]]

(* The interval timer of the offers. *)
OfferInterval(r) ==
    /\ runner[r] = "offering"
    /\ \E stale \in SUBSET ofRunner(openOffers, r) : sendOffers(r, stale, Held, <<>>)
    /\ UNCHANGED <<deployment, brokerVars, startTask, runner, runningTasks, toRunner,
                   losses, slowAccepts>>

(* Mutant: a runner takes a task whose offer it has dropped. *)
OfferAcceptedUnchecked(r, o) ==
    /\ take(r)
    /\ Head(toRunner[r]) = message("taskofferaccept", o)
    /\ openOffers' = openOffers \ {o}
    /\ r \notin Launcher
    /\ runningTasks' = [runningTasks EXCEPT ![o] = "waitingForSettings"]
    /\ toBroker' = [toBroker EXCEPT ![r] = Append(@, message("taskaccepted", o))]
    /\ UNCHANGED <<deployment, brokerVars, startTask, runner, bounds>>

(* offerAccepted: the task is rejected when the runner is full or has      *)
(* dropped the offer.                                                      *)
OfferAccepted(r, o) ==
    /\ take(r)
    /\ Head(toRunner[r]) = message("taskofferaccept", o)
    /\ openOffers' = openOffers \ {o}
    /\ r \notin Launcher
    /\ \/ /\ o \in openOffers /\ Cardinality(ofRunner(Held, r)) < MaxConcurrency
          /\ runningTasks' = [runningTasks EXCEPT ![o] = "waitingForSettings"]
          /\ toBroker' = [toBroker EXCEPT ![r] = Append(@, message("taskaccepted", o))]
       \/ /\ o \notin openOffers \/ Cardinality(ofRunner(Held, r)) >= MaxConcurrency
          /\ toBroker' = [toBroker EXCEPT ![r] = Append(@, message("taskrejected", o))]
          /\ UNCHANGED runningTasks
    /\ UNCHANGED <<deployment, brokerVars, startTask, runner, bounds>>

(* The launcher defers the task and leaves, to start a runner. *)
LauncherDefers(r, o) ==
    /\ take(r)
    /\ Head(toRunner[r]) = message("taskofferaccept", o)
    /\ r \in Launcher
    /\ openOffers' = openOffers \ {o}
    /\ runner' = [runner EXCEPT ![r] = "stopping"]
    /\ toBroker' = [toBroker EXCEPT ![r] = Append(@, message("taskdeferred", o))]
    /\ UNCHANGED <<deployment, brokerVars, startTask, runningTasks, bounds>>

(* receivedSettings: the task starts to run. *)
ReceivedSettings(r, o) ==
    /\ take(r)
    /\ Head(toRunner[r]) = message("tasksettings", o)
    /\ runningTasks' = [runningTasks EXCEPT ![o] = IF @ = "waitingForSettings" THEN "running" ELSE @]
    /\ UNCHANGED <<deployment, brokerVars, startTask, runner, openOffers, toBroker,
                   bounds>>

(* finishTask: the task is dropped and new offers are sent after `done`. *)
finishTask(o, done) ==
    /\ runningTasks' = [runningTasks EXCEPT ![o] = "none"]
    /\ \E stale \in SUBSET ofRunner(openOffers, o[1]) :
          sendOffers(o[1], stale, Held \ {o}, done)

TaskCancelled(r, o) ==
    /\ take(r)
    /\ Head(toRunner[r]) = message("taskcancel", o)
    /\ \/ /\ runningTasks[o] = "waitingForSettings"
          /\ finishTask(o, <<>>)
       \/ /\ runningTasks[o] # "waitingForSettings"
          /\ runningTasks' = [runningTasks EXCEPT ![o] = IF @ = "running" THEN "aborting:cancelled" ELSE @]
          /\ UNCHANGED <<openOffers, toBroker, slowOffers>>
    /\ UNCHANGED <<deployment, brokerVars, startTask, runner, losses, slowAccepts>>

(* Mutant: the timer only ends tasks that run. *)
TaskTimedOutRunning(o) ==
    /\ runningTasks[o] = "running"
    /\ runningTasks' = [runningTasks EXCEPT ![o] = "aborting:timeout"]
    /\ UNCHANGED <<deployment, brokerVars, startTask, runner, openOffers, toRunner,
                   toBroker, bounds>>

(* The runner's own timer, which fires once. *)
TaskTimedOut(o) ==
    /\ \/ /\ runningTasks[o] = "waitingForSettings"
          /\ finishTask(o, <<message("taskerror", o)>>)
       \/ /\ runningTasks[o] = "running"
          /\ runningTasks' = [runningTasks EXCEPT ![o] = "aborting:timeout"]
          /\ UNCHANGED <<openOffers, toBroker, slowOffers>>
    /\ UNCHANGED <<deployment, brokerVars, startTask, runner, toRunner, losses,
                   slowAccepts>>

(* Mutant: a task that timed out reports nothing either. *)
ExecutionEndsSilently(o, kind) ==
    /\ \/ /\ runningTasks[o] = "running"
          /\ finishTask(o, <<message(kind, o)>>)
       \/ /\ runningTasks[o] \in {"aborting:timeout", "aborting:cancelled"}
          /\ finishTask(o, <<>>)
    /\ UNCHANGED <<deployment, brokerVars, startTask, runner, toRunner, losses,
                   slowAccepts>>

(* taskExecutionSucceeded and taskExecutionFailed; a canceled task reports *)
(* nothing.                                                                *)
ExecutionEnds(o, kind) ==
    /\ \/ /\ runningTasks[o] \in {"running", "aborting:timeout"}
          /\ finishTask(o, <<message(kind, o)>>)
       \/ /\ runningTasks[o] = "aborting:cancelled"
          /\ finishTask(o, <<>>)
    /\ UNCHANGED <<deployment, brokerVars, startTask, runner, toRunner, losses,
                   slowAccepts>>

(* stop: no more offers; the connection is closed when no task is left. *)
Stop(r) ==
    /\ runner[r] = "offering"
    /\ losses < MaxLosses
    /\ losses' = losses + 1
    /\ runner' = [runner EXCEPT ![r] = "stopping"]
    /\ UNCHANGED <<deployment, brokerVars, startTask, openOffers, runningTasks,
                   toRunner, toBroker, slowAccepts, slowOffers>>

StopDone(r) ==
    /\ runner[r] = "stopping"
    /\ ofRunner(Held, r) = {}
    /\ gone(r)
    /\ toRunner' = [toRunner EXCEPT ![r] = <<>>]
    /\ UNCHANGED <<deployment, brokerVars, startTask, toBroker, bounds>>

(* The process crashes, or its connection breaks. *)
Crash(r) ==
    /\ runner[r] # "down"
    /\ losses < MaxLosses
    /\ losses' = losses + 1
    /\ gone(r)
    /\ toRunner' = [toRunner EXCEPT ![r] = <<>>]
    /\ UNCHANGED <<deployment, brokerVars, startTask, toBroker, slowAccepts,
                   slowOffers>>

-----------------------------------------------------------------------------
RunnerMessage(r) ==
    \E o \in ofRunner(Offer, r) :
        \/ TaskOffered(r, o) \/ TaskAccepted(r, o)
        \/ TaskRejected(r, o) \/ TaskDeferred(r, o)
        \/ \E kind \in {"taskdone", "taskerror"} : TaskEnded(r, o, kind)

BrokerMessage(r) ==
    \/ StartTaskOffers(r)
    \/ \E o \in ofRunner(Offer, r) :
          \/ OfferAccepted(r, o) \/ LauncherDefers(r, o)
          \/ ReceivedSettings(r, o) \/ TaskCancelled(r, o)

Ends(o) == \E kind \in {"taskdone", "taskerror"} : ExecutionEnds(o, kind)

Next ==
    \/ \E q \in Request : StartTask(q)
    \/ \E r \in Runner :
          \/ RunnerMessage(r) \/ BrokerMessage(r)
          \/ Connect(r) \/ DeregisterRunner(r) \/ OfferInterval(r)
          \/ Stop(r) \/ StopDone(r) \/ Crash(r)
    \/ \E o \in Offer :
          \/ OfferLapses(o) \/ AcceptTimeout(o) \/ TaskTimeout(o)
          \/ TaskTimedOut(o) \/ Ends(o)

Spec == Init /\ [][Next]_vars

(***************************************************************************)
(* Messages arrive, timers fire, closed connections are noticed, ended     *)
(* runner processes are replaced and task code ends.                       *)
(***************************************************************************)
Fairness ==
    /\ \A r \in Runner :
         /\ WF_vars(RunnerMessage(r)) /\ WF_vars(BrokerMessage(r))
         /\ WF_vars(Connect(r)) /\ WF_vars(DeregisterRunner(r)) /\ WF_vars(StopDone(r))
         /\ WF_vars(OfferInterval(r))
    /\ \A o \in Offer :
         /\ WF_vars(OfferLapses(o)) /\ WF_vars(AcceptTimeout(o))
         /\ WF_vars(TaskTimedOut(o)) /\ WF_vars(Ends(o))

FairSpec == Spec /\ Fairness

-----------------------------------------------------------------------------
(* Properties *)

(***************************************************************************)
(* When a runner accepts a task, its request is still pending: the case    *)
(* logged as "This shouldn't happen, and might be a race condition" in     *)
(* acceptOffer does not happen.                                            *)
(***************************************************************************)
RequestIsFound ==
    \A o \in Offer :
        runnerAcceptRejects[o] # NoRequest =>
            /\ runnerAcceptRejects[o] \in Range(pendingTaskRequests)
            /\ startTask[runnerAcceptRejects[o]] = "requested"

(***************************************************************************)
(* A request is never offered to two runners at a time, and never runs as  *)
(* two tasks: timeouts, rejections and late answers do not overlap         *)
(* (acceptInProgress in settleTasks and acceptOffer).                      *)
(***************************************************************************)
OneAttemptPerRequest ==
    \A o, p \in Offer : \A q \in Request :
        (q \in {runnerAcceptRejects[o], tasks[o]} /\ q \in {runnerAcceptRejects[p], tasks[p]})
            => o = p /\ ~(runnerAcceptRejects[o] = q /\ tasks[o] = q)

(***************************************************************************)
(* A runner never has more offers and tasks together than it can execute,  *)
(* so that a task it is given always finds a slot (sendOffers).            *)
(***************************************************************************)
WithinConcurrency ==
    \A r \in Runner :
        Cardinality(ofRunner(openOffers, r)) + Cardinality(ofRunner(Held, r)) <= MaxConcurrency

(***************************************************************************)
(* The broker and a live runner agree: a task the broker knows is held by  *)
(* its runner, or its result is on the way (onRunnerMessage, finishTask).  *)
(***************************************************************************)
TaskIsHeld ==
    \A o \in Offer :
        (tasks[o] # NoRequest /\ runner[o[1]] # "down") =>
            \/ runningTasks[o] # "none"
            \/ \E i \in 1 .. Len(toBroker[o[1]]) :
                  toBroker[o[1]][i] \in {message("taskdone", o), message("taskerror", o)}

(***************************************************************************)
(* A call that was told its task id has a task in the broker, whose end    *)
(* will settle it: no call waits for a task that is forgotten              *)
(* (failTask, taskErrorHandler, handleTaskTimeout).                        *)
(***************************************************************************)
StartedHasTask ==
    \A q \in Request : startTask[q] = "started" <=> \E o \in Offer : tasks[o] = q

TD == INSTANCE TaskDispatch WITH
          Call <- Request, NoCall <- NoRequest, CallType <- RequestType,
          Place <- Offer, PlaceType <- [o \in Offer |-> OfferType(o)],
          call <- startTask, asked <- runnerAcceptRejects, task <- tasks

(***************************************************************************)
(* Broker and requester implement the dispatch of tasks: whatever crosses  *)
(* on the network, times out, is deferred or lost, each call is with one   *)
(* runner of its type at a time, runs once, on the runner that was asked   *)
(* last, and ends once (settleTasks, acceptOffer, onRunnerMessage,         *)
(* handleTaskTimeout, deregisterRunner and the promises of startTask).     *)
(***************************************************************************)
IsTaskDispatch == TD!Spec

(***************************************************************************)
(* The result of a call is final: a late result, timeout or disconnect     *)
(* does not reach the requester a second time.                             *)
(***************************************************************************)
ResultIsFinal ==
    [][\A q \in Request :
          startTask[q] \in {"done", "error"} => startTask'[q] = startTask[q]]_vars

(***************************************************************************)
(* Every call of startTask is settled in the end, through lost runners,    *)
(* slow answers and expired offers.                                        *)
(***************************************************************************)
EveryCallSettles ==
    \A q \in Request : (startTask[q] = "requested") ~> (startTask[q] \in {"done", "error"})

(***************************************************************************)
(* A runner gets every slot back, also that of a task whose acceptance     *)
(* came too late for the broker (taskTimedOut).                            *)
(***************************************************************************)
SlotIsFreed ==
    \A o \in Offer : (runningTasks[o] # "none") ~> (runningTasks[o] = "none")

=============================================================================
