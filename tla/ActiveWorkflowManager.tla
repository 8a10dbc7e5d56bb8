----------------------- MODULE ActiveWorkflowManager -----------------------
(***************************************************************************)
(* Activation of one workflow, which has a webhook, a trigger and a        *)
(* poller: ActiveWorkflowManager and ActiveWorkflows in each main process, *)
(* WorkflowService.update, which a user calls on any main process, and,    *)
(* with several main processes, the commands that they publish and the     *)
(* events of the election.  Only the leader runs triggers and pollers.     *)
(*                                                                         *)
(* add and remove are asynchronous.  Each one in progress is an operation, *)
(* and operations of one process overlap at every await.                   *)
(***************************************************************************)
EXTENDS Naturals, Sequences, FiniteSets, FiniteSetsExt

CONSTANTS
    Main,          \* main processes
    FirstMain,     \* the only one without the multi-main setup
    NoMain,
    NoEntry,
    Deployment,    \* setups to consider, each with the bounds for it
    MaxOperations, \* bound: operations in progress at the same time
    MaxTriggers    \* bound: triggers of a process that run or are referred to

ASSUME ManagerAssumption ==
    /\ FirstMain \in Main
    /\ NoMain \notin Main
    /\ Deployment \subseteq [isMultiMain : BOOLEAN,
                              updates : Nat,      \* by users
                              failures : Nat,     \* of webhooks, triggers, polls and closing
                              stepdowns : Nat]
    /\ MaxOperations \in Nat
    /\ MaxTriggers \in Nat
    /\ \A S \in SUBSET (1 .. MaxTriggers) : S # NoEntry

VARIABLES
    deployment,     \* whether the multi-main setup is enabled, and bounds
    leader,         \* the process that leads, if any
    initialized,    \* processes that have started to activate workflows
    active,         \* column of the workflow's row
    webhook,        \* whether the webhook is in the table webhook_entity
    running,        \* triggers that run in each process
    crons,          \* cron jobs of the poller in each process
    entry,          \* activeWorkflows[id]: the triggers a process refers to
    queued,         \* queuedActivations[id]: "none", "timer" or "fired"
    timers,         \* timers for retries that are set in each process
    operations,     \* operations in progress
    inbox,          \* commands published and not received
    request,        \* the update in progress
    counts,         \* of what is bounded
    stranded,       \* triggers that run although adding the workflow, or closing them, failed
    disturbed,      \* whether operations have overlapped
    revived,        \* whether a trigger failed while the workflow was inactive
    gaveUp          \* whether an activation or an update was given up, and none came after it

vars == <<deployment, leader, initialized, active, webhook, running, crons, entry, queued, timers,
          operations, inbox, request, counts, stranded, disturbed, revived, gaveUp>>

(* The last four are read by properties only. *)
history == <<stranded, disturbed, revived, gaveUp>>

isMultiMain == deployment.isMultiMain

Mains == IF isMultiMain THEN Main ELSE {FirstMain}

isLeader(m) == leader = m

(***************************************************************************)
(* An operation: what it does, for whom, and how far it is.  A `remove`    *)
(* has captured the triggers to close, an `add` those that it has run; it  *)
(* decides when it starts what it will add.                                *)
(***************************************************************************)
NoOperation == [main |-> NoMain, does |-> "none", caller |-> "none", step |-> "none",
                webhooks |-> FALSE, triggers |-> FALSE, captured |-> {}]

NoRequest == [target |-> FALSE, step |-> "none"]

Trigger == 1 .. MaxTriggers

Operation ==
    [main : Main \cup {NoMain}, does : {"none", "add", "remove"},
     caller : {"none", "init", "leadershipChange", "command", "retry", "update", "stepdown", "error"},
     step : {"none", "list", "load", "webhooks", "trigger", "poll", "check", "close"},
     webhooks : BOOLEAN, triggers : BOOLEAN, captured : SUBSET Trigger]

(* Types.  A retry that queuedActivations refers to has its timer set, so  *)
(* that removeQueuedWorkflowActivation never clears the timer of another.  *)
ManagerTypeOK ==
    /\ deployment \in Deployment
    /\ leader \in Mains \cup {NoMain}
    /\ initialized \subseteq Mains
    /\ active \in BOOLEAN
    /\ webhook \in BOOLEAN
    /\ running \in [Main -> SUBSET Trigger]
    /\ crons \in [Main -> Nat]
    /\ entry \in [Main -> (SUBSET Trigger) \cup {NoEntry}]
    /\ queued \in [Main -> {"none", "timer", "fired"}]
    /\ timers \in [Main -> Nat]
    /\ \A m \in Main : queued[m] = "timer" => timers[m] > 0
    /\ operations \in [1 .. MaxOperations -> Operation]
    /\ inbox \in [Main -> Seq({"add", "remove"})]
    /\ request \in [target : BOOLEAN, step : {"none", "clear", "removing", "write", "adding"}]
    /\ counts \in [updates : 0 .. deployment.updates, failures : 0 .. deployment.failures,
                   stepdowns : 0 .. deployment.stepdowns]
    /\ \A m \in Main : stranded[m] \subseteq running[m]
    /\ stranded \in [Main -> SUBSET Trigger]
    /\ disturbed \in BOOLEAN
    /\ revived \in BOOLEAN
    /\ gaveUp \in BOOLEAN

(* The first election comes before the handlers of its events are set; as  *)
(* the processes are alike, it does not matter who wins it.                *)
(* Webhooks have stayed registered when the processes ended.               *)
Init ==
    /\ deployment \in Deployment
    /\ leader \in IF isMultiMain THEN {FirstMain, NoMain} ELSE {FirstMain}
    /\ initialized = {}
    /\ active \in BOOLEAN
    /\ webhook = active
    /\ running = [m \in Main |-> {}]
    /\ crons = [m \in Main |-> 0]
    /\ entry = [m \in Main |-> NoEntry]
    /\ queued = [m \in Main |-> "none"]
    /\ timers = [m \in Main |-> 0]
    /\ operations = [k \in 1 .. MaxOperations |-> NoOperation]
    /\ inbox = [m \in Main |-> <<>>]
    /\ request = NoRequest
    /\ counts = [updates |-> 0, failures |-> 0, stepdowns |-> 0]
    /\ stranded = [m \in Main |-> {}]
    /\ disturbed = FALSE
    /\ revived = FALSE
    /\ gaveUp = FALSE

-----------------------------------------------------------------------------
(* Operations *)

idle == {k \in 1 .. MaxOperations : operations[k].does = "none"}

(* Something is in progress to which an operation of this caller in this   *)
(* process does not belong: the start of a process, an update or its       *)
(* commands, or another operation, unless it is the removal in another     *)
(* process, which has stepped down.                                        *)
busy(main, caller) ==
    \/ \E k \in (1 .. MaxOperations) \ idle :
          operations[k].main = main \/ operations[k].caller # "stepdown"
    \/ caller # "init" /\ initialized # Mains
    \/ /\ caller \notin {"command", "update"}
       /\ request # NoRequest \/ \E m \in Mains : inbox[m] # <<>>

(* Operation o starts. *)
starts(o) ==
    /\ idle # {}
    /\ operations' = [operations EXCEPT ![Min(idle)] = o]
    /\ disturbed' = (disturbed \/ busy(o.main, o.caller))

(* shouldAddWebhooks and shouldAddTriggersAndPollers *)
add(m, caller, step) ==
    [NoOperation EXCEPT !.main = m, !.does = "add", !.caller = caller, !.step = step,
                        !.webhooks = (caller # "leadershipChange"), !.triggers = isLeader(m)]

remove(m, caller) ==
    [NoOperation EXCEPT !.main = m, !.does = "remove", !.caller = caller, !.step = "check"]

(* ActiveWorkflows.remove, when it has found the entry. *)
closing(o) == [o EXCEPT !.step = "close", !.captured = entry[o.main]]

deregisterCrons(m) == crons' = [crons EXCEPT ![m] = 0]

goesTo(k, step) == operations' = [operations EXCEPT ![k].step = step]

(* The operation ends, and with it the wait of the update that called it. *)
ends(k) ==
    /\ operations' = [operations EXCEPT ![k] = NoOperation]
    /\ request' = IF operations[k].caller = "update"
                  THEN IF request.step = "removing" THEN [request EXCEPT !.step = "write"] ELSE NoRequest
                  ELSE request

(* The command is sent to the process that publishes it too. *)
publish(command) == inbox' = [m \in Main |-> Append(inbox[m], command)]

(* Mutant: the entry is not deleted. *)
removeQueuedTimer(m) ==
    /\ timers' = [timers EXCEPT ![m] = IF queued[m] = "timer" THEN @ - 1 ELSE @]
    /\ UNCHANGED queued

removeQueued(m) ==
    /\ timers' = [timers EXCEPT ![m] = IF queued[m] = "timer" THEN @ - 1 ELSE @]
    /\ queued' = [queued EXCEPT ![m] = "none"]

addQueued(m) ==
    /\ timers' = [timers EXCEPT ![m] = IF queued[m] = "timer" THEN @ ELSE @ + 1]
    /\ queued' = [queued EXCEPT ![m] = "timer"]

-----------------------------------------------------------------------------
(* add *)

(* addActiveWorkflows lists the active workflows, and activateWorkflow     *)
(* reads each of them again when its batch has come.                       *)
Load(k) ==
    LET o == operations[k]
    IN  /\ o.step \in {"list", "load"}
        /\ IF active
           THEN /\ operations' = [operations EXCEPT ![k] =
                       IF o.step = "list" THEN [o EXCEPT !.step = "load"]
                                          ELSE add(o.main, o.caller, "webhooks")]
                /\ UNCHANGED request
           ELSE ends(k)
        /\ UNCHANGED <<deployment, leader, initialized, active, webhook, running, crons, entry,
                       queued, timers, inbox, counts, history>>

(* The workflow is activated: no retry is left. *)
completes(k) == removeQueued(operations[k].main) /\ ends(k)

AddWebhooks(k) ==
    LET o == operations[k]
    IN  /\ o.step = "webhooks"
        /\ webhook' = (webhook \/ o.webhooks)
        /\ IF o.triggers
           THEN goesTo(k, "trigger") /\ UNCHANGED <<queued, timers, request>>
           ELSE completes(k)
        /\ UNCHANGED <<deployment, leader, initialized, active, running, crons, entry, inbox, counts,
                       history>>

(* Triggers that do not run in the process and that nothing refers to. *)
freshTriggers(m) ==
    Trigger \ (running[m] \cup UNION {operations[k].captured : k \in 1 .. MaxOperations})

(* ActiveWorkflows.add, up to the entry for the trigger that now runs. *)
RunTrigger(k) ==
    LET m == operations[k].main
        t == Min(freshTriggers(m))
    IN  /\ operations[k].step = "trigger"
        /\ freshTriggers(m) # {}
        /\ running' = [running EXCEPT ![m] = @ \cup {t}]
        /\ entry' = [entry EXCEPT ![m] = {t}]
        /\ operations' = [operations EXCEPT ![k].step = "poll", ![k].captured = {t}]
        /\ UNCHANGED <<deployment, leader, initialized, active, webhook, crons, queued, timers, inbox,
                       request, counts, history>>

(* The first poll has succeeded. *)
ActivatePolling(k) ==
    LET m == operations[k].main
    IN  /\ operations[k].step = "poll"
        /\ crons' = [crons EXCEPT ![m] = @ + 1]
        /\ completes(k)
        /\ gaveUp' = FALSE
        /\ UNCHANGED <<deployment, leader, initialized, active, webhook, running, entry, inbox, counts,
                       stranded, disturbed, revived>>

(* At start-up and on a change of leadership the activation is queued,     *)
(* unless the error is one of authorization.                               *)
queuesActivation(k) ==
    LET o == operations[k]
    IN  /\ o.caller \in {"init", "leadershipChange"}
        /\ \/ addQueued(o.main) /\ UNCHANGED gaveUp
           \/ gaveUp' = (gaveUp \/ o.triggers) /\ UNCHANGED <<queued, timers>>
        /\ UNCHANGED active

(* A retry is repeated if it is still queued. *)
repeatsRetry(k) ==
    LET m == operations[k].main
    IN  /\ operations[k].caller = "retry"
        /\ IF queued[m] = "none"
           THEN UNCHANGED <<queued, timers>>
           ELSE /\ timers' = [timers EXCEPT ![m] = @ + 1]
                /\ queued' = [queued EXCEPT ![m] = "timer"]
        /\ UNCHANGED <<active, gaveUp>>

(* The handler of a command sets the workflow to inactive. *)
commandDeactivates(k) ==
    /\ operations[k].caller = "command"
    /\ active' = FALSE
    /\ UNCHANGED <<queued, timers, gaveUp>>

(* So does an update. *)
updateDeactivates(k) ==
    /\ operations[k].caller = "update"
    /\ active' = FALSE
    /\ UNCHANGED <<queued, timers, gaveUp>>

(***************************************************************************)
(* A webhook, the trigger or the first poll fails.  Webhooks are cleared   *)
(* only if one of them failed.  A trigger runs on after a failed poll, and *)
(* the entry refers to it.                                                 *)
(***************************************************************************)
AddFails(k) ==
    LET o == operations[k]
        m == o.main
    IN  /\ counts.failures < deployment.failures
        /\ counts' = [counts EXCEPT !.failures = @ + 1]
        /\ \/ o.step = "webhooks" /\ o.webhooks /\ webhook' = FALSE
           \/ o.step \in {"trigger", "poll"} /\ UNCHANGED webhook
        /\ stranded' = [stranded EXCEPT ![m] = @ \cup (o.captured \cap running[m])]
        /\ \/ queuesActivation(k)
           \/ repeatsRetry(k)
           \/ commandDeactivates(k)
           \/ updateDeactivates(k)
        /\ ends(k)
        /\ UNCHANGED <<deployment, leader, initialized, running, crons, entry, inbox, disturbed,
                       revived>>

(***************************************************************************)
(* retryFunction: the timer to which queuedActivations refers fires, or    *)
(* one that it has lost.  With several main processes add only publishes.  *)
(***************************************************************************)
RetryFires(m) ==
    /\ timers[m] > 0
    /\ timers' = [timers EXCEPT ![m] = @ - 1]
    /\ \/ queued[m] = "timer" /\ queued' = [queued EXCEPT ![m] = "fired"]
       \/ timers[m] > (IF queued[m] = "timer" THEN 1 ELSE 0) /\ UNCHANGED queued
    /\ IF isMultiMain
       THEN publish("add") /\ disturbed' = (disturbed \/ busy(m, "retry")) /\ UNCHANGED operations
       ELSE starts(add(m, "retry", "webhooks")) /\ UNCHANGED inbox
    /\ UNCHANGED <<deployment, leader, initialized, active, webhook, running, crons, entry, request,
                   counts, stranded, revived, gaveUp>>

-----------------------------------------------------------------------------
(* remove *)

(* Mutant: remove does not drop the retry. *)
RemoveBeginsWithRetry(k) ==
    LET o == operations[k]
    IN  /\ o.step = "check"
        /\ IF entry[o.main] = NoEntry
           THEN ends(k) /\ UNCHANGED crons
           ELSE /\ operations' = [operations EXCEPT ![k] = closing(o)]
                /\ deregisterCrons(o.main)
                /\ UNCHANGED request
        /\ UNCHANGED <<deployment, leader, initialized, active, webhook, running, entry, queued,
                       timers, inbox, counts, history>>

(* removeWorkflowTriggersAndPollers; remove has dropped the retry before.  *)
RemoveBegins(k) ==
    LET o == operations[k]
    IN  /\ o.step = "check"
        /\ IF o.caller = "update" THEN removeQueued(o.main) ELSE UNCHANGED <<queued, timers>>
        /\ IF entry[o.main] = NoEntry
           THEN ends(k) /\ UNCHANGED crons
           ELSE /\ operations' = [operations EXCEPT ![k] = closing(o)]
                /\ deregisterCrons(o.main)
                /\ UNCHANGED request
        /\ UNCHANGED <<deployment, leader, initialized, active, webhook, running, entry, inbox, counts,
                       history>>

(* The triggers are closed: the entry is deleted, whatever it is by then. *)
RemoveEnds(k) ==
    LET o == operations[k]
    IN  /\ o.step = "close"
        /\ running' = [running EXCEPT ![o.main] = @ \ o.captured]
        /\ stranded' = [stranded EXCEPT ![o.main] = @ \ o.captured]
        /\ entry' = [entry EXCEPT ![o.main] = NoEntry]
        /\ ends(k)
        /\ UNCHANGED <<deployment, leader, initialized, active, webhook, crons, queued, timers, inbox,
                       counts, disturbed, revived, gaveUp>>

(* The removal is rejected: the entry stays, and an update that asked for  *)
(* it is given up before it writes the row.                                *)
rejects(k) ==
    /\ operations' = [operations EXCEPT ![k] = NoOperation]
    /\ UNCHANGED entry
    /\ IF operations[k].caller = "update"
       THEN request' = NoRequest /\ gaveUp' = TRUE
       ELSE UNCHANGED <<request, gaveUp>>

(***************************************************************************)
(* A closeFunction throws; its trigger is closed all the same, or runs on. *)
(* A TriggerCloseError is only logged; any other error rejects, when the   *)
(* cron jobs are gone.                                                     *)
(***************************************************************************)
CloseFails(k) ==
    LET o == operations[k]
        m == o.main
    IN  /\ o.step = "close"
        /\ counts.failures < deployment.failures
        /\ counts' = [counts EXCEPT !.failures = @ + 1]
        /\ \/ /\ stranded' = [stranded EXCEPT ![m] = @ \cup (o.captured \cap running[m])]
              /\ UNCHANGED running
           \/ /\ stranded' = [stranded EXCEPT ![m] = @ \ o.captured]
              /\ running' = [running EXCEPT ![m] = @ \ o.captured]
        /\ \/ ends(k) /\ entry' = [entry EXCEPT ![m] = NoEntry] /\ UNCHANGED gaveUp
           \/ rejects(k)
        /\ UNCHANGED <<deployment, leader, initialized, active, webhook, crons, queued, timers, inbox,
                       disturbed, revived>>

(* Mutant: the trigger that failed is not removed. *)
EmitErrorInPlace(m) ==
    /\ counts.failures < deployment.failures
    /\ counts' = [counts EXCEPT !.failures = @ + 1]
    /\ running[m] # {}
    /\ addQueued(m)
    /\ UNCHANGED <<deployment, leader, initialized, active, webhook, running, crons, entry,
                   operations, inbox, request, history>>

(***************************************************************************)
(* emitError: a trigger that runs fails.  The workflow is removed from     *)
(* memory and its activation is queued, also if it is one that was left    *)
(* running when the workflow was deactivated.                              *)
(***************************************************************************)
EmitError(m) ==
    /\ counts.failures < deployment.failures
    /\ counts' = [counts EXCEPT !.failures = @ + 1]
    /\ running[m] # {}
    /\ IF entry[m] = NoEntry
       THEN disturbed' = (disturbed \/ busy(m, "error")) /\ UNCHANGED <<operations, crons>>
       ELSE starts(closing(remove(m, "error"))) /\ deregisterCrons(m)
    /\ addQueued(m)
    /\ revived' = (revived \/ ~active)
    /\ UNCHANGED <<deployment, leader, initialized, active, webhook, running, entry, inbox, request,
                   stranded, gaveUp>>

-----------------------------------------------------------------------------
(* Start-up and changes of leadership *)

InitManager(m) ==
    /\ m \notin initialized
    /\ initialized' = initialized \cup {m}
    /\ starts(add(m, "init", "list"))
    /\ UNCHANGED <<deployment, leader, active, webhook, running, crons, entry, queued, timers, inbox,
                   request, counts, stranded, revived, gaveUp>>

(* Mutant: the new leader adds nothing. *)
TakeoverWithoutAdding(m) ==
    /\ isMultiMain
    /\ leader = NoMain
    /\ leader' = m
    /\ UNCHANGED <<deployment, initialized, active, webhook, running, crons, entry, queued, timers,
                   operations, inbox, request, counts, history>>

Takeover(m) ==
    /\ isMultiMain
    /\ leader = NoMain
    /\ leader' = m
    /\ starts(add(m, "leadershipChange", "list"))
    /\ UNCHANGED <<deployment, initialized, active, webhook, running, crons, entry, queued, timers,
                   inbox, request, counts, stranded, revived, gaveUp>>

(* removeAllTriggerAndPollerBasedWorkflows has the ids of the workflows    *)
(* that are active in memory and removes one after the other.              *)
Stepdown(m) ==
    /\ isMultiMain
    /\ leader = m
    /\ counts.stepdowns < deployment.stepdowns
    /\ counts' = [counts EXCEPT !.stepdowns = @ + 1]
    /\ leader' = NoMain
    /\ IF entry[m] = NoEntry
       THEN disturbed' = (disturbed \/ busy(m, "stepdown")) /\ UNCHANGED operations
       ELSE starts(remove(m, "stepdown"))
    /\ UNCHANGED <<deployment, initialized, active, webhook, running, crons, entry, queued, timers,
                   inbox, request, stranded, revived, gaveUp>>

(* A command arrives; followers ignore it. *)
Receive(m) ==
    /\ inbox[m] # <<>>
    /\ inbox' = [inbox EXCEPT ![m] = Tail(@)]
    /\ IF isLeader(m)
       THEN starts(IF Head(inbox[m]) = "add" THEN add(m, "command", "webhooks") ELSE remove(m, "command"))
       ELSE UNCHANGED <<operations, disturbed>>
    /\ UNCHANGED <<deployment, leader, initialized, active, webhook, running, crons, entry, queued,
                   timers, request, counts, stranded, revived, gaveUp>>

-----------------------------------------------------------------------------
(* WorkflowService.update, on any main process *)

Update(target) ==
    /\ request = NoRequest
    /\ counts.updates < deployment.updates
    /\ counts' = [counts EXCEPT !.updates = @ + 1]
    /\ request' = [target |-> target, step |-> IF active THEN "clear" ELSE "write"]
    /\ UNCHANGED <<deployment, leader, initialized, active, webhook, running, crons, entry, queued,
                   timers, operations, inbox, history>>

(* ActiveWorkflowManager.remove of a workflow that was active. *)
UpdateRemoves ==
    /\ request.step = "clear"
    /\ webhook' = FALSE
    /\ IF isMultiMain
       THEN /\ publish("remove")
            /\ request' = [request EXCEPT !.step = "write"]
            /\ disturbed' = (disturbed \/ busy(NoMain, "update"))
            /\ UNCHANGED operations
       ELSE /\ request' = [request EXCEPT !.step = "removing"]
            /\ starts(remove(FirstMain, "update"))
            /\ UNCHANGED inbox
    /\ UNCHANGED <<deployment, leader, initialized, active, running, crons, entry, queued, timers,
                   counts, stranded, revived, gaveUp>>

(* The row is written, and the workflow added if it is to be active. *)
UpdateWrites ==
    /\ request.step = "write"
    /\ active' = request.target
    /\ \/ /\ ~request.target
          /\ request' = NoRequest
          /\ UNCHANGED <<inbox, operations, disturbed>>
       \/ /\ request.target
          /\ isMultiMain
          /\ publish("add")
          /\ request' = NoRequest
          /\ disturbed' = (disturbed \/ busy(NoMain, "update"))
          /\ UNCHANGED operations
       \/ /\ request.target
          /\ ~isMultiMain
          /\ starts(add(FirstMain, "update", "webhooks"))
          /\ request' = [request EXCEPT !.step = "adding"]
          /\ UNCHANGED inbox
    /\ UNCHANGED <<deployment, leader, initialized, webhook, running, crons, entry, queued, timers,
                   counts, stranded, revived, gaveUp>>

-----------------------------------------------------------------------------
Proceed(k) ==
    \/ Load(k) \/ AddWebhooks(k) \/ RunTrigger(k) \/ ActivatePolling(k)
    \/ RemoveBegins(k) \/ RemoveEnds(k)

Next ==
    \/ \E k \in 1 .. MaxOperations : Proceed(k) \/ AddFails(k) \/ CloseFails(k)
    \/ \E m \in Mains : \/ RetryFires(m) \/ EmitError(m) \/ InitManager(m)
                        \/ Takeover(m) \/ Stepdown(m) \/ Receive(m)
    \/ \E target \in BOOLEAN : Update(target)
    \/ UpdateRemoves \/ UpdateWrites

Spec == Init /\ [][Next]_vars

(* Operations and timers go on, commands arrive, and some process takes    *)
(* over when nobody leads (see MultiMainSetup for when it does).           *)
Fairness ==
    /\ \A k \in 1 .. MaxOperations : WF_vars(Proceed(k) \/ AddFails(k) \/ CloseFails(k))
    /\ \A m \in Main : /\ WF_vars(m \in Mains /\ RetryFires(m))
                       /\ WF_vars(m \in Mains /\ InitManager(m))
                       /\ WF_vars(m \in Mains /\ Receive(m))
    /\ WF_vars(\E m \in Mains : Takeover(m))
    /\ WF_vars(UpdateRemoves \/ UpdateWrites)

FairSpec == Spec /\ Fairness

-----------------------------------------------------------------------------
(* Properties *)

(* Nothing is in progress and no retry is pending. *)
Quiet ==
    /\ idle = 1 .. MaxOperations
    /\ request = NoRequest
    /\ \A m \in Mains : inbox[m] = <<>> /\ timers[m] = 0

(* Operations have not overlapped, no trigger that was left behind has     *)
(* failed while the workflow was inactive and, with several main processes *)
(* (where a retry publishes an add, whatever runs by then), nothing has    *)
(* failed.                                                                 *)
Orderly == ~disturbed /\ ~revived /\ (isMultiMain => counts.failures = 0)

(***************************************************************************)
(* In the end the leader, whoever it is, runs the trigger and the poller   *)
(* of a workflow that stays active, although activations fail and are      *)
(* retried, first polls and closing of triggers fail, triggers fail,       *)
(* commands reach followers and leaders change (ActiveWorkflowManager:     *)
(* add, retryFunction, addActiveWorkflows).  Not so when operations have   *)
(* overlapped, and after an error of authorization or an update that a     *)
(* failing closeFunction ended, until the workflow is activated again.     *)
(***************************************************************************)
ActiveIsServed ==
    <>[](active /\ ~disturbed /\ ~gaveUp) =>
        <>[](leader # NoMain /\ running[leader] \ stranded[leader] # {} /\ crons[leader] > 0)

(***************************************************************************)
(* When all is quiet, no cron job and no trigger of an inactive workflow   *)
(* is left in any process, but those whose activation or whose closing     *)
(* failed: update removes them, and the retry of an activation that failed *)
(* before (ActiveWorkflowManager.remove), and whoever steps down removes   *)
(* its own.                                                                *)
(***************************************************************************)
InactiveIsStopped ==
    Quiet /\ ~active /\ Orderly => \A m \in Mains : running[m] \subseteq stranded[m] /\ crons[m] = 0

UniqueTriggers ==
    \A m \in Mains :
        IF isLeader(m) THEN Cardinality(running[m] \ stranded[m]) <= 1 /\ crons[m] <= 1
                       ELSE running[m] \subseteq stranded[m] /\ crons[m] = 0

(***************************************************************************)
(* When all is quiet, only the leader runs triggers and pollers, and each  *)
(* of them once, beside triggers whose activation or whose closing failed: *)
(* whoever led before has removed its own, and no retry or update adds to  *)
(* those that run (shouldAddTriggersAndPollers).                           *)
(***************************************************************************)
NotDuplicated == Quiet /\ Orderly => UniqueTriggers

(* The same, whatever has failed.  The run active_workflows_retry shows    *)
(* that it does not hold: the retry of a follower whose webhooks failed    *)
(* makes the leader add the workflow that it serves already.               *)
NotDuplicatedByRetries == Quiet /\ ~disturbed => UniqueTriggers

=============================================================================
