# Verification of n8n: executions, task runners, activation and leadership

n8n runs workflows: graphs of nodes that are started by triggers, webhooks,
schedules or users. This directory holds TLA+ modules of the parts of the server
(`packages/cli`, `packages/core`, `packages/@n8n/task-runner`) in which several
activities interleave, TLC configurations that check them on small instances, and
TLAPS proofs for every size of instance. Paths below are relative to `packages/`.

## Inventory

n8n is a Node.js program. A process is single-threaded, so code between two
`await`s is atomic; everything hard happens across an `await`, a timer, an event or
a connection to another process. In *regular mode* one main process does everything.
In *queue mode* main processes put executions into a Bull queue in Redis and worker
processes take them out; several mains (*multi-main*) elect a leader. Code nodes run
in separate *task runner* processes in either mode.

| Component | State | Operations | Interacts with | Hard about it |
|---|---|---|---|---|
| Concurrency control (`cli/src/concurrency`) | per queue: capacity, waiting executions | throttle, release, remove, removeAll, disable | called by active executions, stop and delete | capacity goes negative for waiters; three ways out of the queue |
| Active executions (`cli/src/active-executions.ts`) | running executions, promises | add, finalizeExecution, stopExecution, shutdown | concurrency control, execution rows, webhooks | awaits between the check of a row and its registration; entries go by id |
| Task broker (`cli/src/task-runners/task-broker`) | known runners, offers, requests, tasks | registration, matching, acceptance with a time limit, results, task timeouts | runners over websockets, requester in the same process | offers expire on both sides, answers come late, runners die |
| Task requester (`task-managers`) | promises per request and task | startTask and its settlement | broker | each promise must be settled once |
| Task runner (`@n8n/task-runner`) | open offers, running tasks | offers, acceptance, settings, cancellation, timeout, stop | broker | slots must not be lost or used twice |
| Multi-main setup (`cli/src/scaling/multi-main-setup.ee.ts`) | leader key in Redis, role | checkLeader, tryBecomeLeader, shutdown | Redis, leader-only services | checks overlap, keys expire, commands are sent again |
| Leader-only services (wait tracker, insights, queue recovery, pruning) | timers | start at takeover, stop at stepdown | multi-main setup | events before, while and after initialization; work in progress at stepdown |
| Queue mode (`scaling.service.ts`, `job-processor.ts`, `workflow-runner.ts`) | jobs, rows, running jobs | enqueue, process, stop, recover | Bull, database | crashes of workers, rows and queue read at different times |
| Wait tracker (`cli/src/wait-tracker.ts`) | entry and timer per waiting execution | poll, resume, stop, change of leadership | database, workflow runner, waiting webhooks, sub-executions | rows read before and used after an await, entries without timers |
| Workflow engine (`core/src/execution-engine/workflow-execute.ts`) | node stack, waiting nodes, run data | run a node, join, wait, resume, retry, cancel | lifecycle hooks, saved execution data | joins and their order, loops, cancellation at any await, resumption from saved data |
| Active workflow manager (`cli/src/active-workflow-manager.ts`, `core/src/execution-engine/active-workflows.ts`) | triggers and cron jobs, queued activations | activate, retry, remove, takeover, stepdown | multi-main setup, commands between mains, rows, webhooks | asynchronous handlers that overlap, retries of what has changed since |
| Event bus and execution recovery | log file, unconfirmed messages | write, confirm, resend, rebuild | database | crash between two writes |

`PROJECT.json` lists these and the other components, with the reason when one is not
modelled, and the hazards of the code with the properties that would catch them.

## Modules

### ConcurrencyControl

A *call* is one invocation of `ActiveExecutions.add`, for a new execution or for the
resumption of a waiting one. `phase` says how far each call is (called, throttled,
admitted and about to write its row, running, ended), `queue` and `capacity` are the
fields of `ConcurrencyQueue`, `active` is the registry by execution id, `pending` the
registered calls whose `finally` handler has still to run, and `status` the column of
the execution's row. `throttle`, `release` and `remove` are operators that the actions
use as the code does: `Request` (a row is created, or the row of a waiting execution is
checked), `Add`, `SetRunning`, `RunEnds`, `Stop`, `Delete` and `Shutdown`. A step ends
at each `await` that can let another call in. Telemetry is left out; the execution
itself may end at any time, because nothing here depends on what it does.

*AdmissionQueue* is what concurrency control promises: a call comes in once, at once
if there is room and nobody waits, else in order; whoever leaves hands its place to the
first that waits. It knows neither capacity nor promises nor rows. `ConcurrencyControl`
implements it under the mapping `placeOf` (a call is outside until throttle, inside from
its admission until its promise is settled). That a call which gives up lets the next one
in, beyond the limit, is part of the abstract specification too: it is what the code does,
and `concurrency_limit` shows the disagreement with the documentation.

### TaskBroker

Broker, requester and runners with their message channels. Broker and requester share
an event loop, so one message of a runner is one action with everything that follows
without waiting for another process: `TaskAccepted` creates the task, tells the
requester and sends the settings. A runner is a process that may crash, stop
gracefully or, in internal mode, be replaced when a task times out. What a dead runner
sent before may arrive until the broker notices the closed connection. The deployment
is chosen in the initial state: internal mode, external runners, or a launcher, an
external program that offers tasks in place of a runner and defers what it accepts.
Task code, the contents of messages and the requests a task makes while it runs (data,
node types, RPC) are left out.

A task goes by the name of its offer, since an offer is accepted at most once. Names
of offers are used again when nothing mentions them any more. An offer that has
expired for the broker is dropped at once: `expireTasks` drops it before
`settleTasks` looks at the offers, and nothing else does.

*TaskDispatch* is what the broker promises to the calls of `startTask`: a waiting call is put
to one free place of its type, which declines it or begins to run it; a call that runs ends
once, with a result or because its place is lost. The places are the offers. It knows no
messages, timers, marks or pending lists. `TaskBroker` implements it with
`runnerAcceptRejects` as the calls the places are asked to run and `tasks` as what they run:
an expired accept window, a rejection and a deferral are all a decline, a late answer is no
step at all.

### MultiMainSetup

A check of the leader key is a chain of Redis commands, with a step of the process
between them. Commands and replies travel in order on one connection per process, and
the interval timer starts a check while earlier ones are on the way (`MaxChecks`).
The key expires when its owner is gone, and, up to a bound, while it lives. When a
connection breaks, the client sends again what was not answered (`Reconnect`): Redis
and ioredis are external and modelled from how the code uses them. Process ids are
new at each start, so a process starts once. `selfRefused` remembers, until the key is
lost, that Redis refused it to its own owner; only properties read it.

### LeaderServices

Extends MultiMainSetup with the timers of the four services. `leader-takeover` and
`leader-stepdown` are emitted and handled in the step that changes the role, as
listeners run synchronously; the services are initialized one after the other while
the election already runs. For each service the module counts the timers that are set
and whether the field of the service still refers to one of them. What the timers do
is left out, except that a queue recovery in progress schedules the next one. `crossed`,
read by properties only, has the processes that were leading when a SET NX of theirs was
answered, which takes two checks at a time.

### QueueMode

An execution in queue mode, from its row to its end. `row` is the status column, `job`
the state of its Bull job, `active` the registry of the main process, and `main`,
`stop`, `kill` and `run` say between which two `await`s `WorkflowRunner`, a stop
request, `stopJob` and `JobProcessor.processJob` are. The actions follow the code in
that order: `Add`, `AddJob`, `AwaitJob`, `JobFinished`, `ProcessError`, `SaveError`,
`Fetch` and `Discard` in the main process; `Take`, `Load`, `SetRunning`, `StartRun`,
`FinishRun` and `Return` or `Throw` in a worker; `StopExecution`, `StopDuringRun`,
`StopJob`, `AbortJob`, `MoveToFailed` and `RemoveJob` for a stop; `RecoverFromQueue`,
`FindDangling` and `MarkAsCrashed` for queue recovery. Bull is external: a worker holds
a lock on the job it takes, a job that lost its lock goes back to the queue
`MaxStalledCount` times and then fails, and an outcome is accepted only under the lock.
That a worker takes a job again while it still runs it after a lost lock is left out.
A stop request may reach another main process, which has no entry for the execution.

The wait of an execution ends its job with the row in status `waiting`; the resumption
is in WaitTracker, which does not go into jobs. Saving progress after each node
(off by default), responses of webhooks and metrics are left out. `deployment`, chosen
in the initial state, says which executions and workers there are and how many faults,
stops and recoveries may happen.

### WaitTracker

The rows of waiting executions, the entries and timers of each main process, and every
way to start an execution again. A poll is a query and, one await later, its result, which
is applied even if the process has stepped down; a start deletes the entry, reads the row
and writes it; a stop clears the timer and then writes the row. Time is a small counter,
with the window of the poll. Timers are pairs of an execution and a time beside the
entries, because the code can lose the one or the other: `stopTracking` keeps entries
without timers, and `startExecution` deletes the entry of a parent whose timer is set.
The end of a sub-execution, or its going to wait again, resumes its parent.

### WorkflowExecute

The loop of `processRunExecutionData` in execution order v1. A workflow is a constant
record: the sources of each input, required inputs, positions on the canvas, the behaviour
of each run of a node, a destination, and whether the execution may be interrupted. Data is
the output of a run from which it came, so that losing or doubling it shows. `TakeNode`
and the actions for what the node returns are one iteration; `addNodeToBeExecuted`,
`mayExecute` and `nextWaiting` are operators on the stack and the waiting nodes. `Resume`
and `Retry` start another instance with the saved stack and results. `dataflow` is a
reference definition: which nodes data reaches, with which inputs, and which are left
waiting, by the connections alone. `status` is the field of the instance, `result` the status of
the run that is returned, which `processSuccessExecution` or the handler of rejections (`catch`)
makes, and `reports` the calls of `workflowExecuteAfter`, by the loop, by an abort and by that
handler. Both hooks may fail where the execution awaits them (`BeforeFails`, `AfterFails`).
`MatchesDataflow` compares an execution that succeeded with
it, where the reference determines one: in a workflow without cycles (`acyclic`), whose inputs
have one source each (`oneSourcePerInput`; with two, the order of execution decides which data
meets), and whose nodes do the same in each run (`sameInEachRun`). Left out:
execution order v0, pinned data, paired items and sources, the attempts of a node that is
retried on failure, `continueOnFail`, the retry of a canceled execution, and the hooks of single
nodes, whose failure is handled as that of `workflowExecuteBefore` is.

### ActiveWorkflowManager

One workflow with a webhook, a trigger and a poller in all main processes. Every `add` and
`remove` in progress is an operation with the step it is at, since handlers overlap at each
await: start-up, commands of other processes, changes of leadership, retries, users'
updates and triggers that fail. Triggers have names, so that one that runs while nothing
refers to it is visible; cron jobs are counted. The election is reduced to a leader that
steps down and a process that takes over. Activations fail at the webhook, at the trigger and
at the first poll, a `closeFunction` throws, and a trigger fails while it runs. Four variables
are read by properties only. `stranded` has the triggers that a failed first poll or a failing
`closeFunction` left running; the invariants say what runs beside them. `disturbed` records that
operations have overlapped, where the removals in processes that have stepped down, one in each, do
not count: the next leader activates beside them. `revived` records that a trigger failed
while the workflow was inactive, and `gaveUp` that an activation was not retried because of an error
of authorization, or that an update was ended by a failing `closeFunction`. The invariants
are stated for executions that are not disturbed or revived and, with several main processes, in
which nothing failed (`Orderly`), the liveness property for those that are not disturbed
and have not given up, for reasons given under *Departures*. Failures of the database are left out.

Each `...Proofs` module holds the theorems about the module of that name; the `MC`
modules give instances for TLC. Definitions marked as mutants change one definition in
the way a slip in the code would; no specification uses them.

## Runs

| Run | Instance | Shows |
|---|---|---|
| `concurrency_control` | 3 executions, production limit 1, evaluation unlimited | slots are accounted for (`CapacityAccounting`), a call is queued exactly while it waits (`QueuedIffThrottled`), nobody waits while a slot is free (`WorkConserving`), the service implements AdmissionQueue (`IsAdmissionQueue`), every waiting call is served and every slot returned (`ThrottledIsServed`, `SlotIsReturned`) |
| `concurrency_limit` | the same | *fails*: stopping a queued execution admits the next one although no slot is free |
| `task_broker` | 2 external runners, 2 calls, one loss, one late answer, one offer that lapses while it is accepted | requests are found when accepted, accepted once, runners stay within their concurrency, broker and runner agree on tasks, a result is final, and broker and requester implement TaskDispatch (`IsTaskDispatch`) |
| `task_broker_liveness` | internal mode with one runner; a launcher with one runner | every call of `startTask` is settled and every slot returned; deferral does not make a request run twice |
| `multi_main` | 2 processes, 2 overlapping checks, one late renewal, one crash or shutdown, one repeated send | no two leaders until a renewal is late or a command is sent twice (`AtMostOneLeader`); a leader whose key has passed on steps down (`StaleLeaderYields`); in the end the owner of the key leads alone, or nobody does because the key was refused to its owner (`Converges`) |
| `leader_services` | 2 processes, 2 overlapping checks, one late renewal, one crash or shutdown | followers track and compact nothing, and no timer is set twice, unless a SET NX was answered while the process led (`FollowerIsIdle`); a leader runs every service that is initialized (`LeaderServes`) |
| `queue_mode` | 1 execution and 2 workers with two faults, or with a fault and a stop; 2 executions and 1 worker with a fault and a recovery cycle | whatever happens to a job, the main process settles the execution it waits for (`EntrySettles`), with a row that has ended (`SettledMeansEnded`) and without overwriting a success (`SuccessIsNotFailed`), both unless a live worker lost its lock; recovery does not mark what was queued all along (`QueuedIsNotCrashed`) |
| `wait_tracker` | an execution with its sub-execution; a sub-execution that is stopped; two processes and a change of leadership | every timer has its entry, so that stop and stepdown find it (`TimerIsHeld`), a stopped execution stays stopped (`StoppedForGood`), an execution that waits for a time is resumed (`DueIsResumed`), unless the leader kept a stale entry |
| `workflow_execute` | all joins of 4 nodes from a family of 96 connections (one input may be unconnected), chains of 5 nodes with destination and interruption, a loop with a join, in two orders of positions | what a run returned is held exactly once by the stack, a waiting node or a run, until an input of a join gets a third datum (`DataIsDelivered`), a successful execution has executed what `dataflow` says (`MatchesDataflow`), the end is reported on every path, last with the status that is returned, and again only after an abort or when the report failed (`EndIsReported`) |
| `workflow_execute_fan_in` | 6 nodes, three of which lead to the same input | *fails*: an entry of a waiting node is overwritten and its data lost |
| `active_workflows` | one process with two updates and two failures; two processes with a failure; two processes with an update and a change of leadership, or with two changes | when all is quiet an inactive workflow runs nowhere (`InactiveIsStopped`) and an active one once, in the leader (`NotDuplicated`), beside triggers that a failure left running; an active workflow is served in the end (`ActiveIsServed`) |
| `active_workflows_retry` | two processes, one failure | *fails*: the retry of a follower makes the leader start its triggers a second time |

Runs that fail are kept because they show where the code departs from what its
comments or documentation say; the findings in `PROJECT.json` quote the lines.

**Departures** that the modules have and for which no run is kept, since a property
that excludes them or a note on a hazard says so:

- A manual execution that a webhook resumes waits in the production queue while its row
  says `manual`: stop leaves it in the queue (`ConcurrencyControl.remove`). Two webhook
  calls that read the row before either has written it both run the execution. An
  execution stopped between admission and registration runs all the same. Shutdown disables
  the service before it asks it to empty its queues.
- A deferred request of the task broker has two entries, one of which stays
  (`TaskBroker.TaskDeferred`).
- Two checks of a process that find leadership vacant make it a leader and then, when Redis refuses
  the key to its own owner, a follower that renews its key for ever, so that nobody leads:
  `tryBecomeLeader` does not look whose key it is. So does a command of the election that is sent
  again after a broken connection (`MultiMainSetup.Reconnect`). `Converges` states both cases with
  `selfRefused`. That process emits no `leader-stepdown`, so that its services run on. A key lost
  between two SET NX of a process makes it take over twice, and one of two timers of wait tracking
  is never cleared (`LeaderServices.crossed`). The timers of pruning survive the loss of leadership,
  since `stopPruning` asks for the role; a queue recovery in progress sets its timer again
  (`LeaderServices`).
- In queue mode a job that was taken and has not entered `runningJobs` is not aborted; a job
  whose worker died runs again although its row says success; recovery does nothing while
  the queue is empty, and marks what ends between its two reads (`QueueMode`).
- A sub-execution that goes to wait again resumes its parent (`WaitTracker.resumeParent`);
  a process that leads again does not set timers for the entries it kept.
- An iteration that ends with null, at the destination or off the filter does not look for
  waiting nodes, so that a join may be left waiting; canceling an execution while its end is
  being reported reports it twice, the second time as canceled, and returns the first status; an
  end whose report fails is reported again as an error, so that an execution that succeeded or
  waits can be retried; an execution that is aborted before a failing `workflowExecuteBefore` is
  reported twice; a retry keeps the run that such a failure left (`WorkflowExecute`).
- Operations of the active workflow manager that overlap may leave triggers that nothing
  refers to, or a workflow that is served on a follower; a retry after a failure in a
  multi-main setup adds a workflow that was deactivated since; a command that arrives while
  nobody leads is lost, and the webhook stays unregistered. When a first poll fails, the trigger
  that was started before it runs on, and a retry starts another one beside it. When it is that of an
  activation by a user, the row is set to inactive and the trigger runs on (`AddFails`); if that trigger
  fails later, `emitError` queues an activation of the inactive workflow, which runs it
  (`EmitError`). When a `closeFunction` throws anything but a `TriggerCloseError`, the entry stays
  without its cron jobs, and the update is given up with the row active and its retry dropped, so that
  the workflow is not polled until it is activated again (`CloseFails`).

**Bounds.** Two parties are enough for every race above: each is between one actor
and one other, or between two activities of one actor. Three executions are needed in
ConcurrencyControl, one that runs, one that waits and one that overtakes. Each fault
counter is one unless the table says otherwise, so that a fault may hit any step and must be survived
without a second one; two faults of different kinds do meet. Two overlapping checks suffice for
a check to see the effects of another of the same process; `leader_services` leaves out broken
connections, for which its invariants are proved. QueueMode has two faults, since a job that stalls once is taken again and fails only when it stalls twice; queue
recovery needs two executions, because it does nothing while the queue is empty. TaskBroker allows two
offer names per runner with a concurrency of one: one in use, one stale. WaitTracker has two
instants and a window of one, so that an execution may be polled before, at and after its
time; `MaxStarts` lets an execution be started while it runs. WorkflowExecute has up to
three runs of a node, for a loop that goes round once and leaves. ActiveWorkflowManager has
two operations at once (a removal on stepdown and the activation of the next leader, or two that
overlap and end what is claimed), two failures, for one that a retry meets after another, and four names of triggers,
for one that runs, one that starts and two that a failure left running.

**Symmetry** is used in `task_broker` and `leader_services`, which have no liveness property.

**Deadlock** is checked for the election, which never stops. In the other modules all calls,
executions or updates may have ended.

**Fairness.** Weak fairness only. A queued promise callback runs, a workflow or task
ends, a message on an open connection arrives, a timer fires, a closed connection is
noticed and an ended runner is replaced (`TaskRunnerProcess` restarts it, the launcher
does so in external mode), Bull hands out jobs, finds the ones that stalled and
reports how they ended, a worker that went down is started again, Redis answers, a key
expires whose owner is gone, start-up goes on, the database answers, an activation succeeds or fails, and some process takes over when
nobody leads: `Converges` shows when it does, so that what is said of the leader in the end
presupposes that no key was refused to its owner.
No fairness is given to users, crashes, shutdowns, late answers, late renewals or losses of leadership. That
workflows end is an assumption about users' workflows, which the code does not
enforce unless a timeout is configured.

## Proofs

All theorems are stated for arbitrary constants that satisfy the named assumptions.

*ConcurrencyControlProofs.* `TypeCorrect`, `CapacityIsAccounted`,
`QueuesHoldTheThrottled` and `NoIdleSlot` prove the first four invariants of
`concurrency_control` for any number of calls, executions and any limits. They
are inductive together: that a release admits the head of the queue needs the head
to be throttled, that the capacity is the limit minus the slots held needs each waiting
call to be in the queue once, and that nobody waits while a slot is free follows from
the capacity being non-positive whenever the queue is not empty. The counting argument
rests on lemmas about cardinalities from `FiniteSetTheorems`.

`ImplementsAdmissionQueue` proves the refinement `IsAdmissionQueue` from these
invariants: each action is a step of AdmissionQueue or a stutter under `placeOf`. What is
not obvious is that a queue changes as the abstract one does: a call that gives up leaves
at its position (the invariants say that it is there once), and the release that follows
admits the head. AdmissionQueue states both with `RemoveAt` and `Tail`, about which the
provers know enough.

*MultiMainSetupProofs.* `TypeCorrect`, and `SingleLeader`: until a renewal is late
or a command is sent twice, two running processes never both lead, for any number of
processes and of overlapping checks, crashes and shutdowns. `AtMostOneLeader` is not
inductive, because who leads depends on replies that are on the way. The
invariant `IInv` says that a leader owns the key, that a process with an unread
successful reply to SET NX owns it, that a DEL on the way belongs to a process
that stops and still owns the key, and that a process that has not started has sent
nothing. `QuietStep` covers all steps that neither touch the key nor make a leader;
`TakeOver`, `Execute`, `Shutdown` and `Expire` have a lemma each. `DisturbancesStay`
lets the invariant be assumed before a step that ends undisturbed.

*LeaderServicesProofs.* `ServicesImplementElection`: the composition is an
implementation of MultiMainSetup, so that the theorems above hold of it. `ServicesTypeCorrect`
needs, beside the types, that a service whose field refers to a timer has one set. `FollowersAreIdle`
holds for any number of overlapping checks. Its invariant `InStep` says of each process that
has not begun to stop that insights have the one timer they refer to or none, and, unless
the process is in `crossed`, that the timers of a service that listens follow the role; a
process that takes over or follows has not led before, or is marked by that step. `LeadersServe`
needs that whoever leads after a step has led before it or takes over in it (`TakeoverLeads`).

*QueueModeProofs.* `TypeCorrect`, `FinalizedIsEnded`, `SuccessIsKept` and
`RecoverySparesQueued` prove the four invariants of `queue_mode`. Not even `TypeOK` is
inductive alone: that only an active job has a lock needs that a job is added once
(`JobIsAdded`). `RowIsRight` rests on who may write the row: while no live worker loses a
lock, a run belongs to the worker that holds the lock of the job, or `stopJob` has
cancelled that job (`RunHasLock`); a stop leaves no entry in the registry (`KilledIsGone`); a
worker saves before it returns (`OutcomeIsSaved`); and what `job.finished` told the main
process stays true (`SettledStays`).

*WaitTrackerProofs.* `TypeCorrect`, `TimersAreHeld` and `StoppedStays`. `TimerIsHeld` is
inductive with the types and with the fact that only a row that waits has a time to wait
for. `StoppedForGood` is proved for sub-executions of any depth: a stopped execution can be
started by the end of a sub-execution of a sub-execution, so that `Stopped` asks for a set of
executions that is closed under `Parent` and in which nothing waits, runs or is in
flight. Such a set stays quiet in every step, because whatever starts an execution is in
flight for it or is the end of a member of the same set.

*TaskBrokerProofs.* The six safety properties and the types of `task_broker`, for any
number of runners, calls and offers and any concurrency.

- `TypeCorrect` alone is inductive, but rests on what `settleTasks` and `sendOffers`
  do (`SettleEffect`, `SendEffect`): each matched request gets one offer and each offer one
  request (`MatchIsUnique`, by the ranks of both in their queue), and the lowest unused names
  fill the room that is left (`LowestFit`).
- `AcceptFindsRequest` and `RequestTriedOnce` follow from `RequestInv`: a request whose
  acceptance is awaited is marked, pending and awaited by one offer; a pending request
  that is not marked is requested; a task's call has started and has no other task. They need
  each other: a mark that is missing would let `settleTasks` match a request again. The entry
  that a deferral leaves behind keeps its mark, which is why it does no harm.
- `BrokerKnowsLiveTasks` needs the history of a name. `RunnerInv`: a runner that is down
  receives nothing and holds nothing, one that the broker does not know is down and has
  left nothing. `OfferInv`, for each offer: while it is pending or announced nothing else
  refers to it, it is announced once, an offer that is being accepted is no task and not
  canceled, a canceled task is forgotten by the broker, and an acceptance in the channel of
  a runner that does not hold the task is followed by the end of the task.
- `ImplementsTaskDispatch` proves the refinement `IsTaskDispatch` from the same invariants. That
  an offer is free when `settleTasks` takes it is the history of its name (`NameIsNew`); that the
  call it is taken for waits and is asked nowhere else is `AttemptIsMarked` in the next
  state; that only a call that has started ends is `TaskIsStarted`. Every other step leaves what
  TaskDispatch sees, or is one of its steps.
- `StartedCallsHaveTasks` adds that a started call keeps its task, `ResultStaysForGood`
  that a step changes no result, and `RunnersAreNotOverloaded` counts offers and tasks of
  a runner with `FiniteSetTheorems`.

*ActiveWorkflowManagerProofs.* `TypeCorrect` needs that an operation in progress belongs to a
process that is in use. `InactiveStops` and `NothingRunsTwice` follow from one invariant,
`OrderInv`, which says of an orderly state (`Orderly`) what the one operation in progress, the
commands that wait and the update in progress determine. Of what runs it counts what is not
`stranded` (`Live`). Beside the one operation there may be removals in processes that have stepped
down, one in each: none of these processes leads again, or has another operation, before its
removal has ended (`DepartInv`), and whatever else happens leaves them as they are
(`DeparturesStay`). Every other process is stopped, or it leads and serves the workflow (`Steady`);
an operation finds its process as its step expects it (`AddInv`, `RemoveInv`); for whom
it runs bounds what else may wait (`CallerInv`); an `add` in the inbox of the leader follows
a `remove` or finds it stopped (`AddFollowsRemove`); a retry is queued once, and only for
a workflow that is active and not served (`QueueInv`). The heart is `ServedIsActive`: if what
is in progress and under way will leave the leader serving the workflow, then its row says
that it is active and no update is about to overwrite it. One lemma per action takes the
invariant from an operation to the next one; `OrderlyBefore` lets it be assumed before a step
that ends orderly. Both theorems say nothing of disordered executions, as the properties do.

*WorkflowExecuteProofs.* For any workflows, numbers of nodes, outputs and runs.

- `EngineTypeCorrect` is inductive with a description of what waits: each node waits at one
  place, has several inputs, and has at least one entry, each of which lacks an input
  (`EngineInv`). It also says that there is a node to start with, and that the node an execution
  stopped at is on top of the stack and has a run to take back.
- `TheEndIsReported` rests on `ReportInv`: nothing is reported before the run that is returned is
  made, except by the abort; then its status has been reported, and after that nothing but the
  abort reports (`ResultIsReported`); each of the three reports once, and the loop first
  (`ReportsInOrder`). Nothing is assumed of the hooks: the report of the loop may fail.
- `DataIsDeliveredOnce` needs more than that data is held once (`HeldOnce`). A node that runs again
  must not send what is already held: whatever is held was sent by a run that succeeded
  (`HeldWasSent`), so that nothing of a new run is held anywhere. A new entry of a join must not
  have an index in use: entries have index 0 and data of any run, or index 1 and data of second
  runs, and the first one is completed first (`EntriesInOrder`). Only the phase "node" has a node in
  execution (`NodeIsExecuted`), and the run that a resumption or a retry takes back has sent nothing
  (`StoppedRun`, for an execution that failed, waits, or failed to report that it waits). A retry
  whose `workflowExecuteBefore` fails loses the runs but not the stack (`Dead`); nothing is claimed of its data, for there is no run left that returned any.
  One lemma per action shows that it keeps the places of each datum; `AddNodesKeeps` follows
  `addNodes` from one connection to the next by well-founded sets, in place of induction, and
  `AddKeeps` is the step of one connection.
- `DataflowIsExecuted` says that the engine executes the reference, whatever order the positions
  of the nodes make it go. Its invariant is `DataflowInv`, and the heart of that is `Courses`: where a
  node is goes with the inputs for which data was sent (`arrived`). A node is unsent, waits with just
  these inputs, or has been given its data; then it is on the stack once, in execution, executed
  once, or has consumed it (`Course`). Given means that all inputs were there, or that none that is
  missing can come: no required input is missing, and no node that leads to it is in the stack, waits
  or is in execution (`Closed`). The last part makes it inductive: `mayExecute` looks only at nodes
  that wait, and is asked only when the stack is empty, so that between them nothing is left that
  could send more, and nothing comes back since only a node's parents lead to it
  (`CourseAdded`, `CourseSent`). Around it: only nodes of the kind "wait" are disabled or waited for
  (`WaitInv`), the stack is empty after the check only if no waiting node may be executed
  (`CheckedInv`), success leaves nothing on the stack (`SuccessInv`), only nodes on the filter are
  executed (`FilterInv`). At the end `Courses` determines for each node what became of it
  (`FinishedCases`), and the reference says the same if it is right about the nodes before it
  (`ForeseenNext`); a first node about which it is wrong cannot be, as a workflow without cycles has
  a first one in any set of nodes (`FirstOfNodes`). A retry may follow a wait that was not
  reported: `WaitedInv` says that only nodes of the kind "wait" have runs that wait. That also shows that the recursive definition of
  `dataflow` has a solution (`DataflowFacts`).

The attempts corrected both properties. `DataIsDelivered` used to be stated for joins with one source per
input, which is not enough: a source that runs three times gives an input a third datum, whose
entry may get an index in use although the source is the same. `joinsRunTwice` bounds the runs of the
sources as well, and the index that `addNodeToBeExecuted` picks is what the bound is for.
In `EntriesInOrder` the bound shows as "index 0 or 1". Joins of three and more inputs are not claimed:
there `EntriesInOrder` is not inductive, since an entry that is executed with inputs missing may
leave the second one alone, which then takes data of first runs and stays incomplete.
`MatchesDataflow` used to say only which nodes are executed and which wait; the induction needs, and
the property now says, that a node is executed once and with which inputs. That in turn needs one
source per input and the same behaviour in each run: with two sources a node may be executed with
the data of one and again with that of the other.

The lemmas about recursive functions and sequences (`OnlyRange`, `RemoveFirstRange`,
`LeastNumber`) argue by the least position at which a claim fails, since the induction
theorems of the library cannot be used. The module says `only` and `SetToSeq` where a library operator
(`SelectSeq`, `SetToSortSeq`) would be as good for TLC but out of reach of the provers.

*Only model-checked.* Liveness (`ThrottledIsServed`, `SlotIsReturned`,
`EveryCallSettles`, `SlotIsFreed`, `StaleLeaderYields`, `Converges`,
`EntrySettles`, `DueIsResumed`, `ActiveIsServed`), which is outside what the prover can do. The
properties that fail (`workflow_execute_fan_in` and the others marked under *Runs*) are refuted by
TLC and have no theorem. Every other invariant and action property of the runs has one.

## Not modelled

`PROJECT.json` gives the reason for each component. By size the repository is mostly nodes
(several hundred integrations with external services, each a function from items to items
and HTTP requests), the editor, and the declarations of both: they have no state that
several activities share, and what a node does is a constant of WorkflowExecute. Of the
server, REST and public API controllers, permissions, source control, single sign-on,
external secrets and binary data are database access and calls of external services. What
is left with state and timing of its own is in the plan.

## Plan

1. An abstract specification of what the queue mode promises (an execution is settled once, with
   the outcome of its row), with the refinement proved from the invariants of QueueModeProofs.
2. What holds of an execution with cycles, or with several sources per input, in place of
   `MatchesDataflow`: that no node is executed for which no data came.
3. `EventBusRecovery`, `TestWebhooks`, the restart loop of the task runner process, pruning, and
   the graph algorithms of partial executions against reference definitions.
