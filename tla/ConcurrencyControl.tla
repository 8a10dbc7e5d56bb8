------------------------- MODULE ConcurrencyControl -------------------------
(***************************************************************************)
(* Concurrency control of a main process in regular mode: the service      *)
(* ConcurrencyControlService with one ConcurrencyQueue per limited queue   *)
(* type, and the code that calls it: ActiveExecutions (add, stopExecution, *)
(* finalizeExecution, shutdown), ExecutionService.stop and the public      *)
(* API's deleteExecution.                                                  *)
(*                                                                         *)
(* A call is one invocation of ActiveExecutions.add.  It awaits the        *)
(* promise of `throttle`, then a database write, and only then becomes an  *)
(* active execution.  JavaScript runs each stretch between two awaits      *)
(* without interruption, so each stretch is one action.                    *)
(***************************************************************************)
EXTENDS Integers, Sequences, FiniteSets

CONSTANTS
    Call,             \* invocations of ActiveExecutions.add
    NoCall,           \* no entry in ActiveExecutions
    Execution,        \* execution ids
    ExecutionOf,      \* the execution a call is for
    ModeOf,           \* executionData.executionMode of the call
    StoredMode,       \* mode in the row of each execution
    Resuming,         \* executions that already have a row, in status `waiting`
    ProductionLimit,  \* executions.concurrency.productionLimit
    EvaluationLimit   \* executions.concurrency.evaluationLimit

QueueType == {"production", "evaluation"}

UnthrottledMode == {"error", "integrated", "cli", "internal", "manual", "retry"}

Mode == UnthrottledMode \cup {"webhook", "trigger", "evaluation"}

Status == {"none", "new", "waiting", "running", "finished", "canceled", "deleted"}

ASSUME ConstantsAssumption ==
    /\ IsFiniteSet(Call)
    /\ NoCall \notin Call
    /\ ExecutionOf \in [Call -> Execution]
    /\ ModeOf \in [Call -> Mode]
    /\ StoredMode \in [Execution -> Mode]
    /\ Resuming \subseteq Execution
    /\ ProductionLimit \in Int \ {0}
    /\ EvaluationLimit \in Int \ {0}

(***************************************************************************)
(* A limit of 0 is refused by the constructor; one below -1 counts as -1,  *)
(* which means that executions of the type are not limited.                *)
(***************************************************************************)
limits ==
    [t \in QueueType |->
        LET configured == IF t = "production" THEN ProductionLimit ELSE EvaluationLimit
        IN  IF configured < -1 THEN -1 ELSE configured]

Limited == {t \in QueueType : limits[t] > 0}

(* The queue type of a mode; "none" is the code's `undefined`. *)
getQueue(m) ==
    CASE m \in UnthrottledMode -> "none"
      [] m \in {"webhook", "trigger"} -> "production"
      [] m = "evaluation" -> "evaluation"

isUnlimited(m) == getQueue(m) \notin Limited

VARIABLES
    isEnabled,   \* whether the service still throttles
    capacity,    \* ConcurrencyQueue.capacity: free slots, negative when executions wait
    queue,       \* ConcurrencyQueue.queue: the calls whose throttle promise is pending
    phase,       \* where each call stands
    pending,     \* registered calls whose postExecutePromise is not settled
    active,      \* ActiveExecutions.activeExecutions: the latest entry of each execution
    status       \* status column of each execution's row

vars == <<isEnabled, capacity, queue, phase, pending, active, status>>

(***************************************************************************)
(* idle -> called -> (throttled ->) admitted -> running -> ended.  A call  *)
(* is "canceling" once its workflow was told to stop, and "abandoned" when *)
(* its throttle promise will never be settled.                             *)
(***************************************************************************)
Phase == {"idle", "called", "throttled", "admitted", "running", "canceling",
          "ended", "abandoned"}

TypeOK ==
    /\ isEnabled \in BOOLEAN
    /\ capacity \in [QueueType -> Int]
    /\ queue \in [QueueType -> Seq(Call)]
    /\ phase \in [Call -> Phase]
    /\ pending \in SUBSET Call
    /\ active \in [Execution -> Call \cup {NoCall}]
    /\ status \in [Execution -> Status]

Init ==
    /\ isEnabled = (Limited # {})
    /\ capacity = limits
    /\ queue = [t \in QueueType |-> <<>>]
    /\ phase = [c \in Call |-> "idle"]
    /\ pending = {}
    /\ active = [e \in Execution |-> NoCall]
    /\ status = [e \in Execution |-> IF e \in Resuming THEN "waiting" ELSE "none"]

(* Mutant: a stopped execution gets a status outside of the known ones. *)
writeUnknown(e, s) == [status EXCEPT ![e] = IF s = "canceled" THEN "stopped" ELSE s]

(* An UPDATE by id has no effect on a row that was deleted. *)
write(e, s) == [status EXCEPT ![e] = IF @ = "deleted" THEN @ ELSE s]

-----------------------------------------------------------------------------
(* ConcurrencyQueue *)

(* Mutant: the waiting call takes no slot. *)
enqueueWithoutSlot(t, c) ==
    IF capacity[t] > 0
    THEN /\ capacity' = [capacity EXCEPT ![t] = @ - 1]
         /\ phase' = [phase EXCEPT ![c] = "admitted"]
         /\ UNCHANGED queue
    ELSE /\ phase' = [phase EXCEPT ![c] = "throttled"]
         /\ queue' = [queue EXCEPT ![t] = Append(@, c)]
         /\ UNCHANGED capacity

(* Take a slot, or wait when none is left. *)
enqueue(t, c) ==
    /\ capacity' = [capacity EXCEPT ![t] = @ - 1]
    /\ IF capacity[t] > 0
       THEN /\ phase' = [phase EXCEPT ![c] = "admitted"]
            /\ UNCHANGED queue
       ELSE /\ phase' = [phase EXCEPT ![c] = "throttled"]
            /\ queue' = [queue EXCEPT ![t] = Append(@, c)]

(* Mutant: the slot comes back, nobody is woken. *)
freeOnly(t, q, left) ==
    /\ capacity' = [capacity EXCEPT ![t] = @ + 1]
    /\ queue' = [queue EXCEPT ![t] = q]
    /\ phase' = left

(* Mutant: the head is woken and stays in the queue. *)
freeAndPeek(t, q, left) ==
    /\ capacity' = [capacity EXCEPT ![t] = @ + 1]
    /\ queue' = [queue EXCEPT ![t] = q]
    /\ phase' = IF q = <<>> THEN left ELSE [left EXCEPT ![Head(q)] = "admitted"]

(* Mutant: the latest call is woken, not the first. *)
freeAndResolveLast(t, q, left) ==
    /\ capacity' = [capacity EXCEPT ![t] = @ + 1]
    /\ queue' = [queue EXCEPT ![t] = IF q = <<>> THEN q ELSE SubSeq(q, 1, Len(q) - 1)]
    /\ phase' = IF q = <<>> THEN left ELSE [left EXCEPT ![q[Len(q)]] = "admitted"]

(* Give a slot back, shift the head of the waiting calls q and resolve its *)
(* promise.  `left` are the phases without the effect on the head.         *)
freeAndResolveNext(t, q, left) ==
    /\ capacity' = [capacity EXCEPT ![t] = @ + 1]
    /\ queue' = [queue EXCEPT ![t] = IF q = <<>> THEN q ELSE Tail(q)]
    /\ phase' = IF q = <<>> THEN left ELSE [left EXCEPT ![Head(q)] = "admitted"]

without(q, i) == SubSeq(q, 1, i - 1) \o SubSeq(q, i + 1, Len(q))

(* The positions of execution e in the queue of type t. *)
entries(t, e) == {i \in 1 .. Len(queue[t]) : ExecutionOf[queue[t][i]] = e}

-----------------------------------------------------------------------------
(* ConcurrencyControlService *)

throttles(m) == isEnabled /\ ~isUnlimited(m)

has(e) == isEnabled /\ \E t \in Limited : entries(t, e) # {}

throttle(c) ==
    IF throttles(ModeOf[c])
    THEN enqueue(getQueue(ModeOf[c]), c)
    ELSE /\ phase' = [phase EXCEPT ![c] = "admitted"]
         /\ UNCHANGED <<capacity, queue>>

(* Release the slot of call c; `left` are the phases without the effect on *)
(* the next call in the queue.                                             *)
release(c, left) ==
    IF throttles(ModeOf[c])
    THEN LET t == getQueue(ModeOf[c]) IN freeAndResolveNext(t, queue[t], left)
    ELSE /\ phase' = left
         /\ UNCHANGED <<capacity, queue>>

(* Take the first entry of execution e out of the queue of mode m, if any. *)
remove(e, m) ==
    IF throttles(m) /\ entries(getQueue(m), e) # {}
    THEN LET t == getQueue(m)
         IN  \E i \in entries(t, e) :
                /\ \A j \in entries(t, e) : i <= j
                /\ freeAndResolveNext(t, without(queue[t], i),
                                      [phase EXCEPT ![queue[t][i]] = "abandoned"])
    ELSE UNCHANGED <<capacity, queue, phase>>

-----------------------------------------------------------------------------
(* ActiveExecutions *)

(***************************************************************************)
(* A workflow is to be run: a row is created for a new execution; for one  *)
(* that waits the row is read and must still be `waiting`                  *)
(* (WaitingWebhooks.executeWebhook).                                       *)
(***************************************************************************)
Request(c) ==
    LET e == ExecutionOf[c]
    IN  /\ phase[c] = "idle"
        /\ \/ /\ e \in Resuming
              /\ status[e] = "waiting"
              /\ UNCHANGED status
           \/ /\ e \notin Resuming
              /\ status[e] = "none"
              /\ status' = [status EXCEPT ![e] = "new"]
        /\ phase' = [phase EXCEPT ![c] = "called"]
        /\ UNCHANGED <<isEnabled, capacity, queue, pending, active>>

(* add, up to the promise of `throttle`. *)
Add(c) ==
    /\ phase[c] = "called"
    /\ throttle(c)
    /\ UNCHANGED <<isEnabled, pending, active, status>>

(* add after the promise: the row is set to `running` and the execution is *)
(* registered, in place of an earlier entry of the same execution.         *)
SetRunning(c) ==
    /\ phase[c] = "admitted"
    /\ phase' = [phase EXCEPT ![c] = "running"]
    /\ pending' = pending \cup {c}
    /\ active' = [active EXCEPT ![ExecutionOf[c]] = c]
    /\ status' = write(ExecutionOf[c], "running")
    /\ UNCHANGED <<isEnabled, capacity, queue>>

(* Mutant: the entry goes away and its slot is not released. *)
settleWithoutRelease(e, left, keep) ==
    /\ phase' = left
    /\ pending' = pending \ {active[e]}
    /\ active' = IF keep THEN active ELSE [active EXCEPT ![e] = NoCall]
    /\ UNCHANGED <<capacity, queue>>

(***************************************************************************)
(* The pending postExecutePromise of the entry of execution e settles: its *)
(* `finally` handler releases the slot and deletes the entry, unless the   *)
(* execution went to wait.                                                 *)
(***************************************************************************)
settleEntry(e, left, keep) ==
    /\ release(active[e], left)
    /\ pending' = pending \ {active[e]}
    /\ active' = IF keep THEN active ELSE [active EXCEPT ![e] = NoCall]

(* Mutant: the promise of an execution that goes to wait is not resolved. *)
RunEndsUnlessWaiting(c, outcome) ==
    LET e == ExecutionOf[c]
        left == [phase EXCEPT ![c] = "ended"]
    IN  /\ phase[c] \in {"running", "canceling"}
        /\ phase[c] = "canceling" <=> outcome = "canceled"
        /\ IF active[e] \in pending /\ outcome # "waiting"
           THEN settleEntry(e, left, FALSE)
           ELSE phase' = left /\ UNCHANGED <<capacity, queue, pending, active>>
        /\ status' = write(e, outcome)
        /\ UNCHANGED isEnabled

(***************************************************************************)
(* The workflow of call c ends: its result is saved and finalizeExecution  *)
(* resolves the promise of the entry registered under the execution's id,  *)
(* if there is one.                                                        *)
(***************************************************************************)
RunEnds(c, outcome) ==
    LET e == ExecutionOf[c]
        left == [phase EXCEPT ![c] = "ended"]
    IN  /\ phase[c] \in {"running", "canceling"}
        /\ phase[c] = "canceling" <=> outcome = "canceled"
        /\ IF active[e] \in pending
           THEN settleEntry(e, left, outcome = "waiting")
           ELSE phase' = left /\ UNCHANGED <<capacity, queue, pending, active>>
        /\ status' = write(e, outcome)
        /\ UNCHANGED isEnabled

(* stopExecution: the entry of a waiting execution is deleted, any other   *)
(* has its workflow canceled and its promise rejected.                     *)
stopExecution(e) ==
    IF active[e] \in pending
    THEN LET c == active[e]
         IN  settleEntry(e, [phase EXCEPT ![c] = IF @ = "running" THEN "canceling" ELSE @],
                         FALSE)
    ELSE /\ active' = [active EXCEPT ![e] = NoCall]
         /\ UNCHANGED <<capacity, queue, phase, pending>>

(***************************************************************************)
(* shutdown: `disable`, stop the executions that have a response promise   *)
(* (or all of them, cancelAll) and forget the waiting ones.  removeAll     *)
(* comes last and returns at once, as the service is disabled by then.     *)
(***************************************************************************)
Shutdown ==
    /\ isEnabled
    /\ isEnabled' = FALSE
    /\ \E stopped \in SUBSET {e \in Execution : active[e] \in pending} :
         /\ pending' = pending \ {active[e] : e \in stopped}
         /\ active' = [e \in Execution |->
                          IF active[e] \in pending /\ e \notin stopped
                          THEN active[e] ELSE NoCall]
         /\ phase' = [c \in Call |->
                          IF phase[c] = "running" /\ \E e \in stopped : active[e] = c
                          THEN "canceling" ELSE phase[c]]
    /\ UNCHANGED <<capacity, queue, status>>

-----------------------------------------------------------------------------
(* Requests of a user *)

Stoppable == {"new", "waiting", "running"}

(* ExecutionService.stop in regular mode. *)
Stop(e) ==
    /\ status[e] \in Stoppable
    /\ IF has(e)
       THEN remove(e, StoredMode[e]) /\ UNCHANGED <<pending, active>>
       ELSE stopExecution(e)
    /\ status' = write(e, "canceled")
    /\ UNCHANGED isEnabled

(* deleteExecution of the public API. *)
Delete(e) ==
    /\ status[e] \notin {"none", "running", "deleted"}
    /\ IF status[e] = "new"
       THEN remove(e, StoredMode[e])
       ELSE UNCHANGED <<capacity, queue, phase>>
    /\ status' = [status EXCEPT ![e] = "deleted"]
    /\ UNCHANGED <<isEnabled, pending, active>>

Outcome == {"finished", "waiting", "canceled"}

Next ==
    \/ \E c \in Call : \/ Request(c)
                       \/ Add(c)
                       \/ SetRunning(c)
                       \/ \E outcome \in Outcome : RunEnds(c, outcome)
    \/ \E e \in Execution : Stop(e) \/ Delete(e)
    \/ Shutdown

Spec == Init /\ [][Next]_vars

(* The event loop runs, the database answers, and every workflow ends. *)
Fairness ==
    \A c \in Call : /\ WF_vars(Add(c))
                    /\ WF_vars(SetRunning(c))
                    /\ WF_vars(\E outcome \in Outcome : RunEnds(c, outcome))

FairSpec == Spec /\ Fairness

-----------------------------------------------------------------------------
(* Properties *)

InQueue(t) == {queue[t][i] : i \in 1 .. Len(queue[t])}

Throttled(t) == {c \in Call : getQueue(ModeOf[c]) = t /\ phase[c] = "throttled"}

(* Calls of type t that were let through and have not released their slot. *)
Executing(t) ==
    {c \in Call : getQueue(ModeOf[c]) = t /\ (phase[c] = "admitted" \/ c \in pending)}

(***************************************************************************)
(* While the service is enabled, the capacity of a queue is its limit      *)
(* minus the calls that hold a slot or wait for one: no interleaving of    *)
(* enqueue, dequeue and remove loses or invents a slot                     *)
(* (ConcurrencyQueue.enqueue / dequeue / remove).                          *)
(***************************************************************************)
CapacityAccounting ==
    isEnabled =>
        \A t \in Limited :
            capacity[t] = limits[t] - Cardinality(Executing(t) \cup Throttled(t))

(***************************************************************************)
(* A throttled call is exactly a call in the queue of its type, and it is  *)
(* there once: no pending throttle promise is forgotten                    *)
(* (ConcurrencyQueue.queue).                                               *)
(***************************************************************************)
QueuedIffThrottled ==
    \A t \in QueueType :
        /\ InQueue(t) = Throttled(t)
        /\ \A i, j \in 1 .. Len(queue[t]) : queue[t][i] = queue[t][j] => i = j
        /\ t \notin Limited => queue[t] = <<>>

(***************************************************************************)
(* No execution waits while there is room: with a call in the queue, at    *)
(* least `limit` executions of the type hold a slot (resolveNext).         *)
(***************************************************************************)
WorkConserving ==
    isEnabled =>
        \A t \in Limited : queue[t] # <<>> => Cardinality(Executing(t)) >= limits[t]

(* Where a call stands towards concurrency control. *)
placeOf ==
    [c \in Call |->
        IF phase[c] \in {"idle", "called"} THEN "outside"
        ELSE IF phase[c] = "throttled" THEN "waiting"
        ELSE IF phase[c] = "admitted" \/ c \in pending THEN "inside"
        ELSE "gone"]

AQ == INSTANCE AdmissionQueue WITH
          QueueOf <- [c \in Call |-> getQueue(ModeOf[c])], Limit <- limits,
          open <- isEnabled, waiting <- queue, place <- placeOf

(***************************************************************************)
(* The counter `capacity` and the promises of throttle implement an        *)
(* admission queue: calls come in at most once and in the order in which   *)
(* they were throttled, none is overtaken while the service is enabled,    *)
(* and a slot passes from the one that leaves to the next (enqueue,        *)
(* dequeue, remove, resolveNext, under all that ActiveExecutions does).    *)
(***************************************************************************)
IsAdmissionQueue == AQ!Spec

(***************************************************************************)
(* Every throttled call is eventually let through or abandoned, unless the *)
(* process shuts down (every settled execution releases its slot, so that  *)
(* "the next execution in the queue can proceed").                         *)
(***************************************************************************)
ThrottledIsServed ==
    \A c \in Call : (phase[c] = "throttled") ~> (phase[c] # "throttled" \/ ~isEnabled)

(***************************************************************************)
(* A call whose execution was registered gives its slot back in the end:   *)
(* whichever of a normal end, a stop or a wait comes first, the promise it *)
(* holds is settled once (finalizeExecution, stopExecution).               *)
(***************************************************************************)
SlotIsReturned ==
    \A c \in Call : (c \in pending) ~> (c \notin pending)

(***************************************************************************)
(* The configured limit bounds the executions that run at the same time,   *)
(* as the documentation of productionLimit and evaluationLimit says.       *)
(***************************************************************************)
LimitRespected ==
    isEnabled => \A t \in Limited : Cardinality(Executing(t)) <= limits[t]

=============================================================================
