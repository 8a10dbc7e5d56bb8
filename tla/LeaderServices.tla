--------------------------- MODULE LeaderServices ---------------------------
(***************************************************************************)
(* The background services of the main processes that only the leader may  *)
(* run: wait tracking, compaction of insights, queue recovery and pruning. *)
(* Each of them starts its timers when the process takes over leadership   *)
(* and clears them when it steps down.  The two events are emitted and     *)
(* handled in the same step in which MultiMainSetup changes the role of    *)
(* the process.                                                            *)
(***************************************************************************)
EXTENDS MultiMainSetup

VARIABLES
    listening,   \* services that are initialized and listen to the events
    timers,      \* timers of each service
    recovering,  \* queue recoveries in progress
    crossed      \* processes that were leading when a SET NX of theirs was answered

(* crossed is read by properties only.  It tells of checks that overlap:   *)
(* where they do not, a leader never waits for the answer of a SET NX.     *)
serviceVars == <<listening, timers, recovering, crossed>>
vars == <<electionVars, serviceVars>>

(* The services, in the order in which a process initializes them. *)
initOrder == <<"waitTracker", "insights", "queueRecovery", "pruning">>
Service == {initOrder[n] : n \in 1 .. Len(initOrder)}

(* Timers that are set, and whether the field of the service refers to one *)
(* of them.                                                                *)
Timers == [set : Nat, held : BOOLEAN]

ServicesTypeOK ==
    /\ TypeOK
    /\ listening \in [Instance -> SUBSET Service]
    /\ timers \in [Instance -> [Service -> Timers]]
    /\ recovering \in [Instance -> Nat]
    /\ crossed \subseteq Instance

InitServices ==
    /\ Init
    /\ listening = [i \in Instance |-> {}]
    /\ timers = [i \in Instance |-> [s \in Service |-> [set |-> 0, held |-> FALSE]]]
    /\ recovering = [i \in Instance |-> 0]
    /\ crossed = {}

-----------------------------------------------------------------------------
(* Starting and stopping a service *)

setTimer(t) == [set |-> t.set + 1, held |-> TRUE]

(* Mutant: the timer is counted off although it was cleared before. *)
clearTimerTwice(t) == [set |-> t.set - 1, held |-> FALSE]

clearTimer(t) == [set |-> IF t.held THEN t.set - 1 ELSE t.set, held |-> FALSE]

(* startTracking, startBackgroundProcess, scheduleQueueRecovery and        *)
(* startPruning.                                                           *)
startService(s, t) == IF s = "insights" THEN setTimer(clearTimer(t)) ELSE setTimer(t)

(* Mutant: nothing is stopped while the process does not lead. *)
stopServiceOfLeader(s, leads, t) == IF leads THEN clearTimer(t) ELSE t

(* stopTracking, stopBackgroundProcess, stopQueueRecovery and stopPruning. *)
(* Pruning is disabled, and nothing is stopped, unless the process leads.  *)
stopService(s, leads, t) == IF s = "pruning" /\ ~leads THEN t ELSE clearTimer(t)

onTakeover(i) ==
    /\ timers' = [timers EXCEPT ![i] =
                     [s \in Service |-> IF s \in listening[i] THEN startService(s, @[s]) ELSE @[s]]]
    /\ UNCHANGED <<listening, recovering>>

(* The role has changed when the event is emitted. *)
onStepdown(i) ==
    /\ timers' = [timers EXCEPT ![i] =
                     [s \in Service |->
                         IF s \in listening[i] THEN stopService(s, FALSE, @[s]) ELSE @[s]]]
    /\ UNCHANGED <<listening, recovering>>

-----------------------------------------------------------------------------
(* Mutant: a service that is initialized by a leader waits for an event. *)
InitServiceLate(i, s) ==
    /\ process[i] = "up"
    /\ s \notin listening[i]
    /\ s = initOrder[Cardinality(listening[i]) + 1]
    /\ listening' = [listening EXCEPT ![i] = @ \cup {s}]
    /\ UNCHANGED <<electionVars, timers, recovering, crossed>>

(* init of a service: it starts if the process leads, and listens. *)
InitService(i, s) ==
    /\ process[i] = "up"
    /\ s \notin listening[i]
    /\ s = initOrder[Cardinality(listening[i]) + 1]
    /\ listening' = [listening EXCEPT ![i] = @ \cup {s}]
    /\ timers' = IF isLeader(i) THEN [timers EXCEPT ![i][s] = startService(s, @)] ELSE timers
    /\ UNCHANGED <<electionVars, recovering, crossed>>

(* The timer of queue recovery fires once: the one the service refers to,  *)
(* or one that it has lost.                                                *)
QueueRecoveryFires(i) ==
    LET t == timers[i]["queueRecovery"]
        fires(held) == [timers EXCEPT ![i]["queueRecovery"] = [set |-> t.set - 1, held |-> held]]
    IN  /\ Alive(i)
        /\ \/ t.held /\ timers' = fires(FALSE)
           \/ t.set > (IF t.held THEN 1 ELSE 0) /\ timers' = fires(t.held)
        /\ recovering' = [recovering EXCEPT ![i] = @ + 1]
        /\ UNCHANGED <<electionVars, listening, crossed>>

(* The next recovery is scheduled when one ends. *)
QueueRecoveryEnds(i) ==
    /\ Alive(i)
    /\ recovering[i] > 0
    /\ recovering' = [recovering EXCEPT ![i] = @ - 1]
    /\ timers' = [timers EXCEPT ![i]["queueRecovery"] = setTimer(@)]
    /\ UNCHANGED <<electionVars, listening, crossed>>

(* stopProcess: each service stops its timers, then leadership is given up. *)
StopProcess(i) ==
    /\ Shutdown(i)
    /\ timers' = [timers EXCEPT ![i] = [s \in Service |-> stopService(s, isLeader(i), @[s])]]
    /\ UNCHANGED <<listening, recovering, crossed>>

-----------------------------------------------------------------------------
(* A SET NX is answered; the role may have changed since it was sent. *)
marksCrossed(i) == crossed' = IF isLeader(i) THEN crossed \cup {i} ELSE crossed

ServicesHandle(i) ==
    \/ (StepDown(i) \/ Vacant(i)) /\ onStepdown(i) /\ UNCHANGED crossed
    \/ TakeOver(i) /\ onTakeover(i) /\ marksCrossed(i)
    \/ Follow(i) /\ UNCHANGED <<listening, timers, recovering>> /\ marksCrossed(i)
    \/ (Renew(i) \/ StayFollower(i) \/ Acknowledged(i)) /\ UNCHANGED serviceVars

Election(i) ==
    /\ \/ InitSetup(i) \/ CheckLeader(i) \/ Execute(i)
       \/ Reconnect(i) \/ Exit(i) \/ Crash(i)
    /\ UNCHANGED serviceVars

ServicesNext ==
    \/ Expire /\ UNCHANGED serviceVars
    \/ \E i \in Instance :
          \/ ServicesHandle(i) \/ Election(i) \/ StopProcess(i)
          \/ \E s \in Service : InitService(i, s)
          \/ QueueRecoveryFires(i) \/ QueueRecoveryEnds(i)

ServicesSpec == InitServices /\ [][ServicesNext]_vars

-----------------------------------------------------------------------------
(* Properties *)

(***************************************************************************)
(* A process that does not lead tracks no waiting executions and compacts  *)
(* no insights, and never has two timers for either, however checks        *)
(* overlap, unless a SET NX was answered while it was leading already: the *)
(* answer of one check came after another one had made it the leader       *)
(* (startTracking, stopTracking, startBackgroundProcess,                   *)
(* stopBackgroundProcess).  Insights never have two timers even then.      *)
(***************************************************************************)
FollowerIsIdle ==
    \A i \in Instance : process[i] = "up" =>
        /\ timers[i]["insights"].set <= 1
        /\ i \notin crossed =>
              \A s \in {"waitTracker", "insights"} :
                  timers[i][s].set <= IF isLeader(i) THEN 1 ELSE 0

(***************************************************************************)
(* A process that leads runs every service that is initialized, whether    *)
(* leadership came before, while or after the services were initialized,   *)
(* and however often it was lost and won again: a timer is set, or, for    *)
(* queue recovery, a recovery in progress will set one (startTracking,     *)
(* startBackgroundProcess, scheduleQueueRecovery, startPruning).           *)
(***************************************************************************)
LeaderServes ==
    \A i \in Instance : Leads(i) =>
        \A s \in listening[i] :
            timers[i][s].set > 0 \/ (s = "queueRecovery" /\ recovering[i] > 0)

=============================================================================
