--------------------- MODULE ActiveWorkflowManagerProofs ---------------------
(***************************************************************************)
(* Proofs about ActiveWorkflowManager, for any number of processes,        *)
(* operations, triggers, updates, failures and changes of leadership.      *)
(***************************************************************************)
EXTENDS ActiveWorkflowManager, SequenceTheorems, FiniteSetTheorems, WellFoundedInduction, TLAPS

-----------------------------------------------------------------------------
(* Types *)

(* The least member of a set of numbers is one of them. *)
LEMMA LeastIsMember ==
    ASSUME NEW S, S # {}, S \subseteq Nat
    PROVE  Min(S) \in S
  <1>1. PICK i \in S : \A j \in S : <<j, i>> \notin OpToRel(<, Nat)
    BY NatLessThanWellFounded, WFMin, Zenon
  <1>2. \A j \in S : ~(j < i)
    BY <1>1, Zenon DEF OpToRel
  <1>3. \E x \in S : \A y \in S : x <= y
    BY <1>2
  <1> QED BY <1>3 DEF Min

(* An operation starts in a free place. *)
LEMMA StartPlace ==
    ASSUME NEW o, starts(o)
    PROVE  Min(idle) \in idle /\ operations' = [operations EXCEPT ![Min(idle)] = o]
  <1>1. idle # {} /\ idle \subseteq Nat
    BY DEF starts, idle
  <1> QED BY <1>1, LeastIsMember DEF starts

Caller == {"none", "init", "leadershipChange", "command", "retry", "update", "stepdown", "error"}
Step == {"none", "list", "load", "webhooks", "trigger", "poll", "check", "close"}

(* The fields of an operation. *)
LEMMA OperationFields ==
    ASSUME NEW o \in Operation
    PROVE  /\ o.main \in Main \cup {NoMain} /\ o.does \in {"none", "add", "remove"}
           /\ o.caller \in Caller /\ o.step \in Step /\ o.webhooks \in BOOLEAN
           /\ o.triggers \in BOOLEAN /\ o.captured \in SUBSET Trigger
  BY DEF Operation, Caller, Step

(* An operation that goes on. *)
LEMMA NextStep ==
    ASSUME NEW o \in Operation, NEW step \in Step
    PROVE  LET n == [o EXCEPT !.step = step]
           IN  /\ n \in Operation /\ n.step = step
               /\ n.main = o.main /\ n.does = o.does /\ n.caller = o.caller
               /\ n.webhooks = o.webhooks /\ n.triggers = o.triggers /\ n.captured = o.captured
  BY DEF Operation, Step

(* An add that has run its trigger. *)
LEMMA PollStep ==
    ASSUME NEW o \in Operation, NEW t \in Trigger
    PROVE  LET n == [o EXCEPT !.step = "poll", !.captured = {t}]
           IN  /\ n \in Operation /\ n.step = "poll" /\ n.captured = {t}
               /\ n.main = o.main /\ n.does = o.does /\ n.caller = o.caller
               /\ n.webhooks = o.webhooks /\ n.triggers = o.triggers
  BY DEF Operation

(* The operations that start. *)
LEMMA AddType ==
    ASSUME NEW m \in Main, NEW caller \in Caller, NEW step \in Step
    PROVE  LET n == add(m, caller, step)
           IN  /\ n \in Operation /\ n.main = m /\ n.does = "add" /\ n.caller = caller
               /\ n.step = step /\ n.triggers = isLeader(m)
  BY DEF add, NoOperation, Operation, Caller, Step, isLeader

(* A removal that starts. *)
LEMMA RemoveType ==
    ASSUME NEW m \in Main, NEW caller \in Caller
    PROVE  LET n == remove(m, caller)
           IN  /\ n \in Operation /\ n.main = m /\ n.does = "remove" /\ n.caller = caller
               /\ n.step = "check"
  BY DEF remove, NoOperation, Operation, Caller, Step

(* A removal that has found the entry. *)
LEMMA ClosingType ==
    ASSUME NEW o \in Operation, entry[o.main] \in SUBSET Trigger
    PROVE  LET n == closing(o)
           IN  /\ n \in Operation /\ n.main = o.main /\ n.does = o.does /\ n.caller = o.caller
               /\ n.step = "close" /\ n.captured = entry[o.main]
  BY DEF closing, Operation

(* The fields of NoOperation. *)
LEMMA NoOperationType ==
    /\ NoOperation \in Operation /\ NoOperation.main = NoMain /\ NoOperation.does = "none"
    /\ NoOperation.caller = "none" /\ NoOperation.step = "none" /\ NoOperation.captured = {}
  BY DEF NoOperation, Operation

(* Messages *)
LEMMA PublishType ==
    ASSUME inbox \in [Main -> Seq({"add", "remove"})], NEW command \in {"add", "remove"},
           publish(command)
    PROVE  inbox' \in [Main -> Seq({"add", "remove"})]
  BY AppendProperties DEF publish

(* A retry that is queued, or removed. *)
LEMMA QueuedType ==
    ASSUME ManagerTypeOK, NEW m \in Main, removeQueued(m) \/ addQueued(m)
    PROVE  /\ queued' \in [Main -> {"none", "timer", "fired"}]
           /\ timers' \in [Main -> Nat]
           /\ \A x \in Main : queued'[x] = "timer" => timers'[x] > 0
  <1>t. /\ queued \in [Main -> {"none", "timer", "fired"}] /\ timers \in [Main -> Nat]
        /\ \A x \in Main : queued[x] = "timer" => timers[x] > 0
    BY DEF ManagerTypeOK
  <1>1. CASE removeQueued(m)
    <2>1. /\ queued' = [queued EXCEPT ![m] = "none"]
          /\ timers' = [timers EXCEPT ![m] = IF queued[m] = "timer" THEN @ - 1 ELSE @]
      BY <1>1 DEF removeQueued
    <2>2. (IF queued[m] = "timer" THEN timers[m] - 1 ELSE timers[m]) \in Nat
      BY <1>t
    <2> QED BY <1>t, <2>1, <2>2
  <1>2. CASE addQueued(m)
    <2>1. /\ queued' = [queued EXCEPT ![m] = "timer"]
          /\ timers' = [timers EXCEPT ![m] = IF queued[m] = "timer" THEN @ ELSE @ + 1]
      BY <1>2 DEF addQueued
    <2>2. (IF queued[m] = "timer" THEN timers[m] ELSE timers[m] + 1) \in Nat \ {0}
      BY <1>t
    <2> QED BY <1>t, <2>1, <2>2
  <1> QED BY <1>1, <1>2

(* An operation that is in progress is one of a process. *)
Placed ==
    \A k \in 1 .. MaxOperations :
        operations[k] = NoOperation \/ (operations[k].main \in Mains /\ operations[k].does # "none")

TypeInv == ManagerTypeOK /\ Placed

(* The processes in use. *)
LEMMA MainFacts == Mains \subseteq Main /\ FirstMain \in Mains /\ NoMain \notin Main
  BY ManagerAssumption DEF Mains

(* A place of the operations gets another one. *)
LEMMA PlaceType ==
    ASSUME TypeInv, deployment' = deployment, NEW k \in 1 .. MaxOperations, NEW n \in Operation,
           operations' = [operations EXCEPT ![k] = n],
           n = NoOperation \/ (n.main \in Mains /\ n.does # "none")
    PROVE  operations' \in [1 .. MaxOperations -> Operation] /\ Placed'
  BY DEF TypeInv, ManagerTypeOK, Placed, Mains, isMultiMain

(* An operation starts. *)
LEMMA StartType ==
    ASSUME TypeInv, deployment' = deployment, NEW n \in Operation, starts(n),
           n.main \in Mains, n.does # "none"
    PROVE  operations' \in [1 .. MaxOperations -> Operation] /\ Placed' /\ disturbed' \in BOOLEAN
  <1>1. Min(idle) \in 1 .. MaxOperations /\ operations' = [operations EXCEPT ![Min(idle)] = n]
    BY StartPlace DEF idle
  <1>2. disturbed' \in BOOLEAN
    BY DEF starts, TypeInv, ManagerTypeOK
  <1> QED BY <1>1, <1>2, PlaceType

(* An operation ends. *)
LEMMA EndType ==
    ASSUME TypeInv, deployment' = deployment, NEW k \in 1 .. MaxOperations, ends(k)
    PROVE  /\ operations' \in [1 .. MaxOperations -> Operation] /\ Placed'
           /\ request' \in [target : BOOLEAN,
                            step : {"none", "clear", "removing", "write", "adding"}]
  <1>1. operations' = [operations EXCEPT ![k] = NoOperation]
    BY DEF ends
  <1>2. operations' \in [1 .. MaxOperations -> Operation] /\ Placed'
    BY <1>1, NoOperationType, PlaceType
  <1>3. request' \in [target : BOOLEAN, step : {"none", "clear", "removing", "write", "adding"}]
    BY DEF ends, TypeInv, ManagerTypeOK, NoRequest
  <1> QED BY <1>2, <1>3

(* An operation goes to its next step. *)
LEMMA GoesType ==
    ASSUME TypeInv, deployment' = deployment, NEW k \in 1 .. MaxOperations, NEW step \in Step,
           operations[k].step # "none", goesTo(k, step)
    PROVE  operations' \in [1 .. MaxOperations -> Operation] /\ Placed'
  <1> DEFINE o == operations[k]
             n == [o EXCEPT !.step = step]
  <1>1. o \in Operation /\ (o = NoOperation \/ (o.main \in Mains /\ o.does # "none"))
    BY DEF TypeInv, ManagerTypeOK, Placed
  <1>2. o # NoOperation
    BY NoOperationType
  <1>3. n \in Operation /\ n.main = o.main /\ n.does = o.does
    BY <1>1, NextStep
  <1>4. operations' = [operations EXCEPT ![k] = n]
    BY DEF goesTo, TypeInv, ManagerTypeOK
  <1> HIDE DEF n, o
  <1> QED BY <1>1, <1>2, <1>3, <1>4, PlaceType

(* The operation in place k, if it is at some step. *)
LEMMA InProgressType ==
    ASSUME TypeInv, NEW k \in 1 .. MaxOperations, operations[k].step # "none"
    PROVE  /\ operations[k] \in Operation /\ operations[k].main \in Mains
           /\ operations[k].main \in Main /\ operations[k].does # "none"
  BY NoOperationType, MainFacts DEF TypeInv, ManagerTypeOK, Placed

(* What an entry refers to. *)
LEMMA EntryType ==
    ASSUME ManagerTypeOK, NEW m \in Main, entry[m] # NoEntry
    PROVE  entry[m] \in SUBSET Trigger
  <1>1. entry \in [Main -> (SUBSET Trigger) \cup {NoEntry}]
    BY DEF ManagerTypeOK
  <1>2. entry[m] \in (SUBSET Trigger) \cup {NoEntry}
    BY <1>1
  <1> HIDE DEF ManagerTypeOK
  <1> QED BY <1>2

(* Every step keeps the types. *)
LEMMA TypeStep == TypeInv /\ [Next]_vars => TypeInv'
  <1> SUFFICES ASSUME TypeInv, [Next]_vars PROVE TypeInv'
    OBVIOUS
  <1>t. /\ deployment \in Deployment /\ leader \in Mains \cup {NoMain} /\ initialized \subseteq Mains
        /\ active \in BOOLEAN /\ webhook \in BOOLEAN /\ running \in [Main -> SUBSET Trigger]
        /\ crons \in [Main -> Nat] /\ entry \in [Main -> (SUBSET Trigger) \cup {NoEntry}]
        /\ queued \in [Main -> {"none", "timer", "fired"}] /\ timers \in [Main -> Nat]
        /\ \A m \in Main : queued[m] = "timer" => timers[m] > 0
        /\ operations \in [1 .. MaxOperations -> Operation]
        /\ inbox \in [Main -> Seq({"add", "remove"})]
        /\ request \in [target : BOOLEAN, step : {"none", "clear", "removing", "write", "adding"}]
        /\ counts \in [updates : 0 .. deployment.updates, failures : 0 .. deployment.failures,
                       stepdowns : 0 .. deployment.stepdowns]
        /\ disturbed \in BOOLEAN /\ revived \in BOOLEAN /\ gaveUp \in BOOLEAN
        /\ stranded \in [Main -> SUBSET Trigger] /\ \A m \in Main : stranded[m] \subseteq running[m]
        /\ Placed /\ ManagerTypeOK
    BY DEF TypeInv, ManagerTypeOK
  <1>d. /\ deployment.updates \in Nat /\ deployment.failures \in Nat /\ deployment.stepdowns \in Nat
        /\ deployment.isMultiMain \in BOOLEAN
    BY <1>t, ManagerAssumption
  <1>m. deployment' = deployment => Mains' = Mains
    BY DEF Mains, isMultiMain
  <1>u. \A x \in {"updates", "failures", "stepdowns"} : counts[x] \in Nat
    BY <1>t, <1>d
  <1> USE DEF TypeInv
  <1>1. ASSUME NEW k \in 1 .. MaxOperations, Load(k) PROVE TypeInv'
    <2>1. /\ operations[k] \in Operation /\ operations[k].main \in Mains
          /\ operations[k].main \in Main /\ operations[k].does # "none"
          /\ deployment' = deployment
      BY <1>1, InProgressType DEF Load
    <2>2. operations' \in [1 .. MaxOperations -> Operation] /\ Placed'
          /\ request' \in [target : BOOLEAN, step : {"none", "clear", "removing", "write", "adding"}]
      <3>1. CASE ends(k)
        BY <2>1, <3>1, EndType
      <3>2. CASE operations' = [operations EXCEPT ![k] = [operations[k] EXCEPT !.step = "load"]]
                 /\ UNCHANGED request
        <4>1. "load" \in Step
          BY DEF Step
        <4>2. [operations[k] EXCEPT !.step = "load"] \in Operation
              /\ [operations[k] EXCEPT !.step = "load"].main \in Mains
              /\ [operations[k] EXCEPT !.step = "load"].does # "none"
          BY <2>1, <4>1, NextStep
        <4> QED BY <1>t, <2>1, <3>2, <4>2, PlaceType
      <3>3. CASE operations' = [operations EXCEPT ![k] =
                                  add(operations[k].main, operations[k].caller, "webhooks")]
                 /\ UNCHANGED request
        <4>1. operations[k].caller \in Caller /\ "webhooks" \in Step
          BY <2>1, OperationFields DEF Step
        <4>2. add(operations[k].main, operations[k].caller, "webhooks") \in Operation
              /\ add(operations[k].main, operations[k].caller, "webhooks").main \in Mains
              /\ add(operations[k].main, operations[k].caller, "webhooks").does # "none"
          BY <2>1, <4>1, AddType
        <4> QED BY <1>t, <2>1, <3>3, <4>2, PlaceType
      <3> QED BY <1>1, <3>1, <3>2, <3>3 DEF Load
    <2> QED BY <1>1, <1>t, <1>m, <2>2 DEF Load, history, ManagerTypeOK
  <1>c. ASSUME NEW k \in 1 .. MaxOperations, operations[k].step # "none", completes(k),
               deployment' = deployment
        PROVE  /\ operations' \in [1 .. MaxOperations -> Operation] /\ Placed'
               /\ request' \in [target : BOOLEAN,
                                step : {"none", "clear", "removing", "write", "adding"}]
               /\ queued' \in [Main -> {"none", "timer", "fired"}]
               /\ timers' \in [Main -> Nat]
               /\ \A x \in Main : queued'[x] = "timer" => timers'[x] > 0
    <2>1. operations[k].main \in Main
      BY <1>c, InProgressType
    <2>2. removeQueued(operations[k].main) /\ ends(k)
      BY <1>c DEF completes
    <2>3. /\ queued' \in [Main -> {"none", "timer", "fired"}] /\ timers' \in [Main -> Nat]
          /\ \A x \in Main : queued'[x] = "timer" => timers'[x] > 0
      BY <1>t, <2>1, <2>2, QueuedType
    <2> QED BY <1>c, <2>2, <2>3, EndType
  <1>2. ASSUME NEW k \in 1 .. MaxOperations, AddWebhooks(k) PROVE TypeInv'
    <2>1. operations[k].step # "none" /\ deployment' = deployment /\ webhook' \in BOOLEAN
      BY <1>2, <1>t DEF AddWebhooks
    <2>2. CASE completes(k)
      BY <1>2, <1>t, <1>m, <1>c, <2>1, <2>2 DEF AddWebhooks, history, ManagerTypeOK
    <2>3. CASE goesTo(k, "trigger") /\ UNCHANGED <<queued, timers, request>>
      <3>1. "trigger" \in Step
        BY DEF Step
      <3>2. operations' \in [1 .. MaxOperations -> Operation] /\ Placed'
        BY <2>1, <2>3, <3>1, GoesType
      <3> QED BY <1>2, <1>t, <1>m, <2>1, <2>3, <3>2 DEF AddWebhooks, history, ManagerTypeOK
    <2> QED BY <1>2, <2>2, <2>3 DEF AddWebhooks
  <1>3. ASSUME NEW k \in 1 .. MaxOperations, RunTrigger(k) PROVE TypeInv'
    <2> DEFINE m == operations[k].main
               t == Min(freshTriggers(m))
    <2>1. /\ operations[k].step # "none" /\ deployment' = deployment /\ freshTriggers(m) # {}
          /\ running' = [running EXCEPT ![m] = @ \cup {t}] /\ entry' = [entry EXCEPT ![m] = {t}]
          /\ operations' = [operations EXCEPT ![k].step = "poll", ![k].captured = {t}]
          /\ UNCHANGED <<stranded, disturbed, revived, gaveUp>>
      BY <1>3 DEF RunTrigger, history
    <2>2. freshTriggers(m) \subseteq Trigger /\ freshTriggers(m) \subseteq Nat
      BY DEF freshTriggers, Trigger
    <2>3. t \in Trigger
      BY <2>1, <2>2, LeastIsMember
    <2>4. m \in Main /\ operations' \in [1 .. MaxOperations -> Operation] /\ Placed'
      <3>1. /\ operations[k] \in Operation /\ m \in Mains /\ m \in Main
            /\ operations[k].does # "none"
        BY <2>1, InProgressType
      <3>2. PICK n : n = [operations[k] EXCEPT !.step = "poll", !.captured = {t}]
        OBVIOUS
      <3>3. n \in Operation /\ n.main = m /\ n.does = operations[k].does
        BY <2>3, <3>1, <3>2, PollStep
      <3>4. operations' = [operations EXCEPT ![k] = n]
        BY <1>t, <2>1, <3>2
      <3> QED BY <2>1, <3>1, <3>3, <3>4, PlaceType
    <2> HIDE DEF t, m
    <2>5. /\ running' \in [Main -> SUBSET Trigger]
          /\ entry' \in [Main -> (SUBSET Trigger) \cup {NoEntry}]
          /\ \A x \in Main : stranded'[x] \subseteq running'[x]
      BY <1>t, <2>1, <2>3, <2>4
    <2> QED BY <1>3, <1>t, <1>m, <2>1, <2>4, <2>5 DEF RunTrigger, history, ManagerTypeOK
  <1>4. ASSUME NEW k \in 1 .. MaxOperations, ActivatePolling(k) PROVE TypeInv'
    <2> DEFINE m == operations[k].main
    <2>1. operations[k].step # "none" /\ deployment' = deployment /\ completes(k)
          /\ crons' = [crons EXCEPT ![m] = @ + 1]
      BY <1>4 DEF ActivatePolling
    <2>2. m \in Main
      BY <2>1, InProgressType
    <2> HIDE DEF m
    <2>3. crons' \in [Main -> Nat]
      BY <1>t, <2>1, <2>2
    <2> QED BY <1>4, <1>t, <1>m, <1>c, <2>1, <2>3 DEF ActivatePolling, ManagerTypeOK
  <1>f. ASSUME counts.failures < deployment.failures,
               counts' = [counts EXCEPT !.failures = @ + 1]
        PROVE  counts' \in [updates : 0 .. deployment.updates, failures : 0 .. deployment.failures,
                            stepdowns : 0 .. deployment.stepdowns]
    <2>1. counts.failures + 1 \in 0 .. deployment.failures
      BY <1>t, <1>d, <1>f
    <2> QED BY <1>t, <1>f, <2>1
  <1>g. ASSUME NEW x \in {"updates", "stepdowns"}, counts[x] < deployment[x],
               counts' = [counts EXCEPT ![x] = @ + 1]
        PROVE  counts' \in [updates : 0 .. deployment.updates, failures : 0 .. deployment.failures,
                            stepdowns : 0 .. deployment.stepdowns]
    <2>1. CASE x = "updates"
      <3>1. counts.updates < deployment.updates /\ counts' = [counts EXCEPT !.updates = counts.updates + 1]
        BY <1>g, <2>1
      <3>2. counts.updates + 1 \in 0 .. deployment.updates
        BY <1>t, <1>d, <3>1
      <3> QED BY <1>t, <3>1, <3>2
    <2>2. CASE x = "stepdowns"
      <3>1. /\ counts.stepdowns < deployment.stepdowns
            /\ counts' = [counts EXCEPT !.stepdowns = counts.stepdowns + 1]
        BY <1>g, <2>2
      <3>2. counts.stepdowns + 1 \in 0 .. deployment.stepdowns
        BY <1>t, <1>d, <3>1
      <3> QED BY <1>t, <3>1, <3>2
    <2> QED BY <1>g, <2>1, <2>2
  <1>5. ASSUME NEW k \in 1 .. MaxOperations, AddFails(k) PROVE TypeInv'
    <2> DEFINE m == operations[k].main
               c == operations[k].captured
    <2>1. /\ operations[k].step # "none" /\ deployment' = deployment /\ ends(k)
          /\ webhook' \in BOOLEAN
          /\ stranded' = [stranded EXCEPT ![m] = @ \cup (c \cap running[m])]
          /\ UNCHANGED <<deployment, leader, initialized, running, crons, entry, inbox, disturbed,
                         revived>>
      BY <1>5, <1>t DEF AddFails
    <2>2. counts' \in [updates : 0 .. deployment.updates, failures : 0 .. deployment.failures,
                       stepdowns : 0 .. deployment.stepdowns]
      BY <1>5, <1>f DEF AddFails
    <2>3. /\ active' \in BOOLEAN /\ gaveUp' \in BOOLEAN
          /\ \/ addQueued(m)
             \/ timers' = [timers EXCEPT ![m] = @ + 1] /\ queued' = [queued EXCEPT ![m] = "timer"]
             \/ UNCHANGED <<queued, timers>>
      <3>1. CASE queuesActivation(k)
        BY <1>t, <3>1 DEF queuesActivation
      <3>2. CASE repeatsRetry(k)
        BY <1>t, <3>2 DEF repeatsRetry
      <3>3. CASE commandDeactivates(k) \/ updateDeactivates(k)
        BY <1>t, <3>3 DEF commandDeactivates, updateDeactivates
      <3> QED BY <1>5, <3>1, <3>2, <3>3 DEF AddFails
    <2>4. m \in Main
      BY <2>1, InProgressType
    <2> HIDE DEF m, c
    <2>5. /\ queued' \in [Main -> {"none", "timer", "fired"}] /\ timers' \in [Main -> Nat]
          /\ \A x \in Main : queued'[x] = "timer" => timers'[x] > 0
      <3>1. CASE addQueued(m)
        BY <1>t, <2>4, <3>1, QueuedType
      <3>2. CASE timers' = [timers EXCEPT ![m] = @ + 1] /\ queued' = [queued EXCEPT ![m] = "timer"]
        BY <1>t, <2>4, <3>2
      <3>3. CASE UNCHANGED <<queued, timers>>
        BY <1>t, <3>3
      <3> QED BY <2>3, <3>1, <3>2, <3>3
    <2>6. /\ operations' \in [1 .. MaxOperations -> Operation] /\ Placed'
          /\ request' \in [target : BOOLEAN, step : {"none", "clear", "removing", "write", "adding"}]
      BY <2>1, EndType
    <2>7. stranded' \in [Main -> SUBSET Trigger] /\ \A x \in Main : stranded'[x] \subseteq running'[x]
      BY <1>t, <2>1, <2>4
    <2> QED BY <1>t, <1>m, <2>1, <2>2, <2>3, <2>5, <2>6, <2>7 DEF ManagerTypeOK
  <1>6. ASSUME NEW m \in Mains, RetryFires(m) PROVE TypeInv'
    <2>1. m \in Main /\ deployment' = deployment
      BY <1>6, MainFacts DEF RetryFires
    <2>2. /\ queued' \in [Main -> {"none", "timer", "fired"}] /\ timers' \in [Main -> Nat]
          /\ \A x \in Main : queued'[x] = "timer" => timers'[x] > 0
      <3>1. timers[m] \in Nat \ {0} /\ timers' = [timers EXCEPT ![m] = timers[m] - 1]
        BY <1>6, <1>t, <2>1 DEF RetryFires
      <3>2. \/ queued[m] = "timer" /\ queued' = [queued EXCEPT ![m] = "fired"]
            \/ timers[m] > (IF queued[m] = "timer" THEN 1 ELSE 0) /\ queued' = queued
        BY <1>6 DEF RetryFires
      <3>3. timers[m] - 1 \in Nat /\ (timers[m] > 1 => timers[m] - 1 > 0)
        BY <3>1
      <3>4. timers' \in [Main -> Nat]
        BY <1>t, <2>1, <3>1, <3>3
      <3>5. queued' \in [Main -> {"none", "timer", "fired"}]
        BY <1>t, <2>1, <3>2
      <3>6. ASSUME NEW x \in Main, queued'[x] = "timer" PROVE timers'[x] > 0
        <4>1. CASE x # m
          BY <1>t, <2>1, <3>1, <3>2, <3>6, <4>1
        <4>2. CASE x = m
          <5>1. queued[m] = "timer" /\ timers[m] > 1
            BY <1>t, <2>1, <3>1, <3>2, <3>6, <4>2
          <5>2. timers'[m] = timers[m] - 1
            BY <1>t, <2>1, <3>1
          <5> QED BY <3>1, <4>2, <5>1, <5>2
        <4> QED BY <4>1, <4>2
      <3> QED BY <3>4, <3>5, <3>6
    <2>3. /\ operations' \in [1 .. MaxOperations -> Operation] /\ Placed'
          /\ inbox' \in [Main -> Seq({"add", "remove"})] /\ disturbed' \in BOOLEAN
      <3>1. CASE isMultiMain
        <4>1. publish("add") /\ operations' = operations /\ disturbed' = (disturbed \/ busy(m, "retry"))
          BY <1>6, <3>1 DEF RetryFires
        <4>2. Placed'
          BY <1>t, <1>m, <2>1, <4>1 DEF Placed
        <4>3. inbox' \in [Main -> Seq({"add", "remove"})]
          BY <1>t, <4>1, PublishType
        <4> QED BY <1>t, <4>1, <4>2, <4>3
      <3>2. CASE ~isMultiMain
        <4>1. starts(add(m, "retry", "webhooks")) /\ inbox' = inbox
          BY <1>6, <3>2 DEF RetryFires
        <4>2. "retry" \in Caller /\ "webhooks" \in Step
          BY DEF Caller, Step
        <4>3. LET n == add(m, "retry", "webhooks") IN n \in Operation /\ n.main = m /\ n.does = "add"
          BY <2>1, <4>2, AddType
        <4> QED BY <1>t, <2>1, <4>1, <4>3, StartType
      <3> QED BY <3>1, <3>2
    <2>4. UNCHANGED <<deployment, leader, initialized, active, webhook, running, crons, entry,
                      request, counts, stranded, revived, gaveUp>>
      BY <1>6 DEF RetryFires
    <2> QED BY <1>t, <1>m, <2>2, <2>3, <2>4 DEF ManagerTypeOK
  <1>7. ASSUME NEW k \in 1 .. MaxOperations, RemoveBegins(k) PROVE TypeInv'
    <2> DEFINE o == operations[k]
    <2>1. /\ o.step # "none" /\ deployment' = deployment
          /\ o \in Operation /\ o.main \in Mains /\ o.main \in Main /\ o.does # "none"
      BY <1>7, InProgressType DEF RemoveBegins
    <2>2. /\ queued' \in [Main -> {"none", "timer", "fired"}] /\ timers' \in [Main -> Nat]
          /\ \A x \in Main : queued'[x] = "timer" => timers'[x] > 0
      <3>1. removeQueued(o.main) \/ UNCHANGED <<queued, timers>>
        BY <1>7 DEF RemoveBegins
      <3> QED BY <1>t, <2>1, <3>1, QueuedType
    <2>3. /\ operations' \in [1 .. MaxOperations -> Operation] /\ Placed'
          /\ request' \in [target : BOOLEAN, step : {"none", "clear", "removing", "write", "adding"}]
          /\ crons' \in [Main -> Nat]
      <3>1. CASE entry[o.main] = NoEntry
        <4>1. ends(k) /\ crons' = crons
          BY <1>7, <3>1 DEF RemoveBegins
        <4> QED BY <1>t, <2>1, <4>1, EndType
      <3>2. CASE entry[o.main] # NoEntry
        <4>1. operations' = [operations EXCEPT ![k] = closing(o)] /\ deregisterCrons(o.main)
              /\ request' = request
          BY <1>7, <3>2 DEF RemoveBegins
        <4>2. entry[o.main] \in SUBSET Trigger
          BY <2>1, <3>2, EntryType
        <4>3. closing(o) \in Operation /\ closing(o).main = o.main /\ closing(o).does = o.does
          BY <2>1, <4>2, ClosingType
        <4>4. crons' \in [Main -> Nat]
          BY <1>t, <4>1 DEF deregisterCrons
        <4> QED BY <1>t, <2>1, <4>1, <4>3, <4>4, PlaceType
      <3> QED BY <3>1, <3>2
    <2> QED BY <1>7, <1>t, <1>m, <2>1, <2>2, <2>3 DEF RemoveBegins, history, ManagerTypeOK
  <1>8. ASSUME NEW k \in 1 .. MaxOperations, RemoveEnds(k) PROVE TypeInv'
    <2> DEFINE m == operations[k].main
               c == operations[k].captured
    <2>1. /\ operations[k].step # "none" /\ deployment' = deployment /\ ends(k)
          /\ running' = [running EXCEPT ![m] = @ \ c] /\ entry' = [entry EXCEPT ![m] = NoEntry]
          /\ stranded' = [stranded EXCEPT ![m] = @ \ c]
      BY <1>8 DEF RemoveEnds
    <2>2. m \in Main
      BY <2>1, InProgressType
    <2>3. /\ operations' \in [1 .. MaxOperations -> Operation] /\ Placed'
          /\ request' \in [target : BOOLEAN, step : {"none", "clear", "removing", "write", "adding"}]
      BY <2>1, EndType
    <2> HIDE DEF m, c
    <2>4. /\ running' \in [Main -> SUBSET Trigger] /\ stranded' \in [Main -> SUBSET Trigger]
          /\ \A x \in Main : stranded'[x] \subseteq running'[x]
      BY <1>t, <2>1, <2>2
    <2>5. entry' \in [Main -> (SUBSET Trigger) \cup {NoEntry}]
      BY <1>t, <2>1, <2>2
    <2> QED BY <1>8, <1>t, <1>m, <2>1, <2>3, <2>4, <2>5 DEF RemoveEnds, ManagerTypeOK
  <1>18. ASSUME NEW k \in 1 .. MaxOperations, CloseFails(k) PROVE TypeInv'
    <2> DEFINE m == operations[k].main
               c == operations[k].captured
    <2>1. /\ operations[k].step # "none" /\ deployment' = deployment
          /\ \/ /\ stranded' = [stranded EXCEPT ![m] = @ \cup (c \cap running[m])]
                /\ running' = running
             \/ /\ stranded' = [stranded EXCEPT ![m] = @ \ c]
                /\ running' = [running EXCEPT ![m] = @ \ c]
          /\ \/ ends(k) /\ entry' = [entry EXCEPT ![m] = NoEntry] /\ UNCHANGED gaveUp
             \/ rejects(k)
          /\ UNCHANGED <<deployment, leader, initialized, active, webhook, crons, queued, timers,
                         inbox, disturbed, revived>>
      BY <1>18 DEF CloseFails
    <2>2. counts' \in [updates : 0 .. deployment.updates, failures : 0 .. deployment.failures,
                       stepdowns : 0 .. deployment.stepdowns]
      BY <1>18, <1>f DEF CloseFails
    <2>3. m \in Main
      BY <2>1, InProgressType
    <2>4. /\ operations' \in [1 .. MaxOperations -> Operation] /\ Placed'
          /\ request' \in [target : BOOLEAN, step : {"none", "clear", "removing", "write", "adding"}]
          /\ entry' \in [Main -> (SUBSET Trigger) \cup {NoEntry}] /\ gaveUp' \in BOOLEAN
      <3>1. CASE ends(k) /\ entry' = [entry EXCEPT ![m] = NoEntry] /\ UNCHANGED gaveUp
        <4>1. entry' \in [Main -> (SUBSET Trigger) \cup {NoEntry}]
          BY <1>t, <2>3, <3>1
        <4> QED BY <1>t, <2>1, <3>1, <4>1, EndType
      <3>2. CASE rejects(k)
        <4>1. operations' \in [1 .. MaxOperations -> Operation] /\ Placed'
          BY <2>1, <3>2, NoOperationType, PlaceType DEF rejects
        <4>2. entry' = entry /\ request' \in {request, NoRequest} /\ gaveUp' \in {gaveUp, TRUE}
          BY <3>2 DEF rejects
        <4>3. request' \in [target : BOOLEAN, step : {"none", "clear", "removing", "write", "adding"}]
          <5>1. CASE request' = NoRequest
            BY <5>1 DEF NoRequest
          <5>2. CASE request' = request
            BY <1>t, <5>2
          <5> QED BY <4>2, <5>1, <5>2
        <4>4. entry' \in [Main -> (SUBSET Trigger) \cup {NoEntry}] /\ gaveUp' \in BOOLEAN
          BY <1>t, <4>2
        <4> QED BY <4>1, <4>3, <4>4
      <3> QED BY <2>1, <3>1, <3>2
    <2> HIDE DEF m, c
    <2>5. /\ running' \in [Main -> SUBSET Trigger] /\ stranded' \in [Main -> SUBSET Trigger]
          /\ \A x \in Main : stranded'[x] \subseteq running'[x]
      <3>1. CASE /\ stranded' = [stranded EXCEPT ![m] = @ \cup (c \cap running[m])]
                 /\ running' = running
        BY <1>t, <2>3, <3>1
      <3>2. CASE /\ stranded' = [stranded EXCEPT ![m] = @ \ c]
                 /\ running' = [running EXCEPT ![m] = @ \ c]
        BY <1>t, <2>3, <3>2
      <3> QED BY <2>1, <3>1, <3>2
    <2> QED BY <1>t, <1>m, <2>1, <2>2, <2>4, <2>5 DEF ManagerTypeOK
  <1>9. ASSUME NEW m \in Mains, EmitError(m) PROVE TypeInv'
    <2>1. m \in Main /\ deployment' = deployment
      BY <1>9, MainFacts DEF EmitError
    <2>2. /\ queued' \in [Main -> {"none", "timer", "fired"}] /\ timers' \in [Main -> Nat]
          /\ \A x \in Main : queued'[x] = "timer" => timers'[x] > 0
      BY <1>9, <1>t, <2>1, QueuedType DEF EmitError
    <2>3. counts' \in [updates : 0 .. deployment.updates, failures : 0 .. deployment.failures,
                       stepdowns : 0 .. deployment.stepdowns]
      BY <1>9, <1>f DEF EmitError
    <2>4. /\ operations' \in [1 .. MaxOperations -> Operation] /\ Placed'
          /\ crons' \in [Main -> Nat] /\ disturbed' \in BOOLEAN
      <3>1. CASE entry[m] = NoEntry
        <4>1. operations' = operations /\ crons' = crons /\ disturbed' = (disturbed \/ busy(m, "error"))
          BY <1>9, <3>1 DEF EmitError
        <4> QED BY <1>t, <1>m, <2>1, <4>1 DEF Placed
      <3>2. CASE entry[m] # NoEntry
        <4>1. starts(closing(remove(m, "error"))) /\ deregisterCrons(m)
          BY <1>9, <3>2 DEF EmitError
        <4> DEFINE o == remove(m, "error")
        <4>2. "error" \in Caller
          BY DEF Caller
        <4>3. o \in Operation /\ o.main = m /\ o.does = "remove"
          BY <2>1, <4>2, RemoveType
        <4> HIDE DEF o
        <4>4. entry[o.main] \in SUBSET Trigger
          BY <2>1, <3>2, <4>3, EntryType
        <4>5. closing(o) \in Operation /\ closing(o).main = m /\ closing(o).does = "remove"
          BY <4>3, <4>4, ClosingType
        <4>6. crons' \in [Main -> Nat]
          BY <1>t, <4>1 DEF deregisterCrons
        <4>7. starts(closing(o))
          BY <4>1 DEF o
        <4> QED BY <1>t, <2>1, <4>5, <4>6, <4>7, StartType
      <3> QED BY <3>1, <3>2
    <2> QED BY <1>9, <1>t, <1>m, <2>1, <2>2, <2>3, <2>4 DEF EmitError, ManagerTypeOK
  <1>a. ASSUME NEW m \in Mains, NEW caller \in Caller, NEW step \in Step,
               starts(add(m, caller, step)) \/ starts(remove(m, caller)), deployment' = deployment
        PROVE  operations' \in [1 .. MaxOperations -> Operation] /\ Placed' /\ disturbed' \in BOOLEAN
    <2>1. m \in Main
      BY MainFacts
    <2>2. CASE starts(add(m, caller, step))
      <3>1. LET n == add(m, caller, step) IN n \in Operation /\ n.main = m /\ n.does = "add"
        BY <2>1, AddType
      <3> QED BY <1>t, <1>a, <2>2, <3>1, StartType
    <2>3. CASE starts(remove(m, caller))
      <3>1. LET n == remove(m, caller) IN n \in Operation /\ n.main = m /\ n.does = "remove"
        BY <2>1, RemoveType
      <3> QED BY <1>t, <1>a, <2>3, <3>1, StartType
    <2> QED BY <1>a, <2>2, <2>3
  <1>10. ASSUME NEW m \in Mains, InitManager(m) PROVE TypeInv'
    <2>1. "init" \in Caller /\ "list" \in Step /\ deployment' = deployment
      BY <1>10 DEF Caller, Step, InitManager
    <2>2. operations' \in [1 .. MaxOperations -> Operation] /\ Placed' /\ disturbed' \in BOOLEAN
      BY <1>10, <1>a, <2>1 DEF InitManager
    <2> QED BY <1>10, <1>t, <1>m, <2>1, <2>2 DEF InitManager, ManagerTypeOK
  <1>11. ASSUME NEW m \in Mains, Takeover(m) PROVE TypeInv'
    <2>1. "leadershipChange" \in Caller /\ "list" \in Step /\ deployment' = deployment
      BY <1>11 DEF Caller, Step, Takeover
    <2>2. operations' \in [1 .. MaxOperations -> Operation] /\ Placed' /\ disturbed' \in BOOLEAN
      BY <1>11, <1>a, <2>1 DEF Takeover
    <2> QED BY <1>11, <1>t, <1>m, <2>1, <2>2 DEF Takeover, ManagerTypeOK
  <1>12. ASSUME NEW m \in Mains, Stepdown(m) PROVE TypeInv'
    <2>1. "stepdown" \in Caller /\ deployment' = deployment
      BY <1>12 DEF Caller, Stepdown
    <2>2. operations' \in [1 .. MaxOperations -> Operation] /\ Placed' /\ disturbed' \in BOOLEAN
      <3>1. CASE starts(remove(m, "stepdown"))
        BY <1>a, <2>1, <3>1 DEF Step
      <3>2. CASE operations' = operations /\ disturbed' = (disturbed \/ busy(m, "stepdown"))
        BY <1>t, <1>m, <2>1, <3>2 DEF Placed
      <3> QED BY <1>12, <3>1, <3>2 DEF Stepdown
    <2>3. counts' \in [updates : 0 .. deployment.updates, failures : 0 .. deployment.failures,
                       stepdowns : 0 .. deployment.stepdowns]
      BY <1>12, <1>g DEF Stepdown
    <2> QED BY <1>12, <1>t, <1>m, <2>1, <2>2, <2>3 DEF Stepdown, ManagerTypeOK
  <1>13. ASSUME NEW m \in Mains, Receive(m) PROVE TypeInv'
    <2>1. m \in Main /\ deployment' = deployment /\ "command" \in Caller /\ "webhooks" \in Step
      BY <1>13, MainFacts DEF Receive, Caller, Step
    <2>2. inbox' \in [Main -> Seq({"add", "remove"})]
      <3>1. inbox[m] \in Seq({"add", "remove"}) /\ inbox[m] # <<>>
            /\ inbox' = [inbox EXCEPT ![m] = Tail(@)]
        BY <1>13, <1>t, <2>1 DEF Receive
      <3>2. Tail(inbox[m]) \in Seq({"add", "remove"})
        BY <3>1, HeadTailProperties
      <3> QED BY <1>t, <3>1, <3>2
    <2>3. operations' \in [1 .. MaxOperations -> Operation] /\ Placed' /\ disturbed' \in BOOLEAN
      <3>1. CASE isLeader(m)
        <4>1. starts(add(m, "command", "webhooks")) \/ starts(remove(m, "command"))
          BY <1>13, <3>1 DEF Receive
        <4> QED BY <1>a, <2>1, <4>1
      <3>2. CASE ~isLeader(m)
        <4>1. UNCHANGED <<operations, disturbed>>
          BY <1>13, <3>2 DEF Receive
        <4> QED BY <1>t, <1>m, <2>1, <4>1 DEF Placed
      <3> QED BY <3>1, <3>2
    <2> QED BY <1>13, <1>t, <1>m, <2>1, <2>2, <2>3 DEF Receive, ManagerTypeOK
  <1>14. ASSUME NEW target \in BOOLEAN, Update(target) PROVE TypeInv'
    <2>1. deployment' = deployment /\ operations' = operations
      BY <1>14 DEF Update
    <2>2. counts' \in [updates : 0 .. deployment.updates, failures : 0 .. deployment.failures,
                       stepdowns : 0 .. deployment.stepdowns]
      BY <1>14, <1>g DEF Update
    <2>3. Placed'
      BY <1>t, <1>m, <2>1 DEF Placed
    <2> QED BY <1>14, <1>t, <1>m, <2>1, <2>2, <2>3 DEF Update, history, ManagerTypeOK
  <1>15. ASSUME UpdateRemoves PROVE TypeInv'
    <2>1. deployment' = deployment /\ webhook' = FALSE /\ "update" \in Caller
      BY <1>15 DEF UpdateRemoves, Caller
    <2>2. CASE isMultiMain
      <3>1. publish("remove") /\ operations' = operations
            /\ request' = [request EXCEPT !.step = "write"]
            /\ disturbed' = (disturbed \/ busy(NoMain, "update"))
        BY <1>15, <2>2 DEF UpdateRemoves
      <3>2. Placed' /\ inbox' \in [Main -> Seq({"add", "remove"})]
        BY <1>t, <1>m, <2>1, <3>1, PublishType DEF Placed
      <3> QED BY <1>15, <1>t, <1>m, <2>1, <3>1, <3>2 DEF UpdateRemoves, ManagerTypeOK
    <2>3. CASE ~isMultiMain
      <3>1. starts(remove(FirstMain, "update")) /\ inbox' = inbox
            /\ request' = [request EXCEPT !.step = "removing"]
        BY <1>15, <2>3 DEF UpdateRemoves
      <3>2. operations' \in [1 .. MaxOperations -> Operation] /\ Placed' /\ disturbed' \in BOOLEAN
        BY <1>a, <2>1, <3>1, MainFacts DEF Step
      <3> QED BY <1>15, <1>t, <1>m, <2>1, <3>1, <3>2 DEF UpdateRemoves, ManagerTypeOK
    <2> QED BY <2>2, <2>3
  <1>16. ASSUME UpdateWrites PROVE TypeInv'
    <2>1. /\ deployment' = deployment /\ active' \in BOOLEAN /\ "update" \in Caller /\ "webhooks" \in Step
          /\ request' \in [target : BOOLEAN, step : {"none", "clear", "removing", "write", "adding"}]
      <3>1. request' = NoRequest \/ request' = [request EXCEPT !.step = "adding"]
        BY <1>16 DEF UpdateWrites
      <3>2. request' \in [target : BOOLEAN, step : {"none", "clear", "removing", "write", "adding"}]
        <4>1. CASE request' = NoRequest
          BY <4>1 DEF NoRequest
        <4>2. CASE request' = [request EXCEPT !.step = "adding"]
          BY <1>t, <4>2
        <4> QED BY <3>1, <4>1, <4>2
      <3>3. deployment' = deployment /\ active' = request.target
        BY <1>16 DEF UpdateWrites
      <3> QED BY <1>t, <3>2, <3>3 DEF Caller, Step
    <2>2. CASE UNCHANGED <<inbox, operations, disturbed>>
      BY <1>16, <1>t, <1>m, <2>1, <2>2 DEF UpdateWrites, ManagerTypeOK, Placed
    <2>3. CASE publish("add") /\ operations' = operations
               /\ disturbed' = (disturbed \/ busy(NoMain, "update"))
      <3>1. Placed' /\ inbox' \in [Main -> Seq({"add", "remove"})]
        BY <1>t, <1>m, <2>1, <2>3, PublishType DEF Placed
      <3> QED BY <1>16, <1>t, <1>m, <2>1, <2>3, <3>1 DEF UpdateWrites, ManagerTypeOK
    <2>4. CASE starts(add(FirstMain, "update", "webhooks")) /\ inbox' = inbox
      <3>1. operations' \in [1 .. MaxOperations -> Operation] /\ Placed' /\ disturbed' \in BOOLEAN
        BY <1>a, <2>1, <2>4, MainFacts
      <3> QED BY <1>16, <1>t, <1>m, <2>1, <2>4, <3>1 DEF UpdateWrites, ManagerTypeOK
    <2> QED BY <1>16, <2>2, <2>3, <2>4 DEF UpdateWrites
  <1>17. CASE UNCHANGED vars
    <2>1. Placed'
      BY <1>t, <1>m, <1>17 DEF vars, Placed
    <2> QED BY <1>t, <1>m, <1>17, <2>1 DEF vars, ManagerTypeOK
  <1> QED
    BY <1>1, <1>2, <1>3, <1>4, <1>5, <1>6, <1>7, <1>8, <1>9, <1>10, <1>11, <1>12, <1>13, <1>14,
       <1>15, <1>16, <1>17, <1>18 DEF Next, Proceed

(* The initial state has the types. *)
LEMMA InitType == Init => TypeInv
  <1> SUFFICES ASSUME Init PROVE TypeInv
    OBVIOUS
  <1>1. deployment.updates \in Nat /\ deployment.failures \in Nat /\ deployment.stepdowns \in Nat
    BY ManagerAssumption DEF Init
  <1>2. <<>> \in Seq({"add", "remove"})
    BY EmptySeq
  <1>3. Placed
    BY DEF Init, Placed
  <1>4. counts \in [updates : 0 .. deployment.updates, failures : 0 .. deployment.failures,
                    stepdowns : 0 .. deployment.stepdowns]
    BY <1>1 DEF Init
  <1>5. request \in [target : BOOLEAN, step : {"none", "clear", "removing", "write", "adding"}]
    BY DEF Init, NoRequest
  <1>6. leader \in Mains \cup {NoMain}
    BY MainFacts DEF Init, Mains
  <1>7. /\ operations \in [1 .. MaxOperations -> Operation]
        /\ inbox \in [Main -> Seq({"add", "remove"})]
        /\ entry \in [Main -> (SUBSET Trigger) \cup {NoEntry}]
        /\ running \in [Main -> SUBSET Trigger] /\ stranded \in [Main -> SUBSET Trigger]
        /\ \A m \in Main : stranded[m] \subseteq running[m]
    BY <1>2, NoOperationType DEF Init
  <1>8. /\ queued \in [Main -> {"none", "timer", "fired"}] /\ timers \in [Main -> Nat]
        /\ \A m \in Main : queued[m] = "timer" => timers[m] > 0
        /\ crons \in [Main -> Nat]
    BY DEF Init
  <1> QED BY <1>3, <1>4, <1>5, <1>6, <1>7, <1>8 DEF Init, TypeInv, ManagerTypeOK

(* The types hold in every state. *)
LEMMA TypesHold == Spec => []TypeInv
  BY InitType, TypeStep, PTL DEF Spec

(***************************************************************************)
(* Type correctness, and that removeQueuedWorkflowActivation never clears  *)
(* the timer of another activation, however operations overlap.            *)
(***************************************************************************)
THEOREM TypeCorrect == Spec => []ManagerTypeOK
  <1>1. TypeInv => ManagerTypeOK
    BY DEF TypeInv
  <1> QED BY <1>1, TypesHold, PTL

-----------------------------------------------------------------------------
(* Safety.  While operations do not overlap, the state is determined by    *)
(* the operation in progress, if any, the commands that wait and the       *)
(* update in progress; the removals in processes that have stepped down    *)
(* go on beside them.                                                      *)

(* The operation in place j is the removal in such a process; m is one. *)
Departs(j) == operations[j].caller = "stepdown"

DepartsFrom(m) == \E j \in 1 .. MaxOperations : Departs(j) /\ operations[j].main = m

(* At most one other operation is in progress: o, or none if that is       *)
(* NoOperation.                                                            *)
Alone(o) ==
    /\ o \in Operation
    /\ o.caller # "stepdown"
    /\ o.does = "none" => o = NoOperation
    /\ \/ /\ o = NoOperation
          /\ \A j \in 1 .. MaxOperations : operations[j] = NoOperation \/ Departs(j)
       \/ \E k \in 1 .. MaxOperations :
             /\ operations[k] = o
             /\ \A j \in (1 .. MaxOperations) \ {k} : operations[j] = NoOperation \/ Departs(j)

(* The triggers of a process that are not left over from a failure. *)
Live(m) == running[m] \ stranded[m]

(* Nothing of the workflow runs in process m, or all of it, once. *)
Stopped(m) == Live(m) = {} /\ crons[m] = 0

Runs(m, t, jobs) == Live(m) = {t} /\ entry[m] = {t} /\ crons[m] = jobs

Served(m) == \E t \in Trigger : Runs(m, t, 1)

(* Where nothing is in progress, only the leader serves the workflow. *)
Steady(o) ==
    \A m \in Main : o.main # m /\ ~DepartsFrom(m) => Stopped(m) \/ (isLeader(m) /\ Served(m))

(* How far an operation has got. *)
AddInv(o) ==
    /\ o.step \in {"list", "load", "webhooks", "trigger", "poll"}
    /\ o.step \in {"list", "load"} => o.caller \in {"init", "leadershipChange"}
    /\ o.step = "webhooks" => o.triggers = isLeader(o.main)
    /\ o.step \in {"trigger", "poll"} => isLeader(o.main)
    /\ IF o.step = "poll" THEN \E t \in Trigger : Runs(o.main, t, 0) /\ o.captured = {t}
                          ELSE Stopped(o.main)

RemoveInv(o) ==
    \/ o.step = "check" /\ (Stopped(o.main) \/ Served(o.main))
    \/ o.step = "close" /\ Live(o.main) \subseteq o.captured /\ crons[o.main] = 0

(* For whom it is. *)
CallerInv(o) ==
    /\ o.main \in initialized
    /\ o.caller # "init" => initialized = Mains
    /\ o.caller = "command" => isMultiMain
    /\ o.caller = "retry" => queued[o.main] # "timer"
    /\ o.caller = "update" =>
          /\ ~isMultiMain
          /\ request.step = IF o.does = "add" THEN "adding" ELSE "removing"
          /\ o.step = "close" => queued[o.main] = "none"
    /\ o.caller \notin {"command", "update"} =>
          /\ \A m \in Main : inbox[m] = <<>>
          /\ request.step = "write" => ~active

OperationInv(o) ==
    \/ o.does = "none"
    \/ o.does = "add" /\ AddInv(o) /\ CallerInv(o)
    \/ o.does = "remove" /\ RemoveInv(o) /\ CallerInv(o)

(* The removals in processes that have stepped down, one in each: none of  *)
(* them leads again before its removal has ended.                          *)
DepartInv(o) ==
    \A j \in 1 .. MaxOperations : Departs(j) =>
        /\ isMultiMain /\ initialized = Mains
        /\ operations[j].does = "remove" /\ RemoveInv(operations[j])
        /\ operations[j].main # o.main /\ operations[j].main # leader
        /\ \A i \in (1 .. MaxOperations) \ {j} :
              Departs(i) => operations[i].main # operations[j].main

(* The leader will serve the workflow when it has done what is in progress *)
(* and what it was sent.                                                   *)
WillServe(o) ==
    /\ leader # NoMain
    /\ IF inbox[leader] # <<>> THEN inbox[leader][Len(inbox[leader])] = "add"
       ELSE IF o.main = leader THEN o.does = "add" /\ o.step \notin {"list", "load"}
       ELSE Served(leader)

(* It will do so only if the workflow is active, and not being changed. *)
ServedIsActive(o) == WillServe(o) => active /\ request.step # "write"

(* An add reaches a leader that is, or will be, stopped. *)
AddFollowsRemove(o) ==
    leader # NoMain =>
        \A i \in 1 .. Len(inbox[leader]) : inbox[leader][i] = "add" =>
            IF i > 1 THEN inbox[leader][i - 1] = "remove"
            ELSE IF o.main = leader THEN o.does = "remove"
            ELSE Stopped(leader)

(* A retry is queued, once, for a workflow that is active and not served. *)
QueueInv(o) ==
    \A m \in Mains :
        /\ timers[m] = IF queued[m] = "timer" THEN 1 ELSE 0
        /\ isMultiMain => queued[m] = "none"
        /\ queued[m] # "none" =>
              /\ active /\ request.step \notin {"write", "adding"}
              /\ o.main # m => Stopped(m)

(* Commands and updates that wait. *)
CommandInv(o) ==
    /\ ~isMultiMain => leader = FirstMain
    /\ ~isMultiMain \/ initialized # Mains => \A m \in Main : inbox[m] = <<>>
    /\ request.step \in {"removing", "adding"} => o.caller = "update"

OrderInv(o) ==
    /\ Alone(o) /\ OperationInv(o) /\ DepartInv(o) /\ Steady(o) /\ QueueInv(o) /\ CommandInv(o)
    /\ ServedIsActive(o) /\ AddFollowsRemove(o)
    /\ \A m \in Main \ initialized : Stopped(m)

-----------------------------------------------------------------------------
(* Lemmas about the invariant *)

(* No operation has no process. *)
LEMMA PlaceIsNothing == \A m \in Mains : m \in Main /\ m # NoMain /\ NoOperation.main # m
  BY MainFacts DEF NoOperation

(* A process is in one condition at a time. *)
LEMMA Conditions ==
    ASSUME NEW m
    PROVE  /\ Stopped(m) => ~Served(m)
           /\ Served(m) => entry[m] # NoEntry
  <1>1. \A t \in Trigger : {t} # NoEntry /\ {t} # {}
    BY ManagerAssumption DEF Trigger
  <1> QED BY <1>1 DEF Stopped, Served, Runs

(* The same in the next state. *)
LEMMA StoppedIsNotServed == \A m : Stopped(m)' => ~Served(m)'
  BY DEF Stopped, Served, Runs

(* Triggers and pollers of the other processes that are left as they are. *)
LEMMA SameElsewhere ==
    ASSUME NEW m, \A x \in Main \ {m} : /\ running'[x] = running[x] /\ stranded'[x] = stranded[x]
                                        /\ entry'[x] = entry[x] /\ crons'[x] = crons[x]
    PROVE  /\ \A x \in Main \ {m} : /\ Stopped(x)' = Stopped(x) /\ Served(x)' = Served(x)
                                    /\ \A t, j : Runs(x, t, j)' = Runs(x, t, j)
           /\ \A y : y.main \in Main \ {m} => (RemoveInv(y)' <=> RemoveInv(y))
  <1>1. \A x \in Main \ {m} : /\ Stopped(x)' = Stopped(x) /\ Served(x)' = Served(x)
                              /\ \A t, j : Runs(x, t, j)' = Runs(x, t, j)
    BY DEF Stopped, Served, Runs, Live
  <1>2. \A y : y.main \in Main \ {m} => (RemoveInv(y)' <=> RemoveInv(y))
    BY <1>1 DEF RemoveInv, Live
  <1> QED BY <1>1, <1>2

(* The same for all processes. *)
LEMMA SameTriggers ==
    ASSUME UNCHANGED <<running, stranded, entry, crons>>
    PROVE  /\ \A m : /\ Stopped(m)' = Stopped(m) /\ Served(m)' = Served(m)
                     /\ \A t, j : Runs(m, t, j)' = Runs(m, t, j)
           /\ \A y : RemoveInv(y)' <=> RemoveInv(y)
  <1>1. \A m : /\ Stopped(m)' = Stopped(m) /\ Served(m)' = Served(m)
               /\ \A t, j : Runs(m, t, j)' = Runs(m, t, j)
    BY DEF Stopped, Served, Runs, Live
  <1>2. \A y : RemoveInv(y)' <=> RemoveInv(y)
    BY <1>1 DEF RemoveInv, Live
  <1> QED BY <1>1, <1>2

(* A removal that departs is one of a process. *)
LEMMA DepartingType ==
    ASSUME TypeInv, NEW j \in 1 .. MaxOperations, Departs(j)
    PROVE  /\ operations[j] \in Operation /\ operations[j] # NoOperation
           /\ operations[j].main \in Mains /\ operations[j].main \in Main
           /\ operations[j].main # NoMain /\ operations[j].does # "none"
  <1>1. operations[j] # NoOperation
    BY NoOperationType DEF Departs
  <1> QED BY <1>1, MainFacts DEF TypeInv, ManagerTypeOK, Placed

(* Those removals go on as they are. *)
SameDepartures ==
    \A j \in 1 .. MaxOperations : /\ Departs(j)' <=> Departs(j)
                                  /\ Departs(j) => operations'[j] = operations[j]

(* They keep what is known of them. *)
LEMMA DeparturesStay ==
    ASSUME TypeInv, NEW o, DepartInv(o), SameDepartures, NEW n, NEW m,
           n.main \in {o.main, NoMain} \/ ~DepartsFrom(n.main),
           leader' \in {leader, NoMain} \/ ~DepartsFrom(leader'),
           deployment' = deployment, initialized' = initialized \/ initialized # Mains,
           \A x \in Main \ {m} : /\ running'[x] = running[x] /\ stranded'[x] = stranded[x]
                                 /\ entry'[x] = entry[x] /\ crons'[x] = crons[x],
           ~DepartsFrom(m)
    PROVE  DepartInv(n)' /\ \A x : DepartsFrom(x)' <=> DepartsFrom(x)
  <1>1. \A x : DepartsFrom(x)' <=> DepartsFrom(x)
    BY DEF SameDepartures, DepartsFrom
  <1>2. ASSUME NEW j \in 1 .. MaxOperations, Departs(j)'
        PROVE  /\ isMultiMain' /\ initialized' = Mains'
               /\ operations'[j].does = "remove" /\ RemoveInv(operations[j])'
               /\ operations'[j].main # n.main /\ operations'[j].main # leader'
               /\ \A i \in (1 .. MaxOperations) \ {j} :
                     Departs(i)' => operations'[i].main # operations'[j].main
    <2>1. Departs(j) /\ operations'[j] = operations[j]
      BY <1>2 DEF SameDepartures
    <2>2. operations[j].main \in Main /\ operations[j].main # NoMain /\ DepartsFrom(operations[j].main)
      BY <2>1, DepartingType DEF DepartsFrom
    <2>3. operations[j].main # m
      BY <2>2
    <2>4. PICK d : d = operations[j]
      OBVIOUS
    <2>5. d.main \in Main \ {m} => (RemoveInv(d)' <=> RemoveInv(d))
      BY SameElsewhere
    <2>6. RemoveInv(d)' /\ operations'[j] = d
      BY <2>1, <2>2, <2>3, <2>4, <2>5 DEF DepartInv
    <2>7. RemoveInv(operations[j])'
      BY <2>6 DEF RemoveInv
    <2>8. Mains' = Mains /\ isMultiMain' = isMultiMain /\ initialized' = initialized
      BY <2>1 DEF Mains, isMultiMain, DepartInv
    <2>9. operations[j].main # n.main /\ operations[j].main # leader'
      BY <2>1, <2>2 DEF DepartInv
    <2>10. \A i \in (1 .. MaxOperations) \ {j} :
              Departs(i)' => operations'[i].main # operations'[j].main
      BY <2>1 DEF DepartInv, SameDepartures
    <2> QED BY <2>1, <2>7, <2>8, <2>9, <2>10 DEF DepartInv
  <1>3. DepartInv(n)'
    BY <1>2 DEF DepartInv
  <1> QED BY <1>1, <1>3

(* The same when all triggers stay as they are. *)
LEMMA DeparturesStayIdle ==
    ASSUME TypeInv, NEW o, DepartInv(o), SameDepartures, NEW n,
           n.main \in {o.main, NoMain} \/ ~DepartsFrom(n.main),
           leader' \in {leader, NoMain} \/ ~DepartsFrom(leader'),
           deployment' = deployment, initialized' = initialized \/ initialized # Mains,
           UNCHANGED <<running, stranded, entry, crons>>
    PROVE  DepartInv(n)' /\ \A x : DepartsFrom(x)' <=> DepartsFrom(x)
  <1>1. ~DepartsFrom(NoMain)
    BY DepartingType DEF DepartsFrom
  <1> QED BY <1>1, DeparturesStay

(* An operation that is in progress is the only one that does not depart. *)
LEMMA TheOperation ==
    ASSUME TypeInv, NEW o, Alone(o), NEW k \in 1 .. MaxOperations, operations[k].step # "none",
           ~Departs(k)
    PROVE  /\ operations[k] = o /\ o.does # "none" /\ o.main \in Mains /\ o.main \in Main
           /\ o.main # NoMain
           /\ \A j \in (1 .. MaxOperations) \ {k} : operations[j] = NoOperation \/ Departs(j)
  <1>1. operations[k] # NoOperation
    BY NoOperationType
  <1>2. /\ operations[k] = o
        /\ \A j \in (1 .. MaxOperations) \ {k} : operations[j] = NoOperation \/ Departs(j)
    BY <1>1 DEF Alone
  <1>3. o.main \in Mains /\ o.main \in Main /\ o.does # "none"
    BY <1>2, InProgressType
  <1> QED BY <1>2, <1>3, MainFacts

(* It goes on as n. *)
LEMMA AloneGoes ==
    ASSUME TypeInv, NEW o, Alone(o), NEW k \in 1 .. MaxOperations, operations[k].step # "none",
           ~Departs(k), NEW n \in Operation, n.does = "none" => n = NoOperation, n.caller # "stepdown",
           operations' = [operations EXCEPT ![k] = n]
    PROVE  Alone(n)' /\ SameDepartures
  <1>1. \A j \in (1 .. MaxOperations) \ {k} : operations[j] = NoOperation \/ Departs(j)
    BY TheOperation
  <1>2. operations \in [1 .. MaxOperations -> Operation]
    BY DEF TypeInv, ManagerTypeOK
  <1>3. operations'[k] = n /\ \A j \in (1 .. MaxOperations) \ {k} : operations'[j] = operations[j]
    BY <1>2
  <1>4. SameDepartures
    BY <1>3 DEF SameDepartures, Departs
  <1>5. \A j \in (1 .. MaxOperations) \ {k} : operations'[j] = NoOperation \/ Departs(j)'
    BY <1>1, <1>3, <1>4 DEF SameDepartures
  <1> QED BY <1>3, <1>4, <1>5 DEF Alone

(* It ends. *)
LEMMA AloneEnds ==
    ASSUME TypeInv, NEW o, Alone(o), NEW k \in 1 .. MaxOperations, operations[k].step # "none",
           ~Departs(k), operations' = [operations EXCEPT ![k] = NoOperation]
    PROVE  Alone(NoOperation)' /\ SameDepartures
  <1>1. \A n : n = NoOperation => Alone(n)' /\ SameDepartures
    BY AloneGoes, NoOperationType
  <1> QED BY <1>1 DEF NoOperation

(* An operation starts when no other is in progress, nor anything else to  *)
(* which it does not belong.                                               *)
LEMMA NotBusy ==
    ASSUME TypeInv, NEW o, Alone(o), CommandInv(o), NEW main, NEW caller, ~busy(main, caller)
    PROVE  /\ o = NoOperation
           /\ ~DepartsFrom(main)
           /\ caller = "init" \/ initialized = Mains
           /\ caller \notin {"command", "update"} =>
                 request = NoRequest /\ \A m \in Main : inbox[m] = <<>>
  <1>1. \A j \in 1 .. MaxOperations : operations[j].does = "none" \/
            (operations[j].main # main /\ operations[j].caller = "stepdown")
    BY DEF busy, idle
  <1>2. o = NoOperation
    BY <1>1 DEF Alone
  <1>3. (\A m \in Mains : inbox[m] = <<>>) => \A m \in Main : inbox[m] = <<>>
    BY DEF CommandInv, Mains
  <1>4. ~DepartsFrom(main)
    BY <1>1, DepartingType DEF DepartsFrom
  <1> QED BY <1>2, <1>3, <1>4 DEF busy

(* An operation that starts is the only one. *)
LEMMA AloneStarts ==
    ASSUME TypeInv, NEW o, Alone(o), CommandInv(o), NEW n \in Operation, n.does # "none",
           n.caller # "stepdown", starts(n), ~disturbed'
    PROVE  Alone(n)' /\ ~busy(n.main, n.caller) /\ SameDepartures
  <1>1. ~busy(n.main, n.caller)
    BY DEF starts
  <1>2. o = NoOperation
    BY <1>1, NotBusy
  <1>3. \A j \in 1 .. MaxOperations : operations[j] = NoOperation \/ Departs(j)
    BY <1>2 DEF Alone
  <1>4. PICK i \in 1 .. MaxOperations : /\ operations[i].does = "none"
                                        /\ operations' = [operations EXCEPT ![i] = n]
    BY StartPlace DEF idle
  <1>5. operations \in [1 .. MaxOperations -> Operation] /\ ~Departs(i)
    BY <1>4, DepartingType DEF TypeInv, ManagerTypeOK
  <1>6. operations'[i] = n /\ \A j \in (1 .. MaxOperations) \ {i} : operations'[j] = operations[j]
    BY <1>4, <1>5
  <1>7. SameDepartures
    BY <1>5, <1>6 DEF SameDepartures, Departs
  <1>8. \A j \in (1 .. MaxOperations) \ {i} : operations'[j] = NoOperation \/ Departs(j)'
    BY <1>3, <1>6, <1>7 DEF SameDepartures
  <1> QED BY <1>1, <1>6, <1>7, <1>8 DEF Alone

(* Operations that are left as they are. *)
LEMMA AloneStays ==
    ASSUME NEW o, Alone(o), operations' = operations
    PROVE  Alone(o)' /\ SameDepartures
  BY DEF Alone, SameDepartures, Departs

(* What is disturbed or revived stays so, and failures are counted. *)
LEMMA OrderlyBefore ==
    ASSUME TypeInv, [Next]_vars, Orderly'
    PROVE  Orderly
  <1>1. disturbed => disturbed'
    BY DEF Next, Proceed, Load, AddWebhooks, RunTrigger, ActivatePolling, AddFails, CloseFails,
           RetryFires, RemoveBegins, RemoveEnds, EmitError, InitManager, Takeover, Stepdown, Receive,
           Update, UpdateRemoves, UpdateWrites, starts, history, vars
  <1>r. revived => revived'
    BY DEF Next, Proceed, Load, AddWebhooks, RunTrigger, ActivatePolling, AddFails, CloseFails,
           RetryFires, RemoveBegins, RemoveEnds, EmitError, InitManager, Takeover, Stepdown, Receive,
           Update, UpdateRemoves, UpdateWrites, history, vars
  <1>2. deployment' = deployment
    BY DEF Next, Proceed, Load, AddWebhooks, RunTrigger, ActivatePolling, AddFails, CloseFails,
           RetryFires, RemoveBegins, RemoveEnds, EmitError, InitManager, Takeover, Stepdown, Receive,
           Update, UpdateRemoves, UpdateWrites, vars
  <1>3. /\ counts \in [updates : 0 .. deployment.updates, failures : 0 .. deployment.failures,
                       stepdowns : 0 .. deployment.stepdowns]
        /\ deployment.failures \in Nat
    BY ManagerAssumption DEF TypeInv, ManagerTypeOK
  <1>4. \/ counts'.failures = counts.failures
        \/ counts' = [counts EXCEPT !.failures = @ + 1]
    BY <1>3 DEF Next, Proceed, Load, AddWebhooks, RunTrigger, ActivatePolling, AddFails, CloseFails,
           RetryFires, RemoveBegins, RemoveEnds, EmitError, InitManager, Takeover, Stepdown, Receive,
           Update, UpdateRemoves, UpdateWrites, vars
  <1>5. counts'.failures = 0 => counts.failures = 0
    BY <1>3, <1>4
  <1> QED BY <1>1, <1>r, <1>2, <1>5 DEF Orderly, isMultiMain

-----------------------------------------------------------------------------
(* Each action keeps the invariant: add *)

(* What holds of the operation in place k. *)
LEMMA AddsInPlace ==
    ASSUME TypeInv, NEW o, OrderInv(o), NEW k \in 1 .. MaxOperations,
           operations[k].step \in {"list", "load", "webhooks", "trigger", "poll"}
    PROVE  /\ operations[k] = o /\ o.does = "add" /\ AddInv(o) /\ CallerInv(o) /\ ~Departs(k)
           /\ o \in Operation /\ o.main \in Main /\ o.main \in Mains /\ o.main # NoMain
           /\ o.caller # "stepdown" /\ ~DepartsFrom(o.main)
  <1>1. ~Departs(k)
    BY DEF OrderInv, DepartInv, RemoveInv
  <1>2. /\ operations[k] = o /\ o.does # "none" /\ o.main \in Main /\ o.main \in Mains
        /\ o.main # NoMain
    BY <1>1, TheOperation DEF OrderInv
  <1>3. ~RemoveInv(o)
    BY <1>2 DEF RemoveInv
  <1>4. ~DepartsFrom(o.main)
    BY DEF OrderInv, DepartInv, DepartsFrom
  <1> QED BY <1>1, <1>2, <1>3, <1>4 DEF OrderInv, OperationInv, Alone

(* The same, for a removal. *)
LEMMA RemovesInPlace ==
    ASSUME TypeInv, NEW o, OrderInv(o), NEW k \in 1 .. MaxOperations,
           operations[k].step \in {"check", "close"}, ~Departs(k)
    PROVE  /\ operations[k] = o /\ o.does = "remove" /\ RemoveInv(o) /\ CallerInv(o)
           /\ o \in Operation /\ o.main \in Main /\ o.main \in Mains /\ o.main # NoMain
           /\ o.caller # "stepdown" /\ ~DepartsFrom(o.main)
  <1>1. /\ operations[k] = o /\ o.does # "none" /\ o.main \in Main /\ o.main \in Mains
        /\ o.main # NoMain
    BY TheOperation DEF OrderInv
  <1>2. ~AddInv(o)
    BY <1>1 DEF AddInv
  <1>3. ~DepartsFrom(o.main)
    BY DEF OrderInv, DepartInv, DepartsFrom
  <1> QED BY <1>1, <1>2, <1>3 DEF OrderInv, OperationInv, Alone

(* An operation ends that leaves its process stopped. *)
LEMMA EndsStopped ==
    ASSUME TypeInv, NEW o, OrderInv(o), NEW k \in 1 .. MaxOperations, operations[k].step # "none",
           ~Departs(k), ends(k), o.caller \notin {"command", "update"}, Stopped(o.main),
           UNCHANGED <<deployment, leader, initialized, active, running, stranded, crons, entry,
                       queued, timers, inbox>>
    PROVE  OrderInv(NoOperation)'
  <1>1. /\ operations[k] = o /\ o.does # "none" /\ o.main \in Main /\ o.main \in Mains
        /\ o.main # NoMain
    BY TheOperation DEF OrderInv
  <1>2. Alone(NoOperation)' /\ SameDepartures
    BY AloneEnds DEF OrderInv, ends
  <1>3. \A m : Stopped(m)' = Stopped(m) /\ Served(m)' = Served(m)
    BY SameTriggers
  <1>4. request' = request
    BY <1>1 DEF ends
  <1>n. NoOperation.does = "none" /\ NoOperation.main = NoMain /\ NoOperation.caller = "none"
    BY NoOperationType
  <1>m. Mains' = Mains /\ isMultiMain' = isMultiMain /\ \A m : isLeader(m)' = isLeader(m)
    BY DEF Mains, isMultiMain, isLeader
  <1>d. DepartInv(NoOperation)' /\ \A m : DepartsFrom(m)' <=> DepartsFrom(m)
    <2>1. PICK n : n = NoOperation
      OBVIOUS
    <2>2. DepartInv(n)' /\ \A m : DepartsFrom(m)' <=> DepartsFrom(m)
      BY <1>2, <1>n, <2>1, DeparturesStayIdle DEF OrderInv
    <2> QED BY <1>n, <2>1, <2>2 DEF DepartInv
  <1>5. Steady(NoOperation)'
    BY <1>1, <1>3, <1>d, <1>m, <1>n DEF Steady, OrderInv
  <1>6. QueueInv(NoOperation)'
    BY <1>1, <1>3, <1>4, <1>m, <1>n DEF QueueInv, OrderInv
  <1>7. CommandInv(NoOperation)'
    BY <1>1, <1>4, <1>m, <1>n DEF CommandInv, OrderInv
  <1>8. ServedIsActive(NoOperation)'
    BY <1>1, <1>3, <1>4, <1>n, Conditions DEF ServedIsActive, WillServe, OrderInv
  <1>9. AddFollowsRemove(NoOperation)'
    BY <1>1, <1>3, <1>n DEF AddFollowsRemove, OrderInv
  <1>10. OperationInv(NoOperation)' /\ \A m \in Main \ initialized' : Stopped(m)'
    BY <1>3, <1>n DEF OperationInv, OrderInv
  <1> QED BY <1>2, <1>5, <1>6, <1>7, <1>8, <1>9, <1>10, <1>d DEF OrderInv

(* addActiveWorkflows lists the workflow, or reads it again. *)
LEMMA LoadKeepsOrder ==
    ASSUME TypeInv, TypeInv', NEW o, OrderInv(o), NEW k \in 1 .. MaxOperations, Load(k)
    PROVE  \E n : OrderInv(n)'
  <1>1. /\ operations[k] = o /\ o.does = "add" /\ AddInv(o) /\ CallerInv(o)
        /\ o \in Operation /\ o.main \in Main /\ o.main \in Mains /\ o.main # NoMain
        /\ o.step \in {"list", "load"} /\ operations[k].step # "none" /\ ~Departs(k)
        /\ o.caller # "stepdown"
    BY AddsInPlace DEF Load
  <1>2. /\ o.caller \in {"init", "leadershipChange"} /\ Stopped(o.main)
        /\ \A m \in Main : inbox[m] = <<>>
    BY <1>1 DEF AddInv, CallerInv
  <1>3. UNCHANGED <<deployment, leader, initialized, active, webhook, running, crons, entry, queued,
                    timers, inbox, counts, stranded>>
    BY DEF Load, history
  <1>4. \A m : Stopped(m)' = Stopped(m) /\ Served(m)' = Served(m)
    BY <1>3, SameTriggers
  <1>m. Mains' = Mains /\ isMultiMain' = isMultiMain /\ \A m : isLeader(m)' = isLeader(m)
    BY <1>3 DEF Mains, isMultiMain, isLeader
  <1>5. CASE ~active
    <2>1. ends(k)
      BY <1>5 DEF Load
    <2>2. OrderInv(NoOperation)'
      BY <1>1, <1>2, <1>3, <2>1, EndsStopped
    <2>3. \A n : n = NoOperation => OrderInv(n)'
      BY <2>2 DEF NoOperation
    <2> QED BY <2>3
  <1>6. CASE active
    <2>1. PICK n : /\ n = IF o.step = "list" THEN [o EXCEPT !.step = "load"]
                          ELSE add(o.main, o.caller, "webhooks")
                   /\ operations' = [operations EXCEPT ![k] = n]
      BY <1>1, <1>6 DEF Load
    <2>2. request' = request
      BY <1>6 DEF Load
    <2>3. /\ n \in Operation /\ n.main = o.main /\ n.does = "add" /\ n.caller = o.caller
          /\ n.step = "load" \/ (n.step = "webhooks" /\ n.triggers = isLeader(n.main))
      <3>1. o.caller \in Caller /\ "webhooks" \in Step /\ "load" \in Step
        BY <1>1, OperationFields DEF Step
      <3> QED BY <1>1, <2>1, <3>1, NextStep, AddType
    <2>4. Alone(n)' /\ SameDepartures
      BY <1>1, <2>1, <2>3, AloneGoes DEF OrderInv
    <2>d. DepartInv(n)' /\ \A m : DepartsFrom(m)' <=> DepartsFrom(m)
      BY <1>3, <2>3, <2>4, DeparturesStayIdle DEF OrderInv
    <2>5. OperationInv(n)'
      <3>1. AddInv(n)'
        BY <1>1, <1>2, <1>4, <1>m, <2>3 DEF AddInv
      <3>2. CallerInv(n)'
        BY <1>1, <1>2, <1>3, <1>m, <2>2, <2>3 DEF CallerInv
      <3> QED BY <2>3, <3>1, <3>2 DEF OperationInv
    <2>6. Steady(n)'
      BY <1>4, <1>m, <2>3, <2>d DEF Steady, OrderInv
    <2>7. QueueInv(n)'
      BY <1>3, <1>4, <1>m, <2>2, <2>3 DEF QueueInv, OrderInv
    <2>8. CommandInv(n)'
      BY <1>3, <1>m, <2>2, <2>3 DEF CommandInv, OrderInv
    <2>9. ServedIsActive(n)'
      <3>1. request.step # "write"
        BY <1>1, <1>2, <1>6 DEF CallerInv
      <3> QED BY <1>3, <1>6, <2>2, <3>1 DEF ServedIsActive
    <2>10. AddFollowsRemove(n)'
      BY <1>1, <1>3, <1>4, <2>3 DEF AddFollowsRemove, OrderInv
    <2>11. \A m \in Main \ initialized' : Stopped(m)'
      BY <1>3, <1>4 DEF OrderInv
    <2> QED BY <2>4, <2>5, <2>6, <2>7, <2>8, <2>9, <2>10, <2>11, <2>d DEF OrderInv
  <1> QED BY <1>5, <1>6

(* The webhooks are added, with or without triggers to follow. *)
LEMMA AddWebhooksKeepsOrder ==
    ASSUME TypeInv, TypeInv', NEW o, OrderInv(o), NEW k \in 1 .. MaxOperations, AddWebhooks(k)
    PROVE  \E n : OrderInv(n)'
  <1>1. /\ operations[k] = o /\ o.does = "add" /\ AddInv(o) /\ CallerInv(o)
        /\ o \in Operation /\ o.main \in Main /\ o.main \in Mains /\ o.main # NoMain
        /\ o.step = "webhooks" /\ operations[k].step # "none" /\ ~Departs(k)
        /\ o.caller # "stepdown"
    BY AddsInPlace DEF AddWebhooks
  <1>2. Stopped(o.main) /\ o.triggers = isLeader(o.main)
    BY <1>1 DEF AddInv
  <1>3. UNCHANGED <<deployment, leader, initialized, active, running, crons, entry, inbox, stranded>>
    BY DEF AddWebhooks, history
  <1>4. \A m : Stopped(m)' = Stopped(m) /\ Served(m)' = Served(m)
    BY <1>3, SameTriggers
  <1>m. Mains' = Mains /\ isMultiMain' = isMultiMain /\ \A m : isLeader(m)' = isLeader(m)
    BY <1>3 DEF Mains, isMultiMain, isLeader
  <1>5. CASE ~o.triggers
    <2>1. removeQueued(o.main) /\ ends(k)
      BY <1>1, <1>5 DEF AddWebhooks, completes
    <2>2. leader # o.main
      BY <1>2, <1>5 DEF isLeader
    <2>3. isMultiMain
      BY <1>1, <2>2 DEF OrderInv, CommandInv, Mains
    <2>4. queued[o.main] = "none" /\ request' = request
      BY <1>1, <2>1, <2>3 DEF OrderInv, QueueInv, CallerInv, ends
    <2>5. queued' = queued /\ timers' = timers
      BY <1>1, <2>1, <2>4 DEF removeQueued, TypeInv, ManagerTypeOK
    <2>n. NoOperation.does = "none" /\ NoOperation.main = NoMain /\ NoOperation.caller = "none"
      BY NoOperationType
    <2>6. Alone(NoOperation)' /\ SameDepartures
      BY <1>1, <2>1, AloneEnds DEF OrderInv, ends
    <2>d. \A n : n = NoOperation => DepartInv(n)' /\ \A m : DepartsFrom(m)' <=> DepartsFrom(m)
      BY <1>3, <2>6, <2>n, DeparturesStayIdle DEF OrderInv
    <2>7. Steady(NoOperation)'
      BY <1>1, <1>2, <1>4, <1>m, <2>n, <2>d DEF Steady, OrderInv
    <2>8. QueueInv(NoOperation)'
      BY <1>1, <1>2, <1>3, <1>4, <1>m, <2>4, <2>5, <2>n DEF QueueInv, OrderInv
    <2>9. CommandInv(NoOperation)'
      BY <1>1, <1>3, <1>m, <2>3, <2>4, <2>n DEF CommandInv, CallerInv, OrderInv
    <2>10. ServedIsActive(NoOperation)'
      BY <1>1, <1>3, <1>4, <2>2, <2>4, <2>n DEF ServedIsActive, WillServe, OrderInv
    <2>11. AddFollowsRemove(NoOperation)'
      BY <1>1, <1>3, <1>4, <2>2, <2>n DEF AddFollowsRemove, OrderInv
    <2>12. OperationInv(NoOperation)' /\ \A m \in Main \ initialized' : Stopped(m)'
      BY <1>3, <1>4, <2>n DEF OperationInv, OrderInv
    <2>13. \A n : n = NoOperation => OrderInv(n)'
      BY <2>d, <2>6, <2>7, <2>8, <2>9, <2>10, <2>11, <2>12 DEF OrderInv, NoOperation
    <2> QED BY <2>13
  <1>6. CASE o.triggers
    <2>1. PICK n : n = [o EXCEPT !.step = "trigger"] /\ operations' = [operations EXCEPT ![k] = n]
      <3>1. goesTo(k, "trigger")
        BY <1>1, <1>6 DEF AddWebhooks
      <3> QED BY <1>1, <3>1 DEF goesTo, TypeInv, ManagerTypeOK
    <2>2. UNCHANGED <<queued, timers, request>>
      BY <1>1, <1>6 DEF AddWebhooks
    <2>3. /\ n \in Operation /\ n.main = o.main /\ n.does = "add" /\ n.caller = o.caller
          /\ n.step = "trigger"
      BY <1>1, <2>1, NextStep DEF Step
    <2>4. Alone(n)' /\ SameDepartures
      BY <1>1, <2>1, <2>3, AloneGoes DEF OrderInv
    <2>d. DepartInv(n)' /\ \A m : DepartsFrom(m)' <=> DepartsFrom(m)
      BY <1>3, <2>3, <2>4, DeparturesStayIdle DEF OrderInv
    <2>5. OperationInv(n)'
      <3>1. AddInv(n)'
        BY <1>1, <1>2, <1>4, <1>6, <1>m, <2>3 DEF AddInv
      <3>2. CallerInv(n)'
        BY <1>1, <1>2, <1>3, <1>m, <2>2, <2>3 DEF CallerInv
      <3> QED BY <2>3, <3>1, <3>2 DEF OperationInv
    <2>6. Steady(n)'
      BY <1>4, <1>m, <2>3, <2>d DEF Steady, OrderInv
    <2>7. QueueInv(n)'
      BY <1>3, <1>4, <1>m, <2>2, <2>3 DEF QueueInv, OrderInv
    <2>8. CommandInv(n)'
      BY <1>3, <1>m, <2>2, <2>3 DEF CommandInv, OrderInv
    <2>9. ServedIsActive(n)'
      BY <1>1, <1>3, <1>4, <2>2, <2>3 DEF ServedIsActive, WillServe, OrderInv
    <2>10. AddFollowsRemove(n)'
      BY <1>1, <1>3, <1>4, <2>3 DEF AddFollowsRemove, OrderInv
    <2>11. \A m \in Main \ initialized' : Stopped(m)'
      BY <1>3, <1>4 DEF OrderInv
    <2> QED BY <2>4, <2>5, <2>6, <2>7, <2>8, <2>9, <2>10, <2>11, <2>d DEF OrderInv
  <1> QED BY <1>5, <1>6

(* The trigger runs in the leader, which was stopped. *)
LEMMA RunTriggerKeepsOrder ==
    ASSUME TypeInv, TypeInv', NEW o, OrderInv(o), NEW k \in 1 .. MaxOperations, RunTrigger(k)
    PROVE  \E n : OrderInv(n)'
  <1> DEFINE m == o.main
  <1>1. /\ operations[k] = o /\ o.does = "add" /\ AddInv(o) /\ CallerInv(o)
        /\ o \in Operation /\ m \in Main /\ m \in Mains /\ m # NoMain
        /\ o.step = "trigger" /\ operations[k].step # "none" /\ ~Departs(k)
        /\ o.caller # "stepdown" /\ ~DepartsFrom(m)
    BY AddsInPlace DEF RunTrigger
  <1>2. Stopped(m) /\ isLeader(m)
    BY <1>1 DEF AddInv
  <1>3. UNCHANGED <<deployment, leader, initialized, active, crons, queued, timers, inbox, request,
                    stranded>>
    BY DEF RunTrigger, history
  <1>4. PICK t \in Trigger :
           /\ t \notin running[m]
           /\ running' = [running EXCEPT ![m] = @ \cup {t}]
           /\ entry' = [entry EXCEPT ![m] = {t}]
           /\ operations' = [operations EXCEPT ![k].step = "poll", ![k].captured = {t}]
    <2>1. freshTriggers(m) # {} /\ freshTriggers(m) \subseteq Trigger /\ Trigger \subseteq Nat
      BY <1>1 DEF RunTrigger, freshTriggers, Trigger
    <2>2. Min(freshTriggers(m)) \in freshTriggers(m)
      BY <2>1, LeastIsMember
    <2>3. Min(freshTriggers(m)) \in Trigger /\ Min(freshTriggers(m)) \notin running[m]
      BY <2>2 DEF freshTriggers
    <2> QED BY <1>1, <2>3 DEF RunTrigger
  <1>t. /\ running \in [Main -> SUBSET Trigger] /\ entry \in [Main -> (SUBSET Trigger) \cup {NoEntry}]
        /\ stranded[m] \subseteq running[m] /\ operations \in [1 .. MaxOperations -> Operation]
    BY <1>1 DEF TypeInv, ManagerTypeOK
  <1>5. \A x \in Main \ {m} : Stopped(x)' = Stopped(x) /\ Served(x)' = Served(x)
    BY <1>3, <1>4, <1>t, SameElsewhere
  <1>6. Runs(m, t, 0)'
    BY <1>1, <1>2, <1>3, <1>4, <1>t DEF Stopped, Runs, Live
  <1>m. Mains' = Mains /\ isMultiMain' = isMultiMain /\ \A x : isLeader(x)' = isLeader(x)
    BY <1>3 DEF Mains, isMultiMain, isLeader
  <1>7. PICK n : n = [o EXCEPT !.step = "poll", !.captured = {t}]
    OBVIOUS
  <1>8. /\ n \in Operation /\ n.main = m /\ n.does = "add" /\ n.caller = o.caller
        /\ n.step = "poll" /\ n.captured = {t} /\ operations' = [operations EXCEPT ![k] = n]
    <2>1. operations' = [operations EXCEPT ![k] = n]
      BY <1>1, <1>4, <1>7, <1>t
    <2> QED BY <1>1, <1>7, <2>1, PollStep
  <1> HIDE DEF m
  <1>9. Alone(n)' /\ SameDepartures
    BY <1>1, <1>8, AloneGoes DEF OrderInv
  <1>d. DepartInv(n)' /\ \A x : DepartsFrom(x)' <=> DepartsFrom(x)
    <2>1. \A x \in Main \ {m} : /\ running'[x] = running[x] /\ stranded'[x] = stranded[x]
                                /\ entry'[x] = entry[x] /\ crons'[x] = crons[x]
      BY <1>3, <1>4, <1>t
    <2> QED BY <1>1, <1>3, <1>8, <1>9, <2>1, DeparturesStay DEF OrderInv
  <1>10. OperationInv(n)'
    <2>1. AddInv(n)'
      BY <1>2, <1>6, <1>8, <1>m DEF AddInv
    <2>2. CallerInv(n)'
      BY <1>1, <1>3, <1>8, <1>m DEF CallerInv, m
    <2> QED BY <1>8, <2>1, <2>2 DEF OperationInv
  <1>11. Steady(n)'
    BY <1>5, <1>8, <1>d, <1>m DEF Steady, OrderInv, m
  <1>12. QueueInv(n)'
    BY <1>3, <1>5, <1>8, <1>m, MainFacts DEF QueueInv, OrderInv, m
  <1>13. CommandInv(n)'
    BY <1>1, <1>3, <1>8, <1>m DEF CommandInv, OrderInv
  <1>14. ServedIsActive(n)'
    BY <1>1, <1>2, <1>3, <1>8 DEF ServedIsActive, WillServe, OrderInv, isLeader, m
  <1>15. AddFollowsRemove(n)'
    BY <1>1, <1>2, <1>3, <1>8 DEF AddFollowsRemove, OrderInv, isLeader, m
  <1>16. \A x \in Main \ initialized' : Stopped(x)'
    BY <1>1, <1>3, <1>5 DEF OrderInv, CallerInv, m
  <1> QED BY <1>9, <1>10, <1>11, <1>12, <1>13, <1>14, <1>15, <1>16, <1>d DEF OrderInv

(* The poller runs too: the leader serves the workflow. *)
LEMMA ActivatePollingKeepsOrder ==
    ASSUME TypeInv, TypeInv', NEW o, OrderInv(o), NEW k \in 1 .. MaxOperations, ActivatePolling(k)
    PROVE  \E n : OrderInv(n)'
  <1> DEFINE m == o.main
  <1>1. /\ operations[k] = o /\ o.does = "add" /\ AddInv(o) /\ CallerInv(o)
        /\ o \in Operation /\ m \in Main /\ m \in Mains /\ m # NoMain
        /\ o.step = "poll" /\ operations[k].step # "none" /\ ~Departs(k) /\ ~DepartsFrom(m)
    BY AddsInPlace DEF ActivatePolling
  <1>2. isLeader(m) /\ leader = m
    BY <1>1 DEF AddInv, isLeader
  <1>3. PICK t \in Trigger : Runs(m, t, 0)
    BY <1>1 DEF AddInv
  <1>4. /\ UNCHANGED <<deployment, leader, initialized, active, running, entry, inbox, stranded>>
        /\ crons' = [crons EXCEPT ![m] = @ + 1] /\ removeQueued(m) /\ ends(k)
    BY <1>1 DEF ActivatePolling, completes
  <1>t. /\ crons \in [Main -> Nat] /\ queued \in [Main -> {"none", "timer", "fired"}]
        /\ timers \in [Main -> Nat]
    BY DEF TypeInv, ManagerTypeOK
  <1>m. Mains' = Mains /\ isMultiMain' = isMultiMain /\ \A x : isLeader(x)' = isLeader(x)
    BY <1>4 DEF Mains, isMultiMain, isLeader
  <1>n. NoOperation.does = "none" /\ NoOperation.main = NoMain /\ NoOperation.caller = "none"
    BY NoOperationType
  <1>5. \A x \in Main \ {m} : Stopped(x)' = Stopped(x) /\ Served(x)' = Served(x)
    BY <1>4, <1>t, SameElsewhere
  <1>6. Served(m)'
    BY <1>1, <1>3, <1>4, <1>t DEF Runs, Served, Live
  <1>7. /\ request' = request \/ request' = NoRequest
        /\ request'.step \in {"removing", "adding", "write"} => o.caller # "update" /\ request' = request
    BY <1>1, <1>4 DEF ends, NoRequest, CallerInv
  <1>8. WillServe(NoOperation)' => active /\ request.step # "write"
    <2>1. WillServe(NoOperation)' => WillServe(o)
      BY <1>1, <1>2, <1>4 DEF WillServe
    <2> QED BY <2>1 DEF OrderInv, ServedIsActive
  <1> HIDE DEF m
  <1>9. Alone(NoOperation)' /\ SameDepartures
    BY <1>1, <1>4, AloneEnds DEF OrderInv, ends
  <1>d. \A n : n = NoOperation => DepartInv(n)' /\ \A x : DepartsFrom(x)' <=> DepartsFrom(x)
    <2>1. \A x \in Main \ {m} : /\ running'[x] = running[x] /\ stranded'[x] = stranded[x]
                                /\ entry'[x] = entry[x] /\ crons'[x] = crons[x]
      BY <1>4, <1>t
    <2> QED BY <1>1, <1>4, <1>9, <1>n, <2>1, DeparturesStay DEF OrderInv
  <1>10. Steady(NoOperation)'
    BY <1>2, <1>5, <1>6, <1>d, <1>m DEF Steady, OrderInv, m
  <1>11. QueueInv(NoOperation)'
    <2>1. queued'[m] = "none" /\ timers'[m] = 0
      BY <1>1, <1>4, <1>t DEF OrderInv, QueueInv, removeQueued
    <2>2. \A x \in Mains \ {m} : queued'[x] = queued[x] /\ timers'[x] = timers[x]
      BY <1>4, <1>t, MainFacts DEF removeQueued
    <2>3. \A x \in Mains \ {m} : queued[x] # "none" => Stopped(x)'
      BY <1>5, MainFacts DEF OrderInv, QueueInv, m
    <2> QED BY <1>4, <1>7, <1>m, <2>1, <2>2, <2>3 DEF QueueInv, OrderInv
  <1>12. CommandInv(NoOperation)'
    BY <1>4, <1>7, <1>m, <1>n DEF CommandInv, OrderInv
  <1>13. ServedIsActive(NoOperation)'
    BY <1>4, <1>7, <1>8 DEF ServedIsActive, NoRequest
  <1>14. AddFollowsRemove(NoOperation)'
    BY <1>1, <1>2, <1>4 DEF AddFollowsRemove, OrderInv, m
  <1>15. OperationInv(NoOperation)' /\ \A x \in Main \ initialized' : Stopped(x)'
    BY <1>1, <1>4, <1>5, <1>n DEF OperationInv, OrderInv, CallerInv, m
  <1>16. \A n : n = NoOperation => OrderInv(n)'
    BY <1>d, <1>9, <1>10, <1>11, <1>12, <1>13, <1>14, <1>15 DEF OrderInv, NoOperation
  <1> QED BY <1>16

(* One main process leads, and updates use no commands. *)
LEMMA RegularSetup ==
    ASSUME ~isMultiMain, NEW o, OrderInv(o)
    PROVE  /\ leader = FirstMain /\ Mains = {FirstMain} /\ \A m \in Main : inbox[m] = <<>>
           /\ \A j \in 1 .. MaxOperations : ~Departs(j)
           /\ \A m : ~DepartsFrom(m)
  BY DEF OrderInv, CommandInv, DepartInv, DepartsFrom, Mains

(* A failure is counted: the setup is the regular one. *)
LEMMA FailureIsRegular ==
    ASSUME TypeInv, Orderly', deployment' = deployment, counts' = [counts EXCEPT !.failures = @ + 1]
    PROVE  ~isMultiMain
  <1>1. counts.failures \in Nat /\ counts'.failures = counts.failures + 1
    BY ManagerAssumption DEF TypeInv, ManagerTypeOK
  <1>2. isMultiMain' = isMultiMain
    BY DEF isMultiMain
  <1> QED BY <1>1, <1>2 DEF Orderly

(* An activation fails, and leaves the process stopped: it is queued, or   *)
(* not, or the workflow set to inactive.                                   *)
LEMMA AddFailsKeepsOrder ==
    ASSUME TypeInv, TypeInv', NEW o, OrderInv(o), NEW k \in 1 .. MaxOperations, AddFails(k), Orderly'
    PROVE  \E n : OrderInv(n)'
  <1> DEFINE m == o.main
  <1>1. /\ operations[k] = o /\ o.does = "add" /\ AddInv(o) /\ CallerInv(o)
        /\ o \in Operation /\ m \in Main /\ m \in Mains /\ m # NoMain
        /\ o.step \in {"webhooks", "trigger", "poll"} /\ operations[k].step # "none" /\ ~Departs(k)
    BY AddsInPlace DEF AddFails
  <1>2. /\ UNCHANGED <<deployment, leader, initialized, running, crons, entry, inbox>>
        /\ ends(k) /\ counts' = [counts EXCEPT !.failures = @ + 1]
        /\ stranded' = [stranded EXCEPT ![m] = @ \cup (o.captured \cap running[m])]
    BY <1>1 DEF AddFails
  <1>m. Mains' = Mains /\ isMultiMain' = isMultiMain /\ \A x : isLeader(x)' = isLeader(x)
    BY <1>2 DEF Mains, isMultiMain, isLeader
  <1>3. ~isMultiMain
    BY <1>2, FailureIsRegular
  <1>4. leader = m /\ Mains = {m} /\ \A x \in Main : inbox[x] = <<>>
    BY <1>1, <1>3, RegularSetup
  <1>t. /\ queued \in [Main -> {"none", "timer", "fired"}] /\ timers \in [Main -> Nat]
        /\ stranded \in [Main -> SUBSET Trigger]
    BY DEF TypeInv, ManagerTypeOK
  <1>n. NoOperation.does = "none" /\ NoOperation.main = NoMain /\ NoOperation.caller = "none"
    BY NoOperationType
  <1>5. \/ addQueued(m) /\ active' = active /\ o.caller \in {"init", "leadershipChange"}
        \/ UNCHANGED <<queued, timers, active>> /\ o.caller # "update"
        \/ /\ o.caller = "retry" /\ active' = active
           /\ timers' = [timers EXCEPT ![m] = @ + 1] /\ queued' = [queued EXCEPT ![m] = "timer"]
        \/ o.caller = "update" /\ active' = FALSE /\ UNCHANGED <<queued, timers>>
    <2>1. CASE queuesActivation(k)
      BY <1>1, <2>1 DEF queuesActivation
    <2>2. CASE repeatsRetry(k)
      BY <1>1, <2>2 DEF repeatsRetry
    <2>3. CASE commandDeactivates(k)
      BY <1>1, <1>3, <2>3 DEF commandDeactivates, CallerInv
    <2>4. CASE updateDeactivates(k)
      BY <1>1, <2>4 DEF updateDeactivates
    <2> QED BY <2>1, <2>2, <2>3, <2>4 DEF AddFails
  <1>6. Live(m) \subseteq o.captured /\ crons[m] = 0 /\ active /\ request.step # "write"
    <2>1. Live(m) \subseteq o.captured /\ crons[m] = 0
      BY <1>1 DEF AddInv, Stopped, Runs
    <2>2. WillServe(o)
      BY <1>1, <1>4 DEF WillServe
    <2> QED BY <2>1, <2>2 DEF OrderInv, ServedIsActive
  <1>7. /\ Stopped(m)' /\ ~Served(m)'
        /\ \A x \in Main \ {m} : Stopped(x)' = Stopped(x) /\ Served(x)' = Served(x)
    <2>1. Stopped(m)'
      BY <1>1, <1>2, <1>6, <1>t DEF Stopped, Live
    <2>2. \A x \in Main \ {m} : Stopped(x)' = Stopped(x) /\ Served(x)' = Served(x)
      BY <1>2, <1>t, SameElsewhere
    <2> QED BY <2>1, <2>2, StoppedIsNotServed
  <1>8. /\ o.caller = "update" => request.step = "adding" /\ request' = NoRequest
        /\ o.caller # "update" => request' = request /\ request.step # "adding"
    BY <1>1, <1>2 DEF ends, CallerInv, OrderInv, CommandInv
  <1> HIDE DEF m
  <1>9. Alone(NoOperation)' /\ SameDepartures
    BY <1>1, <1>2, AloneEnds DEF OrderInv, ends
  <1>d. \A n : n = NoOperation => DepartInv(n)'
    BY <1>3, <1>9, RegularSetup DEF DepartInv, SameDepartures
  <1>10. Steady(NoOperation)'
    <2>1. \A x : ~DepartsFrom(x)
      BY <1>3, RegularSetup
    <2> QED BY <1>7, <1>m, <2>1 DEF Steady, OrderInv, m
  <1>11. QueueInv(NoOperation)'
    <2>1. timers'[m] = IF queued'[m] = "timer" THEN 1 ELSE 0
      <3>1. CASE addQueued(m)
        BY <1>1, <1>t, <3>1 DEF addQueued, OrderInv, QueueInv
      <3>2. CASE UNCHANGED <<queued, timers>>
        BY <1>1, <3>2 DEF OrderInv, QueueInv
      <3>3. CASE o.caller = "retry" /\ timers' = [timers EXCEPT ![m] = @ + 1]
                 /\ queued' = [queued EXCEPT ![m] = "timer"]
        <4>1. queued[m] # "timer"
          BY <1>1, <3>3 DEF CallerInv, m
        <4>2. timers[m] = 0
          BY <1>1, <4>1 DEF OrderInv, QueueInv
        <4> QED BY <1>1, <1>t, <3>3, <4>2
      <3> QED BY <1>5, <3>1, <3>2, <3>3
    <2>2. o.caller = "update" => queued'[m] = "none"
      BY <1>1, <1>5, <1>8 DEF OrderInv, QueueInv
    <2>3. o.caller # "update" => active' /\ request'.step \notin {"write", "adding"}
      BY <1>5, <1>6, <1>8
    <2> QED BY <1>1, <1>3, <1>4, <1>7, <1>m, <2>1, <2>2, <2>3 DEF QueueInv
  <1>12. CommandInv(NoOperation)'
    BY <1>2, <1>3, <1>8, <1>m, <1>n DEF CommandInv, OrderInv, NoRequest
  <1>13. ~WillServe(NoOperation)'
    BY <1>1, <1>2, <1>4, <1>7, <1>n DEF WillServe
  <1>14. AddFollowsRemove(NoOperation)'
    BY <1>1, <1>2, <1>4 DEF AddFollowsRemove
  <1>15. OperationInv(NoOperation)' /\ \A x \in Main \ initialized' : Stopped(x)'
    BY <1>2, <1>7, <1>n DEF OperationInv, OrderInv
  <1>16. \A n : n = NoOperation => OrderInv(n)'
    BY <1>d, <1>9, <1>10, <1>11, <1>12, <1>13, <1>14, <1>15 DEF OrderInv, ServedIsActive, NoOperation
  <1> QED BY <1>16

(* The timer of a retry fires: the workflow is still active and stopped. *)
LEMMA RetryFiresKeepsOrder ==
    ASSUME TypeInv, TypeInv', NEW o, OrderInv(o), NEW m \in Mains, RetryFires(m), Orderly'
    PROVE  \E n : OrderInv(n)'
  <1>t. /\ queued \in [Main -> {"none", "timer", "fired"}] /\ timers \in [Main -> Nat]
        /\ m \in Main /\ m # NoMain
    BY MainFacts DEF TypeInv, ManagerTypeOK
  <1>1. /\ queued[m] = "timer" /\ timers[m] = 1 /\ ~isMultiMain /\ active
        /\ request.step \notin {"write", "adding"}
    BY <1>t DEF RetryFires, OrderInv, QueueInv
  <1>2. /\ timers' = [timers EXCEPT ![m] = 0] /\ queued' = [queued EXCEPT ![m] = "fired"]
        /\ starts(add(m, "retry", "webhooks")) /\ ~disturbed'
        /\ UNCHANGED <<deployment, leader, initialized, active, running, crons, entry, request, inbox,
                       stranded>>
    BY <1>1, <1>t DEF RetryFires, Orderly
  <1>3. leader = m /\ Mains = {m} /\ \A x \in Main : inbox[x] = <<>>
    BY <1>1, RegularSetup
  <1>m. Mains' = Mains /\ isMultiMain' = isMultiMain /\ \A x : isLeader(x)' = isLeader(x)
    BY <1>2 DEF Mains, isMultiMain, isLeader
  <1>4. PICK n : n = add(m, "retry", "webhooks") /\ starts(n)
    BY <1>2
  <1>5. /\ n \in Operation /\ n.main = m /\ n.does = "add" /\ n.caller = "retry"
        /\ n.step = "webhooks" /\ n.triggers = isLeader(m)
    BY <1>4, <1>t, AddType DEF Caller, Step
  <1>6. Alone(n)' /\ ~busy(n.main, n.caller) /\ SameDepartures
    BY <1>2, <1>4, <1>5, AloneStarts DEF OrderInv
  <1>7. o = NoOperation /\ initialized = Mains /\ request = NoRequest
    BY <1>5, <1>6, NotBusy DEF OrderInv
  <1>8. o.main # m
    BY <1>7, PlaceIsNothing
  <1>9. \A x : Stopped(x)' = Stopped(x) /\ Served(x)' = Served(x)
    BY <1>2, SameTriggers
  <1>10. Stopped(m)
    BY <1>1, <1>8 DEF OrderInv, QueueInv
  <1>d. DepartInv(n)' /\ \A x : ~DepartsFrom(x)
    BY <1>1, <1>6, RegularSetup DEF DepartInv, SameDepartures
  <1>11. OperationInv(n)'
    <2>1. AddInv(n)'
      BY <1>5, <1>9, <1>10, <1>m DEF AddInv
    <2>2. queued'[m] = "fired"
      BY <1>2, <1>t
    <2>3. CallerInv(n)'
      BY <1>2, <1>3, <1>5, <1>7, <1>m, <2>2 DEF CallerInv, NoRequest
    <2> QED BY <1>5, <2>1, <2>3 DEF OperationInv
  <1>12. Steady(n)'
    BY <1>7, <1>8, <1>9, <1>10, <1>d, <1>m, <1>t, <1>5, MainFacts, NoOperationType
       DEF Steady, OrderInv
  <1>13. QueueInv(n)'
    <2>1. queued'[m] = "fired" /\ timers'[m] = 0
      BY <1>2, <1>t
    <2> QED BY <1>1, <1>2, <1>3, <1>5, <1>m, <2>1 DEF QueueInv
  <1>14. CommandInv(n)'
    BY <1>2, <1>5, <1>7, <1>m DEF CommandInv, OrderInv, NoRequest
  <1>15. ServedIsActive(n)'
    BY <1>1, <1>2 DEF ServedIsActive
  <1>16. AddFollowsRemove(n)'
    BY <1>2, <1>3, <1>t DEF AddFollowsRemove
  <1>17. \A x \in Main \ initialized' : Stopped(x)'
    BY <1>2, <1>9 DEF OrderInv
  <1> QED BY <1>6, <1>11, <1>12, <1>13, <1>14, <1>15, <1>16, <1>17, <1>d DEF OrderInv

-----------------------------------------------------------------------------
(* Each action keeps the invariant: remove *)

(* A removal goes on in a process that has stepped down, as n. *)
LEMMA DepartingKeepsOrder ==
    ASSUME TypeInv, NEW o, OrderInv(o), NEW k \in 1 .. MaxOperations, Departs(k),
           NEW m, m = operations[k].main,
           NEW n \in Operation, operations' = [operations EXCEPT ![k] = n],
           IF n = NoOperation THEN Stopped(m)'
           ELSE n.main = m /\ n.does = "remove" /\ n.caller = "stepdown" /\ RemoveInv(n)',
           \A x \in Main \ {m} : /\ running'[x] = running[x] /\ stranded'[x] = stranded[x]
                                 /\ entry'[x] = entry[x] /\ crons'[x] = crons[x],
           UNCHANGED <<deployment, leader, initialized, active, queued, timers, inbox, request>>
    PROVE  OrderInv(o)'
  <1>t. /\ operations \in [1 .. MaxOperations -> Operation] /\ m \in Main /\ m \in Mains
        /\ leader # NoMain => leader \in Main
    BY DepartingType, MainFacts DEF TypeInv, ManagerTypeOK
  <1>1. /\ isMultiMain /\ initialized = Mains /\ m # o.main /\ m # leader
        /\ \A i \in (1 .. MaxOperations) \ {k} : Departs(i) => operations[i].main # m
    BY DEF OrderInv, DepartInv
  <1>2. operations'[k] = n /\ \A j \in (1 .. MaxOperations) \ {k} : operations'[j] = operations[j]
    BY <1>t
  <1>3. \A j \in (1 .. MaxOperations) \ {k} : Departs(j)' <=> Departs(j)
    BY <1>2 DEF Departs
  <1>4. Departs(k)' <=> n # NoOperation
    BY <1>2, NoOperationType DEF Departs
  <1>5. /\ \A x \in Main \ {m} : /\ Stopped(x)' = Stopped(x) /\ Served(x)' = Served(x)
                                 /\ \A t, j : Runs(x, t, j)' = Runs(x, t, j)
        /\ \A y : y.main \in Main \ {m} => (RemoveInv(y)' <=> RemoveInv(y))
    BY SameElsewhere
  <1>m. Mains' = Mains /\ isMultiMain' = isMultiMain /\ \A x : isLeader(x)' = isLeader(x)
    BY DEF Mains, isMultiMain, isLeader
  <1>o. o.does # "none" => o.main \in Main
    <2>1. o # NoOperation => \E i \in 1 .. MaxOperations : operations[i] = o
      BY DEF OrderInv, Alone
    <2> QED BY <2>1, MainFacts, NoOperationType DEF TypeInv, Placed
  <1>6. Alone(o)'
    <2>1. /\ o \in Operation /\ o.caller # "stepdown"
          /\ o.does = "none" => o = NoOperation
      BY DEF OrderInv, Alone
    <2>2. CASE o = NoOperation /\ \A j \in 1 .. MaxOperations : operations[j] = NoOperation \/ Departs(j)
      <3>1. \A j \in 1 .. MaxOperations : operations'[j] = NoOperation \/ Departs(j)'
        BY <1>2, <1>3, <1>4, <2>2
      <3> QED BY <2>1, <2>2, <3>1 DEF Alone
    <2>3. ASSUME NEW i \in 1 .. MaxOperations, operations[i] = o,
                 \A j \in (1 .. MaxOperations) \ {i} : operations[j] = NoOperation \/ Departs(j)
          PROVE  Alone(o)'
      <3>1. i # k
        BY <2>1, <2>3 DEF Departs
      <3>2. operations'[i] = o
        BY <1>2, <2>3, <3>1
      <3>3. \A j \in (1 .. MaxOperations) \ {i} : operations'[j] = NoOperation \/ Departs(j)'
        BY <1>2, <1>3, <1>4, <2>3
      <3> QED BY <2>1, <3>2, <3>3 DEF Alone
    <2> QED BY <2>2, <2>3 DEF OrderInv, Alone
  <1>7. OperationInv(o)'
    <2>1. CASE o.does = "none"
      BY <2>1 DEF OperationInv
    <2>2. CASE o.does # "none"
      <3>1. o.main \in Main \ {m}
        BY <1>1, <1>o, <2>2
      <3>2. AddInv(o) => AddInv(o)'
        BY <1>5, <1>m, <3>1 DEF AddInv
      <3>3. RemoveInv(o) => RemoveInv(o)'
        BY <1>5, <3>1
      <3>4. CallerInv(o) => CallerInv(o)'
        BY <1>m DEF CallerInv
      <3> QED BY <3>2, <3>3, <3>4 DEF OperationInv, OrderInv
    <2> QED BY <2>1, <2>2
  <1>8. DepartInv(o)'
    <2> SUFFICES ASSUME NEW j \in 1 .. MaxOperations, Departs(j)'
                 PROVE  /\ isMultiMain' /\ initialized' = Mains'
                        /\ operations'[j].does = "remove" /\ RemoveInv(operations[j])'
                        /\ operations'[j].main # o.main /\ operations'[j].main # leader'
                        /\ \A i \in (1 .. MaxOperations) \ {j} :
                              Departs(i)' => operations'[i].main # operations'[j].main
      BY DEF DepartInv
    <2>1. CASE j = k
      <3>1. n # NoOperation /\ operations'[j] = n
        BY <1>2, <1>4, <2>1
      <3>2. RemoveInv(operations[j])'
        BY <3>1 DEF RemoveInv
      <3> QED BY <1>1, <1>2, <1>3, <1>m, <2>1, <3>1, <3>2
    <2>2. CASE j # k
      <3>1. Departs(j) /\ operations'[j] = operations[j]
        BY <1>2, <1>3, <2>2
      <3>2. operations[j].main \in Main \ {m}
        BY <1>1, <2>2, <3>1, DepartingType
      <3>3. PICK d : d = operations[j]
        OBVIOUS
      <3>4. RemoveInv(d)' /\ operations'[j] = d
        BY <1>5, <3>1, <3>2, <3>3 DEF OrderInv, DepartInv
      <3>5. RemoveInv(operations[j])'
        BY <3>4 DEF RemoveInv
      <3>6. \A i \in (1 .. MaxOperations) \ {j} :
               Departs(i)' => operations'[i].main # operations'[j].main
        <4> SUFFICES ASSUME NEW i \in (1 .. MaxOperations) \ {j}, Departs(i)'
                     PROVE  operations'[i].main # operations'[j].main
          OBVIOUS
        <4>1. CASE i = k
          BY <1>2, <1>4, <3>1, <3>2, <4>1
        <4>2. CASE i # k
          BY <1>2, <1>3, <3>1, <4>2 DEF OrderInv, DepartInv
        <4> QED BY <4>1, <4>2
      <3> QED BY <1>1, <1>m, <3>1, <3>5, <3>6 DEF OrderInv, DepartInv
    <2> QED BY <2>1, <2>2
  <1>9. Steady(o)'
    <2> SUFFICES ASSUME NEW x \in Main, o.main # x, ~DepartsFrom(x)'
                 PROVE  Stopped(x)' \/ (isLeader(x)' /\ Served(x)')
      BY DEF Steady
    <2>1. CASE x = m
      <3>1. n = NoOperation
        BY <1>2, <1>4, <2>1 DEF DepartsFrom
      <3> QED BY <2>1, <3>1
    <2>2. CASE x # m
      <3>1. ~DepartsFrom(x)
        BY <1>2, <1>3, <2>2 DEF DepartsFrom
      <3> QED BY <1>5, <1>m, <2>2, <3>1 DEF OrderInv, Steady
    <2> QED BY <2>1, <2>2
  <1>10. QueueInv(o)'
    BY <1>1, <1>m DEF QueueInv, OrderInv
  <1>11. CommandInv(o)'
    BY <1>m DEF CommandInv, OrderInv
  <1>12. ServedIsActive(o)'
    BY <1>1, <1>5, <1>t DEF ServedIsActive, WillServe, OrderInv
  <1>13. AddFollowsRemove(o)'
    BY <1>1, <1>5, <1>t DEF AddFollowsRemove, OrderInv
  <1>14. \A x \in Main \ initialized' : Stopped(x)'
    BY <1>1, <1>5, <1>t DEF OrderInv
  <1> QED BY <1>6, <1>7, <1>8, <1>9, <1>10, <1>11, <1>12, <1>13, <1>14 DEF OrderInv

(* A removal ends and leaves its process stopped. *)
LEMMA RemovalEnds ==
    ASSUME TypeInv, NEW o, OrderInv(o), NEW k \in 1 .. MaxOperations,
           operations[k].step \in {"check", "close"}, ~Departs(k), ends(k) \/ rejects(k),
           Stopped(o.main)',
           \A x \in Main \ {o.main} : /\ running'[x] = running[x] /\ stranded'[x] = stranded[x]
                                      /\ entry'[x] = entry[x] /\ crons'[x] = crons[x],
           o.caller = "update" => queued'[o.main] = "none",
           removeQueued(o.main) \/ UNCHANGED <<queued, timers>>,
           UNCHANGED <<deployment, leader, initialized, active, inbox>>
    PROVE  \E n : OrderInv(n)'
  <1> DEFINE m == o.main
  <1>1. /\ operations[k] = o /\ o.does = "remove" /\ CallerInv(o) /\ o \in Operation
        /\ m \in Main /\ m \in Mains /\ m # NoMain /\ operations[k].step # "none"
        /\ ~DepartsFrom(m)
    BY RemovesInPlace
  <1>t. queued \in [Main -> {"none", "timer", "fired"}] /\ timers \in [Main -> Nat]
    BY DEF TypeInv, ManagerTypeOK
  <1>m. Mains' = Mains /\ isMultiMain' = isMultiMain /\ \A x : isLeader(x)' = isLeader(x)
    BY DEF Mains, isMultiMain, isLeader
  <1>l. leader # NoMain => leader \in Main
    BY MainFacts DEF TypeInv, ManagerTypeOK
  <1>n. NoOperation.does = "none" /\ NoOperation.main = NoMain /\ NoOperation.caller = "none"
    BY NoOperationType
  <1>2. /\ o.caller = "update" => /\ ~isMultiMain /\ leader = m /\ Mains = {m}
                                  /\ \A x \in Main : inbox[x] = <<>>
        /\ o.caller = "update" => /\ request.step = "removing"
                                  /\ request' \in {NoRequest, [request EXCEPT !.step = "write"]}
        /\ o.caller # "update" => request' = request /\ request.step # "removing"
    BY <1>1, RegularSetup DEF ends, rejects, CallerInv, OrderInv, CommandInv
  <1>r. IF o.caller = "update" THEN request'.step \in {"none", "write"}
                               ELSE request'.step = request.step
    BY <1>2 DEF TypeInv, ManagerTypeOK, NoRequest
  <1>3. /\ Stopped(m)' /\ ~Served(m)'
        /\ \A x \in Main \ {m} : Stopped(x)' = Stopped(x) /\ Served(x)' = Served(x)
    BY SameElsewhere, StoppedIsNotServed
  <1> HIDE DEF m
  <1>4. Alone(NoOperation)' /\ SameDepartures
    BY <1>1, AloneEnds DEF OrderInv, ends, rejects
  <1>d. \A n : n = NoOperation => DepartInv(n)' /\ \A x : DepartsFrom(x)' <=> DepartsFrom(x)
    BY <1>1, <1>4, <1>n, DeparturesStay DEF OrderInv, m
  <1>5. Steady(NoOperation)'
    BY <1>3, <1>d, <1>m DEF Steady, OrderInv, m
  <1>6. QueueInv(NoOperation)'
    <2>1. \A x \in Mains \ {m} : queued'[x] = queued[x] /\ timers'[x] = timers[x]
      BY <1>1, <1>t, MainFacts DEF removeQueued, m
    <2>2. \/ queued'[m] = "none" /\ timers'[m] = 0
          \/ queued'[m] = queued[m] /\ timers'[m] = timers[m]
      BY <1>1, <1>t DEF OrderInv, QueueInv, removeQueued, m
    <2>3. \A x \in Mains \ {m} : queued[x] # "none" => Stopped(x)'
      BY <1>3, MainFacts DEF OrderInv, QueueInv, m
    <2> QED BY <1>1, <1>2, <1>3, <1>m, <1>r, <2>1, <2>2, <2>3 DEF QueueInv, OrderInv, m
  <1>7. CommandInv(NoOperation)'
    BY <1>2, <1>m, <1>n, <1>r DEF CommandInv, OrderInv
  <1>8. ServedIsActive(NoOperation)'
    <2>1. WillServe(NoOperation)' => WillServe(o) /\ o.caller # "update"
      BY <1>1, <1>2, <1>3, <1>l, <1>n DEF WillServe, m
    <2> QED BY <1>r, <2>1 DEF ServedIsActive, OrderInv
  <1>9. AddFollowsRemove(NoOperation)'
    BY <1>1, <1>3, <1>l, <1>n DEF AddFollowsRemove, OrderInv, m
  <1>10. OperationInv(NoOperation)' /\ \A x \in Main \ initialized' : Stopped(x)'
    BY <1>3, <1>n DEF OperationInv, OrderInv, m
  <1>11. \A n : n = NoOperation => OrderInv(n)'
    BY <1>4, <1>5, <1>6, <1>7, <1>8, <1>9, <1>10, <1>d DEF OrderInv, NoOperation
  <1> QED BY <1>11

(* A removal that has found the entry has all triggers that run. *)
LEMMA ClosingStarts ==
    ASSUME TypeInv, NEW m \in Main, Stopped(m) \/ Served(m),
           UNCHANGED <<running, stranded>>, crons' = [crons EXCEPT ![m] = 0],
           NEW n, n.main = m, n.step = "close", n.captured = entry[m]
    PROVE  RemoveInv(n)'
  <1>1. Live(m) \subseteq entry[m]
    BY DEF Stopped, Served, Runs
  <1>2. Live(m)' = Live(m) /\ crons'[m] = 0
    BY DEF Live, TypeInv, ManagerTypeOK
  <1> QED BY <1>1, <1>2 DEF RemoveInv

(* Closing them stops the process, although it may leave some of them. *)
LEMMA ClosingStops ==
    ASSUME TypeInv, NEW m \in Main, NEW c, Live(m) \subseteq c, crons[m] = 0, crons' = crons,
           \/ /\ stranded' = [stranded EXCEPT ![m] = @ \cup (c \cap running[m])]
              /\ running' = running
           \/ /\ stranded' = [stranded EXCEPT ![m] = @ \ c]
              /\ running' = [running EXCEPT ![m] = @ \ c]
    PROVE  /\ Stopped(m)'
           /\ \A x \in Main \ {m} : running'[x] = running[x] /\ stranded'[x] = stranded[x]
  <1>t. running \in [Main -> SUBSET Trigger] /\ stranded \in [Main -> SUBSET Trigger]
    BY DEF TypeInv, ManagerTypeOK
  <1>1. CASE /\ stranded' = [stranded EXCEPT ![m] = @ \cup (c \cap running[m])]
             /\ running' = running
    BY <1>t, <1>1 DEF Stopped, Live
  <1>2. CASE /\ stranded' = [stranded EXCEPT ![m] = @ \ c]
             /\ running' = [running EXCEPT ![m] = @ \ c]
    BY <1>t, <1>2 DEF Stopped, Live
  <1> QED BY <1>1, <1>2

(* What holds of a removal in a process that has stepped down. *)
LEMMA DepartsInPlace ==
    ASSUME TypeInv, NEW o, OrderInv(o), NEW k \in 1 .. MaxOperations, Departs(k)
    PROVE  /\ operations[k] \in Operation /\ operations[k].does = "remove"
           /\ operations[k].caller = "stepdown" /\ operations[k].main \in Main
           /\ RemoveInv(operations[k])
  <1>1. operations[k].does = "remove" /\ RemoveInv(operations[k])
    BY DEF OrderInv, DepartInv
  <1>2. operations[k].main \in Main /\ operations[k] \in Operation
    BY DepartingType
  <1> QED BY <1>1, <1>2 DEF Departs

(* remove finds an entry, or none. *)
LEMMA RemoveBeginsKeepsOrder ==
    ASSUME TypeInv, TypeInv', NEW o, OrderInv(o), NEW k \in 1 .. MaxOperations, RemoveBegins(k),
           ~Departs(k)
    PROVE  \E n : OrderInv(n)'
  <1> DEFINE m == o.main
  <1>1. /\ operations[k] = o /\ o.does = "remove" /\ RemoveInv(o) /\ CallerInv(o)
        /\ o \in Operation /\ m \in Main /\ m \in Mains /\ m # NoMain
        /\ o.step = "check" /\ operations[k].step # "none" /\ o.caller # "stepdown" /\ ~DepartsFrom(m)
    BY RemovesInPlace DEF RemoveBegins
  <1>2. Stopped(m) \/ Served(m)
    BY <1>1 DEF RemoveInv
  <1>3. /\ UNCHANGED <<deployment, leader, initialized, active, running, entry, inbox, stranded>>
        /\ IF o.caller = "update" THEN removeQueued(m) ELSE UNCHANGED <<queued, timers>>
    BY <1>1 DEF RemoveBegins, history
  <1>t. /\ crons \in [Main -> Nat] /\ queued \in [Main -> {"none", "timer", "fired"}]
        /\ timers \in [Main -> Nat]
    BY DEF TypeInv, ManagerTypeOK
  <1>m. Mains' = Mains /\ isMultiMain' = isMultiMain /\ \A x : isLeader(x)' = isLeader(x)
    BY <1>3 DEF Mains, isMultiMain, isLeader
  <1>l. leader # NoMain => leader \in Main
    BY MainFacts DEF TypeInv, ManagerTypeOK
  <1>4. o.caller = "update" => queued'[m] = "none"
    BY <1>1, <1>3, <1>t DEF removeQueued
  <1>5. CASE entry[m] = NoEntry
    <2>1. ends(k) /\ crons' = crons
      BY <1>1, <1>5 DEF RemoveBegins
    <2>2. \A x : Stopped(x)' = Stopped(x) /\ Served(x)' = Served(x)
      BY <1>3, <2>1, SameTriggers
    <2>3. Stopped(m)'
      BY <1>2, <1>5, <2>2, Conditions
    <2> QED BY <1>1, <1>3, <1>4, <2>1, <2>3, RemovalEnds
  <1>6. CASE entry[m] # NoEntry
    <2>1. crons' = [crons EXCEPT ![m] = 0] /\ request' = request
      BY <1>1, <1>6 DEF RemoveBegins, deregisterCrons
    <2>2. PICK n : n = closing(o) /\ operations' = [operations EXCEPT ![k] = n]
      BY <1>1, <1>6 DEF RemoveBegins
    <2>3. /\ n \in Operation /\ n.main = m /\ n.does = "remove" /\ n.caller = o.caller
          /\ n.step = "close" /\ n.captured = entry[m]
      <3>1. entry[m] \in SUBSET Trigger
        BY <1>1, <1>6, EntryType DEF TypeInv
      <3> QED BY <1>1, <2>2, <3>1, ClosingType
    <2>4. RemoveInv(n)'
      BY <1>1, <1>2, <1>3, <2>1, <2>3, ClosingStarts
    <2>5. \A x \in Main \ {m} : /\ running'[x] = running[x] /\ stranded'[x] = stranded[x]
                                /\ entry'[x] = entry[x] /\ crons'[x] = crons[x]
      BY <1>3, <1>t, <2>1
    <2>6. \A x \in Main \ {m} : Stopped(x)' = Stopped(x) /\ Served(x)' = Served(x)
      BY <2>5, SameElsewhere
    <2> HIDE DEF m
    <2>7. Alone(n)' /\ SameDepartures
      BY <1>1, <2>2, <2>3, AloneGoes DEF OrderInv
    <2>d. DepartInv(n)' /\ \A x : DepartsFrom(x)' <=> DepartsFrom(x)
      BY <1>1, <1>3, <2>3, <2>5, <2>7, DeparturesStay DEF OrderInv, m
    <2>8. OperationInv(n)'
      <3>2. CallerInv(n)'
        BY <1>1, <1>3, <1>4, <1>m, <2>1, <2>3 DEF CallerInv, m
      <3> QED BY <2>3, <2>4, <3>2 DEF OperationInv
    <2>9. Steady(n)'
      BY <1>m, <2>3, <2>6, <2>d DEF Steady, OrderInv, m
    <2>10. QueueInv(n)'
      <3>1. \A x \in Mains \ {m} : queued'[x] = queued[x] /\ timers'[x] = timers[x]
        BY <1>1, <1>3, <1>t, MainFacts DEF removeQueued
      <3>2. \/ queued'[m] = "none" /\ timers'[m] = 0
            \/ queued'[m] = queued[m] /\ timers'[m] = timers[m]
        BY <1>1, <1>3, <1>t DEF OrderInv, QueueInv, removeQueued
      <3>3. \A x \in Mains \ {m} : queued[x] # "none" => Stopped(x)'
        BY <2>6, MainFacts DEF OrderInv, QueueInv, m
      <3> QED BY <1>1, <1>3, <1>m, <2>1, <2>3, <3>1, <3>2, <3>3 DEF QueueInv, OrderInv
    <2>11. CommandInv(n)'
      BY <1>1, <1>3, <1>m, <2>1, <2>3 DEF CommandInv, OrderInv
    <2>12. ServedIsActive(n)'
      <3>1. WillServe(n)' => WillServe(o)
        BY <1>1, <1>3, <1>l, <2>3, <2>6 DEF WillServe, m
      <3> QED BY <1>3, <2>1, <3>1 DEF ServedIsActive, OrderInv
    <2>13. AddFollowsRemove(n)'
      BY <1>1, <1>3, <1>l, <2>3, <2>6 DEF AddFollowsRemove, OrderInv, m
    <2>14. \A x \in Main \ initialized' : Stopped(x)'
      BY <1>1, <1>3, <2>6 DEF OrderInv, CallerInv, m
    <2> QED BY <2>7, <2>8, <2>9, <2>10, <2>11, <2>12, <2>13, <2>14, <2>d DEF OrderInv
  <1> QED BY <1>5, <1>6

(* The same in a process that has stepped down. *)
LEMMA DepartingBegins ==
    ASSUME TypeInv, NEW o, OrderInv(o), NEW k \in 1 .. MaxOperations, RemoveBegins(k), Departs(k)
    PROVE  OrderInv(o)'
  <1>1. PICK d : d = operations[k]
    OBVIOUS
  <1>2. PICK m : m = operations[k].main
    OBVIOUS
  <1>3. /\ d \in Operation /\ d.does = "remove" /\ d.caller = "stepdown" /\ d.main = m /\ m \in Main
        /\ RemoveInv(d) /\ d.step = "check"
    BY <1>1, <1>2, DepartsInPlace DEF RemoveBegins
  <1>4. Stopped(m) \/ Served(m)
    BY <1>3 DEF RemoveInv
  <1>5. UNCHANGED <<deployment, leader, initialized, active, running, entry, inbox, stranded, queued,
                    timers>>
    BY <1>1, <1>3 DEF RemoveBegins, history
  <1>t. crons \in [Main -> Nat]
    BY DEF TypeInv, ManagerTypeOK
  <1>6. CASE entry[m] = NoEntry
    <2>1. ends(k) /\ crons' = crons
      BY <1>2, <1>6 DEF RemoveBegins
    <2>2. operations' = [operations EXCEPT ![k] = NoOperation] /\ request' = request
      BY <1>1, <1>3, <2>1 DEF ends
    <2>3. Stopped(m)'
      BY <1>4, <1>5, <1>6, <2>1, SameTriggers, Conditions
    <2>4. \A n : n = NoOperation => OrderInv(o)'
      BY <1>2, <1>5, <2>1, <2>2, <2>3, DepartingKeepsOrder, NoOperationType
    <2> QED BY <2>4
  <1>7. CASE entry[m] # NoEntry
    <2>1. crons' = [crons EXCEPT ![m] = 0] /\ request' = request
      BY <1>2, <1>7 DEF RemoveBegins, deregisterCrons
    <2>2. PICK n : n = closing(d) /\ operations' = [operations EXCEPT ![k] = n]
      BY <1>1, <1>2, <1>7 DEF RemoveBegins
    <2>3. /\ n \in Operation /\ n.main = m /\ n.does = "remove" /\ n.caller = "stepdown"
          /\ n.step = "close" /\ n.captured = entry[m]
      <3>1. entry[m] \in SUBSET Trigger
        BY <1>3, <1>7, EntryType DEF TypeInv
      <3> QED BY <1>3, <2>2, <3>1, ClosingType
    <2>4. RemoveInv(n)'
      BY <1>3, <1>4, <1>5, <2>1, <2>3, ClosingStarts
    <2>5. n # NoOperation
      BY <2>3, NoOperationType
    <2>6. \A x \in Main \ {m} : /\ running'[x] = running[x] /\ stranded'[x] = stranded[x]
                                /\ entry'[x] = entry[x] /\ crons'[x] = crons[x]
      BY <1>5, <1>t, <2>1
    <2> QED BY <1>2, <1>5, <2>1, <2>2, <2>3, <2>4, <2>5, <2>6, DepartingKeepsOrder
  <1> QED BY <1>6, <1>7

(* remove has closed the trigger. *)
LEMMA RemoveEndsKeepsOrder ==
    ASSUME TypeInv, TypeInv', NEW o, OrderInv(o), NEW k \in 1 .. MaxOperations, RemoveEnds(k)
    PROVE  \E n : OrderInv(n)'
  <1>1. PICK d : d = operations[k]
    OBVIOUS
  <1>2. PICK m : m = d.main
    OBVIOUS
  <1>3. /\ running' = [running EXCEPT ![m] = @ \ d.captured]
        /\ stranded' = [stranded EXCEPT ![m] = @ \ d.captured]
        /\ entry' = [entry EXCEPT ![m] = NoEntry] /\ ends(k) /\ d.step = "close"
        /\ UNCHANGED <<deployment, leader, initialized, active, crons, queued, timers, inbox>>
    BY <1>1, <1>2 DEF RemoveEnds
  <1>4. m \in Main /\ RemoveInv(d)
    <2>1. CASE Departs(k)
      BY <1>1, <1>2, <2>1, DepartsInPlace
    <2>2. CASE ~Departs(k)
      BY <1>1, <1>2, <1>3, <2>2, RemovesInPlace
    <2> QED BY <2>1, <2>2
  <1>5. Live(m) \subseteq d.captured /\ crons[m] = 0
    BY <1>2, <1>3, <1>4 DEF RemoveInv
  <1>6. Stopped(m)' /\ \A x \in Main \ {m} : running'[x] = running[x] /\ stranded'[x] = stranded[x]
    BY <1>3, <1>4, <1>5, ClosingStops
  <1>7. \A x \in Main \ {m} : entry'[x] = entry[x] /\ crons'[x] = crons[x]
    BY <1>3 DEF TypeInv, ManagerTypeOK
  <1>8. CASE Departs(k)
    <2>1. operations' = [operations EXCEPT ![k] = NoOperation] /\ request' = request
      BY <1>3, <1>8 DEF ends, Departs
    <2>2. \A n : n = NoOperation => OrderInv(o)'
      BY <1>1, <1>2, <1>3, <1>6, <1>7, <1>8, <2>1, DepartingKeepsOrder, NoOperationType
    <2> QED BY <2>2
  <1>9. CASE ~Departs(k)
    <2>1. d = o /\ CallerInv(o) /\ o.does = "remove"
      BY <1>1, <1>3, <1>9, RemovesInPlace
    <2>2. o.caller = "update" => queued'[o.main] = "none"
      BY <1>3, <2>1 DEF CallerInv
    <2>3. operations[k].step \in {"check", "close"}
      BY <1>1, <1>3
    <2> QED BY <1>2, <1>3, <1>6, <1>7, <1>9, <2>1, <2>2, <2>3, RemovalEnds
  <1> QED BY <1>8, <1>9

(* A closeFunction has failed: the process is stopped, beside a trigger    *)
(* that it may have left.                                                  *)
LEMMA CloseFailsKeepsOrder ==
    ASSUME TypeInv, TypeInv', NEW o, OrderInv(o), NEW k \in 1 .. MaxOperations, CloseFails(k), Orderly'
    PROVE  \E n : OrderInv(n)'
  <1>1. counts' = [counts EXCEPT !.failures = @ + 1] /\ operations[k].step = "close"
        /\ UNCHANGED <<deployment, leader, initialized, active, crons, queued, timers, inbox>>
    BY DEF CloseFails
  <1>2. ~isMultiMain
    BY <1>1, FailureIsRegular
  <1>3. ~Departs(k)
    BY <1>2, RegularSetup
  <1>4. PICK m : m = o.main
    OBVIOUS
  <1>5. operations[k] = o /\ o.does = "remove" /\ RemoveInv(o) /\ CallerInv(o) /\ m \in Main
    BY <1>1, <1>3, <1>4, RemovesInPlace
  <1>6. /\ \/ /\ stranded' = [stranded EXCEPT ![m] = @ \cup (o.captured \cap running[m])]
              /\ running' = running
           \/ /\ stranded' = [stranded EXCEPT ![m] = @ \ o.captured]
              /\ running' = [running EXCEPT ![m] = @ \ o.captured]
        /\ \/ ends(k) /\ entry' = [entry EXCEPT ![m] = NoEntry]
           \/ rejects(k) /\ entry' = entry
    BY <1>4, <1>5 DEF CloseFails, rejects
  <1>7. Live(m) \subseteq o.captured /\ crons[m] = 0
    BY <1>1, <1>4, <1>5 DEF RemoveInv
  <1>8. Stopped(m)' /\ \A x \in Main \ {m} : running'[x] = running[x] /\ stranded'[x] = stranded[x]
    BY <1>1, <1>5, <1>6, <1>7, ClosingStops
  <1>9. \A x \in Main \ {m} : entry'[x] = entry[x] /\ crons'[x] = crons[x]
    BY <1>1, <1>6 DEF TypeInv, ManagerTypeOK
  <1>10. o.caller = "update" => queued'[o.main] = "none"
    BY <1>1, <1>5 DEF CallerInv
  <1> QED BY <1>1, <1>3, <1>4, <1>6, <1>8, <1>9, <1>10, RemovalEnds

(* A trigger that runs fails: it is removed, if the entry refers to it or  *)
(* another one, and its activation is queued.                              *)
LEMMA EmitErrorKeepsOrder ==
    ASSUME TypeInv, TypeInv', NEW o, OrderInv(o), NEW m \in Mains, EmitError(m), Orderly'
    PROVE  \E n : OrderInv(n)'
  <1>t. /\ queued \in [Main -> {"none", "timer", "fired"}] /\ timers \in [Main -> Nat]
        /\ crons \in [Main -> Nat] /\ m \in Main /\ m # NoMain
    BY MainFacts DEF TypeInv, ManagerTypeOK
  <1>1. /\ UNCHANGED <<deployment, leader, initialized, active, running, entry, inbox, request,
                       stranded>>
        /\ counts' = [counts EXCEPT !.failures = @ + 1] /\ addQueued(m)
        /\ active /\ ~disturbed'
    BY DEF EmitError, Orderly
  <1>m. Mains' = Mains /\ isMultiMain' = isMultiMain /\ \A x : isLeader(x)' = isLeader(x)
    BY <1>1 DEF Mains, isMultiMain, isLeader
  <1>2. ~isMultiMain
    BY <1>1, FailureIsRegular
  <1>3. leader = m /\ Mains = {m} /\ \A x \in Main : inbox[x] = <<>>
    BY <1>2, RegularSetup
  <1>4. queued'[m] = "timer" /\ timers'[m] = 1
    BY <1>1, <1>t DEF OrderInv, QueueInv, addQueued
  <1>5. PICK r : r = remove(m, "error")
    OBVIOUS
  <1>6. r \in Operation /\ r.main = m /\ r.does = "remove" /\ r.caller = "error"
    BY <1>5, <1>t, RemoveType DEF Caller
  <1>7. CASE entry[m] = NoEntry
    <2>1. operations' = operations /\ crons' = crons /\ ~busy(m, "error")
      BY <1>1, <1>7 DEF EmitError
    <2>2. o = NoOperation /\ initialized = Mains /\ request = NoRequest
      BY <2>1, NotBusy DEF OrderInv
    <2>3. o.main # m
      BY <2>2, PlaceIsNothing
    <2>4. Stopped(m)
      BY <1>2, <1>7, <1>t, <2>3, Conditions, RegularSetup DEF OrderInv, Steady
    <2>5. \A x : Stopped(x)' = Stopped(x) /\ Served(x)' = Served(x)
      BY <1>1, <2>1, SameTriggers
    <2>6. Alone(o)' /\ SameDepartures
      BY <2>1, AloneStays DEF OrderInv
    <2>7. DepartInv(o)' /\ \A x : DepartsFrom(x)' <=> DepartsFrom(x)
      BY <1>1, <2>1, <2>6, DeparturesStayIdle DEF OrderInv
    <2>8. OperationInv(o)'
      BY <2>2, NoOperationType DEF OperationInv
    <2>9. Steady(o)'
      BY <1>m, <2>5, <2>7 DEF Steady, OrderInv
    <2>10. QueueInv(o)'
      BY <1>1, <1>2, <1>3, <1>4, <1>m, <2>2, <2>4, <2>5 DEF QueueInv, NoRequest
    <2>11. CommandInv(o)'
      BY <1>1, <1>m DEF CommandInv, OrderInv
    <2>12. ServedIsActive(o)'
      BY <1>1, <2>2 DEF ServedIsActive, NoRequest
    <2>13. AddFollowsRemove(o)'
      BY <1>1, <1>3, <1>t DEF AddFollowsRemove
    <2>14. \A x \in Main \ initialized' : Stopped(x)'
      BY <1>1, <2>5 DEF OrderInv
    <2> QED BY <2>6, <2>7, <2>8, <2>9, <2>10, <2>11, <2>12, <2>13, <2>14 DEF OrderInv
  <1>8. CASE entry[m] # NoEntry
    <2>1. crons' = [crons EXCEPT ![m] = 0]
      BY <1>8 DEF EmitError, deregisterCrons
    <2>2. PICK n : n = closing(r) /\ starts(n)
      BY <1>5, <1>8 DEF EmitError
    <2>3. entry[m] \in SUBSET Trigger
      BY <1>8, <1>t, EntryType DEF TypeInv
    <2>4. /\ n \in Operation /\ n.main = m /\ n.does = "remove" /\ n.caller = "error"
          /\ n.step = "close" /\ n.captured = entry[m]
      BY <1>6, <2>2, <2>3, ClosingType
    <2>5. Alone(n)' /\ ~busy(n.main, n.caller) /\ SameDepartures
      BY <1>1, <2>2, <2>4, AloneStarts DEF OrderInv
    <2>6. o = NoOperation /\ initialized = Mains /\ request = NoRequest
      BY <2>4, <2>5, NotBusy DEF OrderInv
    <2>7. o.main # m
      BY <2>6, PlaceIsNothing
    <2>8. Stopped(m) \/ Served(m)
      BY <1>2, <1>t, <2>7, RegularSetup DEF OrderInv, Steady
    <2>9. RemoveInv(n)'
      BY <1>1, <1>t, <2>1, <2>4, <2>8, ClosingStarts
    <2>10. \A x \in Main \ {m} : Stopped(x)' = Stopped(x) /\ Served(x)' = Served(x)
      BY <1>1, <1>t, <2>1, SameElsewhere
    <2>11. DepartInv(n)' /\ \A x : ~DepartsFrom(x)
      BY <1>2, <2>5, RegularSetup DEF DepartInv, SameDepartures
    <2>12. OperationInv(n)'
      <3>1. CallerInv(n)'
        BY <1>1, <1>3, <2>4, <2>6, <1>m DEF CallerInv, NoRequest
      <3> QED BY <2>4, <2>9, <3>1 DEF OperationInv
    <2>13. Steady(n)'
      BY <2>4, <2>6, <2>10, <2>11, <1>m, NoOperationType, MainFacts DEF Steady, OrderInv
    <2>14. QueueInv(n)'
      BY <1>1, <1>2, <1>3, <1>4, <1>m, <2>4, <2>6 DEF QueueInv, NoRequest
    <2>15. CommandInv(n)'
      BY <1>1, <2>4, <2>6, <1>m DEF CommandInv, OrderInv, NoRequest
    <2>16. ServedIsActive(n)'
      BY <1>1, <2>6 DEF ServedIsActive, NoRequest
    <2>17. AddFollowsRemove(n)'
      BY <1>1, <1>3, <1>t DEF AddFollowsRemove
    <2>18. \A x \in Main \ initialized' : Stopped(x)'
      BY <1>1, <2>6, <2>10 DEF OrderInv
    <2> QED BY <2>5, <2>11, <2>12, <2>13, <2>14, <2>15, <2>16, <2>17, <2>18 DEF OrderInv
  <1> QED BY <1>7, <1>8

-----------------------------------------------------------------------------
(* Each action keeps the invariant: start-up, leadership and commands *)

(* The triggers and pollers of a process that has no operation. *)
LEMMA NothingInProgress ==
    ASSUME NEW o, OrderInv(o), o = NoOperation
    PROVE  /\ \A m \in Main : ~DepartsFrom(m) => Stopped(m) \/ (isLeader(m) /\ Served(m))
           /\ leader # NoMain => ~DepartsFrom(leader)
           /\ \A m \in Mains : queued[m] # "none" => Stopped(m)
           /\ request.step \notin {"removing", "adding"}
  <1>1. \A m \in Main : o.main # m
    BY MainFacts, NoOperationType
  <1>2. leader # NoMain => ~DepartsFrom(leader)
    BY DEF OrderInv, DepartInv, DepartsFrom
  <1>3. \A m \in Mains : queued[m] # "none" => Stopped(m)
    BY <1>1, MainFacts DEF OrderInv, QueueInv
  <1>4. request.step \notin {"removing", "adding"}
    BY NoOperationType DEF OrderInv, CommandInv
  <1>5. \A m \in Main : ~DepartsFrom(m) => Stopped(m) \/ (isLeader(m) /\ Served(m))
    BY <1>1 DEF OrderInv, Steady
  <1> QED BY <1>2, <1>3, <1>4, <1>5

(* A process starts to activate the workflow. *)
LEMMA InitManagerKeepsOrder ==
    ASSUME TypeInv, TypeInv', NEW o, OrderInv(o), NEW m \in Mains, InitManager(m), Orderly'
    PROVE  \E n : OrderInv(n)'
  <1>t. m \in Main /\ m # NoMain /\ initialized \subseteq Mains
    BY MainFacts DEF TypeInv, ManagerTypeOK
  <1>1. /\ UNCHANGED <<deployment, leader, active, running, crons, entry, queued, timers, inbox, request,
                       stranded>>
        /\ m \notin initialized /\ initialized' = initialized \cup {m} /\ ~disturbed'
    BY DEF InitManager, Orderly
  <1>m. Mains' = Mains /\ isMultiMain' = isMultiMain /\ \A x : isLeader(x)' = isLeader(x)
    BY <1>1 DEF Mains, isMultiMain, isLeader
  <1>2. PICK n : n = add(m, "init", "list") /\ starts(n)
    BY DEF InitManager
  <1>3. /\ n \in Operation /\ n.main = m /\ n.does = "add" /\ n.caller = "init" /\ n.step = "list"
    BY <1>2, <1>t, AddType DEF Caller, Step
  <1>4. Alone(n)' /\ ~busy(n.main, n.caller) /\ SameDepartures
    BY <1>1, <1>2, <1>3, AloneStarts DEF OrderInv
  <1>5. /\ o = NoOperation /\ request = NoRequest /\ \A x \in Main : inbox[x] = <<>>
        /\ ~DepartsFrom(m)
    BY <1>3, <1>4, NotBusy DEF OrderInv
  <1>d. DepartInv(n)' /\ \A x : DepartsFrom(x)' <=> DepartsFrom(x)
    <2>1. initialized # Mains
      BY <1>1
    <2> QED BY <1>1, <1>3, <1>4, <1>5, <2>1, DeparturesStayIdle DEF OrderInv
  <1>6. Stopped(m)
    BY <1>1, <1>t DEF OrderInv
  <1>7. \A x : Stopped(x)' = Stopped(x) /\ Served(x)' = Served(x)
    BY <1>1, SameTriggers
  <1>8. OperationInv(n)'
    <2>1. AddInv(n)'
      BY <1>3, <1>6, <1>7 DEF AddInv
    <2>2. CallerInv(n)'
      BY <1>1, <1>3, <1>5 DEF CallerInv, NoRequest
    <2> QED BY <1>3, <2>1, <2>2 DEF OperationInv
  <1>9. Steady(n)'
    BY <1>5, <1>7, <1>d, <1>m, NothingInProgress DEF Steady
  <1>10. QueueInv(n)'
    BY <1>1, <1>5, <1>7, <1>m, NothingInProgress DEF QueueInv, OrderInv
  <1>11. CommandInv(n)'
    BY <1>1, <1>5, <1>m DEF CommandInv, OrderInv, NoRequest
  <1>12. ServedIsActive(n)'
    <2>1. WillServe(n)' => WillServe(o)
      BY <1>1, <1>3, <1>5, <1>7, NoOperationType DEF WillServe
    <2> QED BY <1>1, <2>1 DEF ServedIsActive, OrderInv
  <1>13. AddFollowsRemove(n)'
    <2>1. leader # NoMain => leader \in Main
      BY MainFacts DEF TypeInv, ManagerTypeOK
    <2> QED BY <1>1, <1>5, <2>1 DEF AddFollowsRemove
  <1>14. \A x \in Main \ initialized' : Stopped(x)'
    BY <1>1, <1>7 DEF OrderInv
  <1> QED BY <1>4, <1>8, <1>9, <1>10, <1>11, <1>12, <1>13, <1>14, <1>d DEF OrderInv

(* A new leader starts to activate the workflow. *)
LEMMA TakeoverKeepsOrder ==
    ASSUME TypeInv, TypeInv', NEW o, OrderInv(o), NEW m \in Mains, Takeover(m), Orderly'
    PROVE  \E n : OrderInv(n)'
  <1>t. m \in Main /\ m # NoMain
    BY MainFacts
  <1>1. /\ UNCHANGED <<deployment, initialized, active, running, crons, entry, queued, timers, inbox,
                       request>>
        /\ isMultiMain /\ leader = NoMain /\ leader' = m /\ ~disturbed' /\ UNCHANGED stranded
    BY DEF Takeover, Orderly
  <1>m. Mains' = Mains /\ isMultiMain' = isMultiMain
    BY <1>1 DEF Mains, isMultiMain
  <1>2. PICK n : n = add(m, "leadershipChange", "list") /\ starts(n)
    BY DEF Takeover
  <1>3. /\ n \in Operation /\ n.main = m /\ n.does = "add" /\ n.caller = "leadershipChange"
        /\ n.step = "list"
    BY <1>2, <1>t, AddType DEF Caller, Step
  <1>4. Alone(n)' /\ ~busy(n.main, n.caller) /\ SameDepartures
    BY <1>1, <1>2, <1>3, AloneStarts DEF OrderInv
  <1>5. /\ o = NoOperation /\ request = NoRequest /\ initialized = Mains
        /\ \A x \in Main : inbox[x] = <<>>
        /\ ~DepartsFrom(m)
    BY <1>3, <1>4, NotBusy DEF OrderInv
  <1>6. \A x \in Main : ~DepartsFrom(x) => Stopped(x)
    BY <1>1, <1>5, NothingInProgress, MainFacts DEF isLeader
  <1>d. DepartInv(n)' /\ \A x : DepartsFrom(x)' <=> DepartsFrom(x)
    BY <1>1, <1>3, <1>4, <1>5, DeparturesStayIdle DEF OrderInv
  <1>7. \A x : Stopped(x)' = Stopped(x) /\ Served(x)' = Served(x)
    BY <1>1, SameTriggers
  <1>8. OperationInv(n)'
    <2>1. AddInv(n)'
      BY <1>3, <1>5, <1>6, <1>7, <1>t DEF AddInv
    <2>2. CallerInv(n)'
      BY <1>1, <1>3, <1>5, <1>m DEF CallerInv, NoRequest
    <2> QED BY <1>3, <2>1, <2>2 DEF OperationInv
  <1>9. Steady(n)' /\ \A x \in Main \ initialized' : Stopped(x)'
    BY <1>1, <1>6, <1>7, <1>d DEF Steady, OrderInv
  <1>10. QueueInv(n)'
    BY <1>1, <1>5, <1>7, <1>m, NothingInProgress DEF QueueInv, OrderInv
  <1>11. CommandInv(n)'
    BY <1>1, <1>5, <1>m DEF CommandInv, OrderInv, NoRequest
  <1>12. ServedIsActive(n)'
    BY <1>1, <1>3, <1>5, <1>t DEF ServedIsActive, WillServe
  <1>13. AddFollowsRemove(n)'
    BY <1>1, <1>5, <1>t DEF AddFollowsRemove
  <1> QED BY <1>4, <1>8, <1>9, <1>10, <1>11, <1>12, <1>13, <1>d DEF OrderInv

(* A leader steps down, and removes what it runs. *)
LEMMA StepdownKeepsOrder ==
    ASSUME TypeInv, TypeInv', NEW o, OrderInv(o), NEW m \in Mains, Stepdown(m), Orderly'
    PROVE  \E n : OrderInv(n)'
  <1>t. m \in Main /\ m # NoMain /\ operations \in [1 .. MaxOperations -> Operation]
    BY MainFacts DEF TypeInv, ManagerTypeOK
  <1>1. /\ UNCHANGED <<deployment, initialized, active, running, crons, entry, queued, timers, inbox,
                       request, stranded>>
        /\ isMultiMain /\ leader = m /\ leader' = NoMain /\ ~disturbed'
    BY DEF Stepdown, Orderly
  <1>m. Mains' = Mains /\ isMultiMain' = isMultiMain
    BY <1>1 DEF Mains, isMultiMain
  <1>2. PICK r : r = remove(m, "stepdown")
    OBVIOUS
  <1>3. /\ r \in Operation /\ r.main = m /\ r.does = "remove" /\ r.caller = "stepdown"
        /\ r.step = "check"
    BY <1>2, <1>t, RemoveType DEF Caller
  <1>4. /\ ~busy(m, "stepdown")
        /\ IF entry[m] = NoEntry THEN operations' = operations ELSE starts(r)
    BY <1>1, <1>2, <1>3 DEF Stepdown, starts
  <1>5. /\ o = NoOperation /\ request = NoRequest /\ initialized = Mains /\ ~DepartsFrom(m)
        /\ \A x \in Main : inbox[x] = <<>>
    BY <1>4, NotBusy DEF OrderInv
  <1>6. /\ \A x \in Main \ {m} : ~DepartsFrom(x) => Stopped(x)
        /\ Stopped(m) \/ Served(m)
    BY <1>1, <1>5, <1>t, NothingInProgress DEF isLeader
  <1>7. /\ \A x : Stopped(x)' = Stopped(x) /\ Served(x)' = Served(x)
        /\ \A y : RemoveInv(y)' <=> RemoveInv(y)
    BY <1>1, SameTriggers
  <1>n. NoOperation.does = "none" /\ NoOperation.caller = "none" /\ NoOperation.main = NoMain
    BY NoOperationType
  <1>8. Alone(o)' /\ DepartInv(o)' /\ Steady(o)'
    <2>1. CASE entry[m] = NoEntry
      <3>1. Alone(o)' /\ SameDepartures
        BY <1>4, <2>1, AloneStays DEF OrderInv
      <3>2. DepartInv(o)' /\ \A x : DepartsFrom(x)' <=> DepartsFrom(x)
        BY <1>1, <3>1, DeparturesStayIdle DEF OrderInv
      <3>3. Stopped(m)
        BY <1>6, <2>1, Conditions
      <3> QED BY <1>6, <1>7, <3>1, <3>2, <3>3 DEF Steady
    <2>2. CASE entry[m] # NoEntry
      <3>1. PICK i \in 1 .. MaxOperations : /\ operations[i].does = "none"
                                            /\ operations' = [operations EXCEPT ![i] = r]
        BY <1>4, <2>2, StartPlace DEF idle
      <3>2. /\ operations'[i] = r /\ ~Departs(i)
            /\ \A j \in (1 .. MaxOperations) \ {i} : operations'[j] = operations[j]
        BY <1>t, <3>1, DepartingType
      <3>3. Departs(i)' /\ \A j \in (1 .. MaxOperations) \ {i} : Departs(j)' <=> Departs(j)
        BY <1>3, <3>2 DEF Departs
      <3>4. Alone(o)'
        <4>1. \A j \in 1 .. MaxOperations : operations[j] = NoOperation \/ Departs(j)
          BY <1>5 DEF OrderInv, Alone
        <4>2. \A j \in 1 .. MaxOperations : operations'[j] = NoOperation \/ Departs(j)'
          BY <3>2, <3>3, <4>1
        <4> QED BY <1>5, <1>n, <4>2, NoOperationType DEF Alone
      <3>5. /\ DepartsFrom(m)'
            /\ \A x \in Main \ {m} : DepartsFrom(x)' <=> DepartsFrom(x)
        BY <1>3, <3>2, <3>3 DEF DepartsFrom
      <3>6. Steady(o)'
        BY <1>6, <1>7, <3>5 DEF Steady
      <3>7. DepartInv(o)'
        <4> SUFFICES ASSUME NEW j \in 1 .. MaxOperations, Departs(j)'
                     PROVE  /\ isMultiMain' /\ initialized' = Mains'
                            /\ operations'[j].does = "remove" /\ RemoveInv(operations[j])'
                            /\ operations'[j].main # o.main /\ operations'[j].main # leader'
                            /\ \A h \in (1 .. MaxOperations) \ {j} :
                                  Departs(h)' => operations'[h].main # operations'[j].main
          BY DEF DepartInv
        <4>1. \A h \in (1 .. MaxOperations) \ {i} : Departs(h) => operations[h].main # m
          BY <1>5 DEF DepartsFrom
        <4>2. CASE j = i
          <5>1. operations'[j] = r
            BY <3>2, <4>2
          <5>2. RemoveInv(r)'
            BY <1>3, <1>6, <1>7 DEF RemoveInv
          <5>3. RemoveInv(operations[j])'
            BY <5>1, <5>2 DEF RemoveInv
          <5>4. \A h \in (1 .. MaxOperations) \ {j} :
                   Departs(h)' => operations'[h].main # operations'[j].main
            BY <1>3, <3>2, <3>3, <4>1, <4>2, <5>1
          <5> QED BY <1>1, <1>3, <1>5, <1>m, <1>n, <1>t, <5>1, <5>3, <5>4
        <4>3. CASE j # i
          <5>1. Departs(j) /\ operations'[j] = operations[j]
            BY <3>2, <3>3, <4>3
          <5>2. PICK d : d = operations[j]
            OBVIOUS
          <5>3. RemoveInv(d)' /\ operations'[j] = d
            BY <1>7, <5>1, <5>2 DEF OrderInv, DepartInv
          <5>4. RemoveInv(operations[j])'
            BY <5>3 DEF RemoveInv
          <5>5. operations[j].main # NoMain /\ operations[j].main # m
            BY <4>1, <4>3, <5>1, DepartingType
          <5>6. ASSUME NEW h \in (1 .. MaxOperations) \ {j}, Departs(h)'
                PROVE  operations'[h].main # operations'[j].main
            <6>1. CASE h = i
              BY <1>3, <3>2, <5>1, <5>5, <6>1
            <6>2. CASE h # i
              BY <3>2, <3>3, <5>1, <5>6, <6>2 DEF OrderInv, DepartInv
            <6> QED BY <6>1, <6>2
          <5> QED BY <1>1, <1>5, <1>m, <1>n, <5>1, <5>4, <5>5, <5>6 DEF OrderInv, DepartInv
        <4> QED BY <4>2, <4>3
      <3> QED BY <3>4, <3>6, <3>7
    <2> QED BY <2>1, <2>2
  <1>9. OperationInv(o)'
    BY <1>5, <1>n DEF OperationInv
  <1>10. QueueInv(o)'
    BY <1>1, <1>m DEF QueueInv, OrderInv
  <1>11. CommandInv(o)'
    BY <1>1, <1>5, <1>m DEF CommandInv, OrderInv, NoRequest
  <1>12. ServedIsActive(o)' /\ AddFollowsRemove(o)'
    BY <1>1 DEF ServedIsActive, WillServe, AddFollowsRemove
  <1>13. \A x \in Main \ initialized' : Stopped(x)'
    BY <1>1, <1>7 DEF OrderInv
  <1> QED BY <1>8, <1>9, <1>10, <1>11, <1>12, <1>13 DEF OrderInv

(* The commands that are left when the first one has arrived. *)
LEMMA Remaining ==
    ASSUME NEW s \in Seq({"add", "remove"}), s # <<>>
    PROVE  /\ Head(s) = s[1] /\ Tail(s) \in Seq({"add", "remove"}) /\ Len(s) \in Nat \ {0}
           /\ Len(Tail(s)) = Len(s) - 1 /\ (Tail(s) = <<>> <=> Len(s) = 1)
           /\ \A i \in 1 .. Len(Tail(s)) : Tail(s)[i] = s[i + 1]
           /\ Tail(s) # <<>> => Tail(s)[Len(Tail(s))] = s[Len(s)]
  <1>1. Tail(s) \in Seq({"add", "remove"}) /\ Len(s) \in Nat \ {0} /\ Len(Tail(s)) = Len(s) - 1
    BY HeadTailProperties, LenProperties, EmptySeq
  <1>2. \A i \in 1 .. Len(Tail(s)) : Tail(s)[i] = s[i + 1]
    BY <1>1, HeadTailProperties
  <1>3. Head(s) = s[1]
    OBVIOUS
  <1>4. Tail(s) = <<>> <=> Len(s) = 1
    BY <1>1, EmptySeq
  <1>5. ASSUME Tail(s) # <<>> PROVE Tail(s)[Len(Tail(s))] = s[Len(s)]
    <2>1. Len(Tail(s)) \in 1 .. Len(Tail(s)) /\ Len(Tail(s)) + 1 = Len(s)
      BY <1>1, <1>4, <1>5
    <2> QED BY <1>2, <2>1
  <1> QED BY <1>1, <1>2, <1>3, <1>4, <1>5

(* A command reaches a follower. *)
LEMMA FollowerKeepsOrder ==
    ASSUME TypeInv, NEW o, OrderInv(o), NEW m \in Mains, inbox[m] # <<>>, leader # m,
           inbox' = [inbox EXCEPT ![m] = Tail(@)],
           UNCHANGED <<deployment, leader, initialized, active, running, stranded, crons, entry, queued,
                       timers, operations, request>>
    PROVE  \E n : OrderInv(n)'
  <1>t. m \in Main /\ m # NoMain /\ inbox \in [Main -> Seq({"add", "remove"})]
    BY MainFacts DEF TypeInv, ManagerTypeOK
  <1>l. leader # NoMain => leader \in Main
    BY MainFacts DEF TypeInv, ManagerTypeOK
  <1>m. Mains' = Mains /\ isMultiMain' = isMultiMain /\ \A x : isLeader(x)' = isLeader(x)
    BY DEF Mains, isMultiMain, isLeader
  <1>1. /\ \A x : Stopped(x)' = Stopped(x) /\ Served(x)' = Served(x)
        /\ \A x : \A t, j : Runs(x, t, j)' = Runs(x, t, j)
        /\ \A y : RemoveInv(y)' <=> RemoveInv(y)
    BY SameTriggers
  <1>2. \A x \in Main \ {m} : inbox'[x] = inbox[x]
    BY <1>t
  <1>3. isMultiMain /\ initialized = Mains
    BY <1>t DEF OrderInv, CommandInv
  <1>4. Alone(o)' /\ SameDepartures
    BY AloneStays DEF OrderInv
  <1>d. DepartInv(o)' /\ \A x : DepartsFrom(x)' <=> DepartsFrom(x)
    BY <1>4, DeparturesStayIdle DEF OrderInv
  <1>5. OperationInv(o)'
    <2>1. AddInv(o) => AddInv(o)'
      BY <1>1, <1>m DEF AddInv
    <2>2. RemoveInv(o) => RemoveInv(o)'
      BY <1>1
    <2>3. CallerInv(o) => CallerInv(o)'
      BY <1>t, <1>m DEF CallerInv
    <2> QED BY <2>1, <2>2, <2>3 DEF OperationInv, OrderInv
  <1>6. Steady(o)'
    BY <1>1, <1>d, <1>m DEF Steady, OrderInv
  <1>7. QueueInv(o)'
    BY <1>1, <1>m DEF QueueInv, OrderInv
  <1>8. CommandInv(o)'
    BY <1>3, <1>m DEF CommandInv, OrderInv
  <1>9. ServedIsActive(o)'
    BY <1>1, <1>2, <1>l DEF ServedIsActive, WillServe, OrderInv
  <1>10. AddFollowsRemove(o)'
    BY <1>1, <1>2, <1>l DEF AddFollowsRemove, OrderInv
  <1>11. \A x \in Main \ initialized' : Stopped(x)'
    BY <1>1 DEF OrderInv
  <1> QED BY <1>4, <1>d, <1>5, <1>6, <1>7, <1>8, <1>9, <1>10, <1>11 DEF OrderInv

(* A command reaches a process; the leader carries it out. *)
LEMMA ReceiveKeepsOrder ==
    ASSUME TypeInv, TypeInv', NEW o, OrderInv(o), NEW m \in Mains, Receive(m), Orderly'
    PROVE  \E n : OrderInv(n)'
  <1>t. m \in Main /\ m # NoMain /\ inbox \in [Main -> Seq({"add", "remove"})]
    BY MainFacts DEF TypeInv, ManagerTypeOK
  <1>1. /\ UNCHANGED <<deployment, leader, initialized, active, running, stranded, crons, entry, queued,
                       timers, request>>
        /\ inbox[m] # <<>> /\ inbox' = [inbox EXCEPT ![m] = Tail(@)] /\ ~disturbed'
    BY DEF Receive, Orderly
  <1>2. CASE ~isLeader(m)
    BY <1>1, <1>2, FollowerKeepsOrder DEF Receive, isLeader
  <1>3. CASE isLeader(m)
    <2> DEFINE s == inbox[m]
    <2>m. Mains' = Mains /\ isMultiMain' = isMultiMain /\ \A x : isLeader(x)' = isLeader(x)
      BY <1>1 DEF Mains, isMultiMain, isLeader
    <2>1. s \in Seq({"add", "remove"}) /\ s # <<>> /\ leader = m /\ isLeader(m) = TRUE
      BY <1>1, <1>3, <1>t DEF isLeader
    <2>2. inbox'[m] = Tail(s)
      BY <1>1, <1>t
    <2>3. isMultiMain
      BY <1>1, <1>t DEF OrderInv, CommandInv
    <2>4. PICK n : /\ n = IF Head(s) = "add" THEN add(m, "command", "webhooks") ELSE remove(m, "command")
                   /\ starts(n)
      BY <1>3 DEF Receive
    <2>5. /\ n \in Operation /\ n.main = m /\ n.caller = "command"
          /\ \/ Head(s) = "add" /\ n.does = "add" /\ n.step = "webhooks" /\ n.triggers = isLeader(m)
             \/ Head(s) # "add" /\ n.does = "remove" /\ n.step = "check"
      BY <1>t, <2>4, AddType, RemoveType DEF Caller, Step
    <2>6. Alone(n)' /\ ~busy(n.main, n.caller) /\ SameDepartures
      BY <1>1, <2>4, <2>5, AloneStarts DEF OrderInv
    <2>7. o = NoOperation /\ initialized = Mains /\ o.main # m /\ ~DepartsFrom(m)
      BY <2>5, <2>6, NotBusy, PlaceIsNothing DEF OrderInv
    <2>d. DepartInv(n)' /\ \A x : DepartsFrom(x)' <=> DepartsFrom(x)
      BY <1>1, <2>5, <2>6, <2>7, DeparturesStayIdle DEF OrderInv
    <2>8. \A x : Stopped(x)' = Stopped(x) /\ Served(x)' = Served(x)
      BY <1>1, SameTriggers
    <2> HIDE DEF s
    <2>9. OperationInv(n)'
      <3>1. CallerInv(n)'
        BY <1>1, <2>3, <2>5, <2>7, <2>m DEF CallerInv
      <3>2. CASE Head(s) = "add"
        <4>1. s[1] = "add" /\ 1 \in 1 .. Len(s)
          BY <2>1, <3>2, Remaining
        <4>2. Stopped(m)
          BY <1>t, <2>1, <2>7, <4>1 DEF OrderInv, AddFollowsRemove, s
        <4>3. AddInv(n)'
          BY <2>5, <2>8, <2>m, <3>2, <4>2 DEF AddInv
        <4> QED BY <2>5, <3>1, <3>2, <4>3 DEF OperationInv
      <3>3. CASE Head(s) # "add"
        <4>1. RemoveInv(n)'
          BY <1>t, <2>5, <2>7, <2>8, <3>3, NothingInProgress DEF RemoveInv
        <4> QED BY <2>5, <3>1, <3>3, <4>1 DEF OperationInv
      <3> QED BY <3>2, <3>3
    <2>10. Steady(n)'
      BY <2>7, <2>8, <2>d, <2>m, NothingInProgress DEF Steady
    <2>11. QueueInv(n)'
      BY <1>1, <2>3, <2>m DEF QueueInv, OrderInv
    <2>12. CommandInv(n)'
      BY <1>1, <2>3, <2>7, <2>m, NothingInProgress DEF CommandInv
    <2>13. ServedIsActive(n)'
      <3>1. WillServe(n)' => WillServe(o)
        <4>1. CASE Tail(s) # <<>>
          BY <1>1, <1>t, <2>1, <2>2, <4>1, Remaining DEF WillServe, s
        <4>2. CASE Tail(s) = <<>>
          <5>1. s[Len(s)] = Head(s)
            BY <2>1, <4>2, Remaining
          <5>2. WillServe(n)' => n.does = "add"
            BY <1>1, <2>1, <2>2, <2>5, <4>2 DEF WillServe
          <5>3. n.does = "add" => s[Len(s)] = "add"
            BY <2>5, <5>1
          <5>4. s[Len(s)] = "add" => WillServe(o)
            BY <1>t, <2>1 DEF WillServe, s
          <5> QED BY <5>2, <5>3, <5>4
        <4> QED BY <4>1, <4>2
      <3> QED BY <1>1, <3>1 DEF ServedIsActive, OrderInv
    <2>14. AddFollowsRemove(n)'
      <3> SUFFICES ASSUME NEW i \in 1 .. Len(Tail(s)), Tail(s)[i] = "add"
                   PROVE  IF i > 1 THEN Tail(s)[i - 1] = "remove" ELSE n.does = "remove"
        BY <1>1, <2>1, <2>2, <2>5 DEF AddFollowsRemove
      <3>1. i + 1 \in 1 .. Len(s) /\ i + 1 > 1 /\ (i + 1) - 1 = i /\ s[i + 1] = "add"
        BY <2>1, Remaining
      <3>2. s[i] = "remove"
        BY <1>t, <2>1, <3>1 DEF OrderInv, AddFollowsRemove, s
      <3>3. CASE i > 1
        <4>1. i - 1 \in 1 .. Len(Tail(s)) /\ (i - 1) + 1 = i
          BY <2>1, <3>3, Remaining
        <4> QED BY <2>1, <3>2, <3>3, <4>1, Remaining
      <3>4. CASE i = 1
        <4>1. Head(s) = s[1] /\ s[1] = "remove"
          BY <2>1, <3>2, <3>4, Remaining
        <4>2. n.does = "remove"
          BY <2>5, <4>1
        <4> QED BY <3>4, <4>2
      <3> QED BY <2>1, <3>3, <3>4, Remaining
    <2>15. \A x \in Main \ initialized' : Stopped(x)'
      BY <1>1, <2>8 DEF OrderInv
    <2> QED BY <2>6, <2>d, <2>9, <2>10, <2>11, <2>12, <2>13, <2>14, <2>15 DEF OrderInv
  <1> QED BY <1>2, <1>3

-----------------------------------------------------------------------------
(* Each action keeps the invariant: updates *)

(* A user starts an update. *)
LEMMA UpdateKeepsOrder ==
    ASSUME TypeInv, NEW o, OrderInv(o), NEW target \in BOOLEAN, Update(target)
    PROVE  \E n : OrderInv(n)'
  <1>1. /\ UNCHANGED <<deployment, leader, initialized, active, running, stranded, crons, entry, queued,
                       timers, operations, inbox>>
        /\ request.step = "none" /\ request'.step = IF active THEN "clear" ELSE "write"
    BY DEF Update, NoRequest, history
  <1>m. Mains' = Mains /\ isMultiMain' = isMultiMain /\ \A x : isLeader(x)' = isLeader(x)
    BY <1>1 DEF Mains, isMultiMain, isLeader
  <1>2. /\ \A x : Stopped(x)' = Stopped(x) /\ Served(x)' = Served(x)
        /\ \A x : \A t, j : Runs(x, t, j)' = Runs(x, t, j)
        /\ \A y : RemoveInv(y)' <=> RemoveInv(y)
    BY <1>1, SameTriggers
  <1>3. Alone(o)' /\ SameDepartures
    BY <1>1, AloneStays DEF OrderInv
  <1>d. DepartInv(o)' /\ \A x : DepartsFrom(x)' <=> DepartsFrom(x)
    BY <1>1, <1>3, DeparturesStayIdle DEF OrderInv
  <1>4. OperationInv(o)'
    <2>1. AddInv(o) => AddInv(o)'
      BY <1>2, <1>m DEF AddInv
    <2>2. RemoveInv(o) => RemoveInv(o)'
      BY <1>2
    <2>3. CallerInv(o) => CallerInv(o)'
      BY <1>1, <1>m DEF CallerInv
    <2> QED BY <2>1, <2>2, <2>3 DEF OperationInv, OrderInv
  <1>5. Steady(o)'
    BY <1>2, <1>d, <1>m DEF Steady, OrderInv
  <1>6. QueueInv(o)'
    BY <1>1, <1>2, <1>m DEF QueueInv, OrderInv
  <1>7. CommandInv(o)'
    BY <1>1, <1>m DEF CommandInv, OrderInv
  <1>8. ServedIsActive(o)'
    BY <1>1, <1>2 DEF ServedIsActive, WillServe, OrderInv
  <1>9. AddFollowsRemove(o)'
    BY <1>1, <1>2 DEF AddFollowsRemove, OrderInv
  <1>10. \A x \in Main \ initialized' : Stopped(x)'
    BY <1>1, <1>2 DEF OrderInv
  <1> QED BY <1>3, <1>d, <1>4, <1>5, <1>6, <1>7, <1>8, <1>9, <1>10 DEF OrderInv

(* A command is published when nothing is in progress. *)
LEMMA PublishKeepsOrder ==
    ASSUME TypeInv, NEW o, OrderInv(o), isMultiMain, ~busy(NoMain, "update"),
           NEW command \in {"add", "remove"}, publish(command),
           command = "add" => /\ request.step = "write" /\ active'
                              /\ request'.step = "none",
           command = "remove" => request'.step = "write",
           UNCHANGED <<deployment, leader, initialized, running, stranded, crons, entry, queued, timers,
                       operations>>
    PROVE  \E n : OrderInv(n)'
  <1>t. inbox \in [Main -> Seq({"add", "remove"})] /\ (leader # NoMain => leader \in Main /\ leader \in Mains)
    BY MainFacts DEF TypeInv, ManagerTypeOK
  <1>m. Mains' = Mains /\ isMultiMain' = isMultiMain /\ \A x : isLeader(x)' = isLeader(x)
    BY DEF Mains, isMultiMain, isLeader
  <1>1. o = NoOperation /\ initialized = Mains
    BY NotBusy DEF OrderInv
  <1>2. \A x : Stopped(x)' = Stopped(x) /\ Served(x)' = Served(x)
    BY SameTriggers
  <1>3. Alone(o)' /\ SameDepartures
    BY AloneStays DEF OrderInv
  <1>d. DepartInv(o)' /\ \A x : DepartsFrom(x)' <=> DepartsFrom(x)
    BY <1>3, DeparturesStayIdle DEF OrderInv
  <1>4. OperationInv(o)'
    BY <1>1, NoOperationType DEF OperationInv
  <1>5. Steady(o)'
    BY <1>2, <1>d, <1>m DEF Steady, OrderInv
  <1>6. QueueInv(o)'
    BY <1>m DEF QueueInv, OrderInv
  <1>7. CommandInv(o)'
    BY <1>1, <1>m DEF CommandInv
  <1>8. \A x \in Main \ initialized' : Stopped(x)'
    BY <1>2 DEF OrderInv
  <1>9. ServedIsActive(o)' /\ AddFollowsRemove(o)'
    <2>1. CASE leader = NoMain
      BY <2>1 DEF ServedIsActive, WillServe, AddFollowsRemove
    <2>2. CASE leader # NoMain
      <3> DEFINE s == inbox[leader]
                 n == Append(s, command)
      <3>1. s \in Seq({"add", "remove"}) /\ leader \in Main /\ inbox'[leader] = n
        BY <1>t, <2>2 DEF publish
      <3> HIDE DEF s
      <3>2. /\ Len(s) \in Nat /\ Len(n) = Len(s) + 1 /\ n[Len(s) + 1] = command /\ n # <<>>
            /\ \A i \in 1 .. Len(s) : n[i] = s[i]
        <4>1. n \in Seq({"add", "remove"}) /\ Len(n) = Len(s) + 1 /\ Len(s) \in Nat
          BY <3>1, AppendProperties, LenProperties
        <4> QED BY <3>1, <4>1, AppendProperties, EmptySeq
      <3> HIDE DEF n
      <3>3. ServedIsActive(o)'
        BY <2>2, <3>1, <3>2 DEF ServedIsActive, WillServe
      <3>4. command = "add" =>
              IF Len(s) > 0 THEN s[Len(s)] = "remove" ELSE Stopped(leader)
        <4> SUFFICES ASSUME command = "add" PROVE IF Len(s) > 0 THEN s[Len(s)] = "remove" ELSE Stopped(leader)
          OBVIOUS
        <4>1. ~WillServe(o)
          BY DEF OrderInv, ServedIsActive
        <4>2. CASE Len(s) > 0
          <5>1. s # <<>> /\ Len(s) \in 1 .. Len(s) /\ s[Len(s)] \in {"add", "remove"}
            BY <3>1, <3>2, <4>2, EmptySeq, ElementOfSeq
          <5> QED BY <2>2, <4>1, <4>2, <5>1 DEF WillServe, s
        <4>3. CASE Len(s) = 0
          <5>1. s = <<>>
            BY <3>1, <4>3, EmptySeq
          <5>2. ~Served(leader)
            BY <1>1, <2>2, <4>1, <5>1, NoOperationType DEF WillServe, s
          <5> QED BY <1>1, <2>2, <3>1, <4>3, <5>2, NothingInProgress
        <4> QED BY <3>2, <4>2, <4>3
      <3>5. AddFollowsRemove(o)'
        <4> SUFFICES ASSUME NEW i \in 1 .. Len(n), n[i] = "add"
                     PROVE  IF i > 1 THEN n[i - 1] = "remove" ELSE Stopped(leader)
          BY <1>1, <1>2, <2>2, <3>1, NoOperationType DEF AddFollowsRemove
        <4>1. CASE i \in 1 .. Len(s)
          <5>1. s[i] = "add"
            BY <3>2, <4>1
          <5>2. IF i > 1 THEN s[i - 1] = "remove" ELSE Stopped(leader)
            BY <1>1, <2>2, <4>1, <5>1, NoOperationType DEF OrderInv, AddFollowsRemove, s
          <5>3. i > 1 => n[i - 1] = s[i - 1]
            BY <3>2, <4>1
          <5> QED BY <5>2, <5>3
        <4>2. CASE i = Len(s) + 1
          <5>1. command = "add"
            BY <3>2, <4>2
          <5>2. i > 1 => i - 1 = Len(s) /\ Len(s) > 0 /\ n[i - 1] = s[Len(s)]
            BY <3>2, <4>2
          <5>3. ~(i > 1) => ~(Len(s) > 0)
            BY <3>2, <4>2
          <5> QED BY <3>4, <5>1, <5>2, <5>3
        <4> QED BY <3>2, <4>1, <4>2
      <3> QED BY <3>3, <3>5
    <2> QED BY <2>1, <2>2
  <1> QED BY <1>3, <1>d, <1>4, <1>5, <1>6, <1>7, <1>8, <1>9 DEF OrderInv

(* The update removes the workflow that was active. *)
LEMMA UpdateRemovesKeepsOrder ==
    ASSUME TypeInv, TypeInv', NEW o, OrderInv(o), UpdateRemoves, Orderly'
    PROVE  \E n : OrderInv(n)'
  <1>t. FirstMain \in Main /\ FirstMain \in Mains /\ FirstMain # NoMain
    BY MainFacts
  <1>1. /\ UNCHANGED <<deployment, leader, initialized, active, running, stranded, crons, entry, queued,
                       timers>>
        /\ request.step = "clear" /\ ~disturbed'
    BY DEF UpdateRemoves, Orderly
  <1>m. Mains' = Mains /\ isMultiMain' = isMultiMain /\ \A x : isLeader(x)' = isLeader(x)
    BY <1>1 DEF Mains, isMultiMain, isLeader
  <1>2. CASE isMultiMain
    <2>1. /\ publish("remove") /\ operations' = operations /\ ~busy(NoMain, "update")
          /\ request' = [request EXCEPT !.step = "write"]
      BY <1>1, <1>2 DEF UpdateRemoves
    <2>2. request'.step = "write"
      BY <2>1 DEF TypeInv, ManagerTypeOK
    <2> QED BY <1>1, <1>2, <2>1, <2>2, PublishKeepsOrder
  <1>3. CASE ~isMultiMain
    <2> DEFINE m == FirstMain
    <2>1. /\ inbox' = inbox /\ request' = [request EXCEPT !.step = "removing"]
      BY <1>3 DEF UpdateRemoves
    <2>2. request'.step = "removing"
      BY <2>1 DEF TypeInv, ManagerTypeOK
    <2>3. PICK n : n = remove(m, "update") /\ starts(n)
      BY <1>3 DEF UpdateRemoves
    <2>4. /\ n \in Operation /\ n.main = m /\ n.does = "remove" /\ n.caller = "update"
          /\ n.step = "check"
      BY <1>t, <2>3, RemoveType DEF Caller
    <2>5. Alone(n)' /\ ~busy(n.main, n.caller) /\ SameDepartures
      BY <1>1, <2>3, <2>4, AloneStarts DEF OrderInv
    <2>6. o = NoOperation /\ initialized = Mains
      BY <2>4, <2>5, NotBusy DEF OrderInv
    <2>7. leader = m /\ Mains = {m} /\ (\A x \in Main : inbox[x] = <<>>) /\ \A x : ~DepartsFrom(x)
      BY <1>3, RegularSetup
    <2>d. DepartInv(n)' /\ \A x : ~DepartsFrom(x)'
      BY <1>3, <2>5, RegularSetup DEF DepartInv, SameDepartures, DepartsFrom
    <2>8. \A x : Stopped(x)' = Stopped(x) /\ Served(x)' = Served(x)
      BY <1>1, SameTriggers
    <2> HIDE DEF m
    <2>9. OperationInv(n)'
      <3>1. RemoveInv(n)'
        BY <1>t, <2>4, <2>6, <2>7, <2>8, NothingInProgress DEF RemoveInv, m
      <3>2. CallerInv(n)'
        BY <1>1, <1>3, <1>m, <2>2, <2>4, <2>6, <2>7 DEF CallerInv
      <3> QED BY <2>4, <3>1, <3>2 DEF OperationInv
    <2>10. Steady(n)'
      BY <1>m, <2>6, <2>7, <2>8, NothingInProgress DEF Steady
    <2>11. QueueInv(n)'
      BY <1>1, <1>m, <2>2, <2>6, <2>8, NothingInProgress DEF QueueInv, OrderInv
    <2>12. CommandInv(n)'
      BY <1>1, <1>m, <2>1, <2>4, <2>7 DEF CommandInv, OrderInv
    <2>13. ServedIsActive(n)' /\ AddFollowsRemove(n)'
      BY <1>1, <1>t, <2>1, <2>4, <2>7 DEF ServedIsActive, WillServe, AddFollowsRemove, m
    <2>14. \A x \in Main \ initialized' : Stopped(x)'
      BY <1>1, <2>8 DEF OrderInv
    <2> QED BY <2>5, <2>d, <2>9, <2>10, <2>11, <2>12, <2>13, <2>14 DEF OrderInv
  <1> QED BY <1>2, <1>3

(* The update writes the row, and adds the workflow if it is to be active. *)
LEMMA UpdateWritesKeepsOrder ==
    ASSUME TypeInv, TypeInv', NEW o, OrderInv(o), UpdateWrites, Orderly'
    PROVE  \E n : OrderInv(n)'
  <1>t. FirstMain \in Main /\ FirstMain \in Mains /\ FirstMain # NoMain
    BY MainFacts
  <1>1. /\ UNCHANGED <<deployment, leader, initialized, running, stranded, crons, entry, queued, timers>>
        /\ request.step = "write" /\ ~disturbed' /\ active' = request.target
    BY DEF UpdateWrites, Orderly
  <1>m. Mains' = Mains /\ isMultiMain' = isMultiMain /\ \A x : isLeader(x)' = isLeader(x)
    BY <1>1 DEF Mains, isMultiMain, isLeader
  <1>2. /\ \A x : Stopped(x)' = Stopped(x) /\ Served(x)' = Served(x)
        /\ \A x : \A t, j : Runs(x, t, j)' = Runs(x, t, j)
        /\ \A y : RemoveInv(y)' <=> RemoveInv(y)
    BY <1>1, SameTriggers
  <1>3. ~WillServe(o) /\ \A m \in Mains : queued[m] = "none"
    BY <1>1 DEF OrderInv, ServedIsActive, QueueInv
  <1>4. CASE ~request.target
    <2>1. request'.step = "none" /\ UNCHANGED <<inbox, operations>>
      BY <1>4 DEF UpdateWrites, NoRequest
    <2>2. o.does # "none" /\ CallerInv(o) => o.caller # "update"
      BY <1>1 DEF CallerInv
    <2>3. Alone(o)' /\ SameDepartures
      BY <2>1, AloneStays DEF OrderInv
    <2>d. DepartInv(o)' /\ \A x : DepartsFrom(x)' <=> DepartsFrom(x)
      BY <1>1, <2>3, DeparturesStayIdle DEF OrderInv
    <2>4. OperationInv(o)'
      <3>1. AddInv(o) => AddInv(o)'
        BY <1>2, <1>m DEF AddInv
      <3>2. RemoveInv(o) => RemoveInv(o)'
        BY <1>2
      <3>3. o.does # "none" /\ CallerInv(o) => CallerInv(o)'
        BY <1>1, <1>m, <2>1, <2>2 DEF CallerInv
      <3> QED BY <3>1, <3>2, <3>3 DEF OperationInv, OrderInv
    <2>5. Steady(o)'
      BY <1>2, <1>m, <2>d DEF Steady, OrderInv
    <2>6. QueueInv(o)'
      BY <1>1, <1>3, <1>m DEF QueueInv, OrderInv
    <2>7. CommandInv(o)'
      BY <1>1, <1>m, <2>1 DEF CommandInv, OrderInv
    <2>8. ServedIsActive(o)' /\ AddFollowsRemove(o)'
      BY <1>1, <1>2, <1>3, <2>1 DEF ServedIsActive, WillServe, AddFollowsRemove, OrderInv
    <2>9. \A x \in Main \ initialized' : Stopped(x)'
      BY <1>1, <1>2 DEF OrderInv
    <2> QED BY <2>3, <2>d, <2>4, <2>5, <2>6, <2>7, <2>8, <2>9 DEF OrderInv
  <1>5. CASE request.target /\ isMultiMain
    <2>1. publish("add") /\ operations' = operations /\ ~busy(NoMain, "update") /\ request' = NoRequest /\ active'
      BY <1>1, <1>5 DEF UpdateWrites
    <2>2. request'.step = "none"
      BY <2>1 DEF NoRequest
    <2> QED BY <1>1, <1>5, <2>1, <2>2, PublishKeepsOrder
  <1>6. CASE request.target /\ ~isMultiMain
    <2> DEFINE m == FirstMain
    <2>1. inbox' = inbox /\ request' = [request EXCEPT !.step = "adding"] /\ active'
      BY <1>1, <1>6 DEF UpdateWrites
    <2>2. request'.step = "adding"
      BY <2>1 DEF TypeInv, ManagerTypeOK
    <2>3. PICK n : n = add(m, "update", "webhooks") /\ starts(n)
      BY <1>6 DEF UpdateWrites
    <2>4. /\ n \in Operation /\ n.main = m /\ n.does = "add" /\ n.caller = "update"
          /\ n.step = "webhooks" /\ n.triggers = isLeader(m)
      BY <1>t, <2>3, AddType DEF Caller, Step
    <2>5. Alone(n)' /\ ~busy(n.main, n.caller) /\ SameDepartures
      BY <1>1, <2>3, <2>4, AloneStarts DEF OrderInv
    <2>6. o = NoOperation /\ initialized = Mains
      BY <2>4, <2>5, NotBusy DEF OrderInv
    <2>7. leader = m /\ Mains = {m} /\ (\A x \in Main : inbox[x] = <<>>) /\ \A x : ~DepartsFrom(x)
      BY <1>6, RegularSetup
    <2>d. DepartInv(n)' /\ \A x : ~DepartsFrom(x)'
      BY <1>6, <2>5, RegularSetup DEF DepartInv, SameDepartures, DepartsFrom
    <2>8. Stopped(m)
      <3>1. ~Served(m)
        BY <1>3, <1>t, <2>6, <2>7, NoOperationType DEF WillServe
      <3> QED BY <1>t, <2>6, <2>7, <3>1, NothingInProgress
    <2> HIDE DEF m
    <2>9. OperationInv(n)'
      <3>1. AddInv(n)'
        BY <1>2, <1>m, <2>4, <2>8 DEF AddInv
      <3>2. CallerInv(n)'
        BY <1>1, <1>6, <1>m, <2>2, <2>4, <2>6, <2>7 DEF CallerInv
      <3> QED BY <2>4, <3>1, <3>2 DEF OperationInv
    <2>10. Steady(n)'
      BY <1>2, <1>m, <2>6, <2>7, NothingInProgress DEF Steady
    <2>11. QueueInv(n)'
      BY <1>1, <1>3, <1>m DEF QueueInv, OrderInv
    <2>12. CommandInv(n)'
      BY <1>1, <1>m, <2>1, <2>4, <2>7 DEF CommandInv, OrderInv
    <2>13. ServedIsActive(n)' /\ AddFollowsRemove(n)'
      BY <1>1, <1>t, <2>1, <2>2, <2>7 DEF ServedIsActive, WillServe, AddFollowsRemove, m
    <2>14. \A x \in Main \ initialized' : Stopped(x)'
      BY <1>1, <1>2 DEF OrderInv
    <2> QED BY <2>5, <2>d, <2>9, <2>10, <2>11, <2>12, <2>13, <2>14 DEF OrderInv
  <1> QED BY <1>4, <1>5, <1>6

-----------------------------------------------------------------------------
(* The invariant, and what follows from it *)

SafetyInv == TypeInv /\ (Orderly => \E o : OrderInv(o))

(* A step that changes nothing. *)
LEMMA StutterKeepsOrder ==
    ASSUME TypeInv, NEW o, OrderInv(o), UNCHANGED vars
    PROVE  OrderInv(o)'
  <1>1. UNCHANGED <<deployment, leader, initialized, active, running, stranded, crons, entry, queued,
                    timers, operations, inbox, request>>
    BY DEF vars
  <1>m. Mains' = Mains /\ isMultiMain' = isMultiMain /\ \A x : isLeader(x)' = isLeader(x)
    BY <1>1 DEF Mains, isMultiMain, isLeader
  <1>2. /\ \A x : Stopped(x)' = Stopped(x) /\ Served(x)' = Served(x)
        /\ \A x : \A t, j : Runs(x, t, j)' = Runs(x, t, j)
        /\ \A y : RemoveInv(y)' <=> RemoveInv(y)
    BY <1>1, SameTriggers
  <1>3. Alone(o)' /\ SameDepartures
    BY <1>1, AloneStays DEF OrderInv
  <1>4. DepartInv(o)' /\ \A x : DepartsFrom(x)' <=> DepartsFrom(x)
    BY <1>1, <1>3, DeparturesStayIdle DEF OrderInv
  <1>5. OperationInv(o)'
    <2>1. AddInv(o) => AddInv(o)'
      BY <1>2, <1>m DEF AddInv
    <2>2. CallerInv(o) => CallerInv(o)'
      BY <1>1, <1>m DEF CallerInv
    <2> QED BY <1>2, <2>1, <2>2 DEF OperationInv, OrderInv
  <1>6. Steady(o)'
    BY <1>2, <1>4, <1>m DEF Steady, OrderInv
  <1>7. QueueInv(o)' /\ CommandInv(o)'
    BY <1>1, <1>2, <1>m DEF QueueInv, CommandInv, OrderInv
  <1>8. ServedIsActive(o)' /\ AddFollowsRemove(o)'
    BY <1>1, <1>2 DEF ServedIsActive, WillServe, AddFollowsRemove, OrderInv
  <1>9. \A x \in Main \ initialized' : Stopped(x)'
    BY <1>1, <1>2 DEF OrderInv
  <1> QED BY <1>3, <1>4, <1>5, <1>6, <1>7, <1>8, <1>9 DEF OrderInv

(* At first nothing runs and nothing is in progress. *)
LEMMA InitOrder == Init => OrderInv(NoOperation)
  <1> SUFFICES ASSUME Init PROVE OrderInv(NoOperation)
    OBVIOUS
  <1>1. \A m \in Main : Stopped(m)
    BY DEF Init, Stopped, Live
  <1>n. \A j \in 1 .. MaxOperations : operations[j] = NoOperation /\ ~Departs(j)
    BY NoOperationType DEF Init, Departs
  <1>2. /\ Alone(NoOperation) /\ OperationInv(NoOperation) /\ Steady(NoOperation)
        /\ DepartInv(NoOperation)
    BY <1>1, <1>n, NoOperationType DEF Alone, OperationInv, Steady, DepartInv
  <1>3. QueueInv(NoOperation) /\ CommandInv(NoOperation)
    BY MainFacts DEF Init, QueueInv, CommandInv, NoRequest
  <1>4. ServedIsActive(NoOperation)
    <2>1. leader # NoMain => leader \in Main
      BY MainFacts DEF Init
    <2>2. inbox = [m \in Main |-> <<>>] /\ request.step = "none"
      BY DEF Init, NoRequest
    <2> QED BY <1>1, <2>1, <2>2, NoOperationType, Conditions DEF ServedIsActive, WillServe
  <1>5. AddFollowsRemove(NoOperation)
    <2>1. leader # NoMain => leader \in Main
      BY MainFacts DEF Init
    <2> QED BY <2>1 DEF Init, AddFollowsRemove
  <1> QED BY <1>1, <1>2, <1>3, <1>4, <1>5 DEF OrderInv

(* Every step keeps the invariant. *)
LEMMA SafetyStep == SafetyInv /\ [Next]_vars => SafetyInv'
  <1> SUFFICES ASSUME SafetyInv, [Next]_vars, Orderly' PROVE \E n : OrderInv(n)'
    BY TypeStep DEF SafetyInv
  <1>1. TypeInv /\ TypeInv'
    BY TypeStep DEF SafetyInv
  <1>2. Orderly
    BY <1>1, OrderlyBefore
  <1>3. PICK o : OrderInv(o)
    BY <1>2 DEF SafetyInv
  <1>4. ASSUME NEW k \in 1 .. MaxOperations, Proceed(k) PROVE \E n : OrderInv(n)'
    <2>1. CASE Load(k) \/ AddWebhooks(k) \/ RunTrigger(k) \/ ActivatePolling(k)
      BY <1>1, <1>3, <2>1, LoadKeepsOrder, AddWebhooksKeepsOrder, RunTriggerKeepsOrder,
         ActivatePollingKeepsOrder
    <2>2. CASE RemoveBegins(k)
      BY <1>1, <1>3, <2>2, RemoveBeginsKeepsOrder, DepartingBegins
    <2>3. CASE RemoveEnds(k)
      BY <1>1, <1>3, <2>3, RemoveEndsKeepsOrder
    <2> QED BY <1>4, <2>1, <2>2, <2>3 DEF Proceed
  <1>5. ASSUME NEW k \in 1 .. MaxOperations, AddFails(k) \/ CloseFails(k) PROVE \E n : OrderInv(n)'
    BY <1>1, <1>3, <1>5, AddFailsKeepsOrder, CloseFailsKeepsOrder
  <1>6. ASSUME NEW m \in Mains,
               RetryFires(m) \/ EmitError(m) \/ InitManager(m) \/ Takeover(m) \/ Stepdown(m) \/ Receive(m)
        PROVE  \E n : OrderInv(n)'
    BY <1>1, <1>3, <1>6, RetryFiresKeepsOrder, EmitErrorKeepsOrder, InitManagerKeepsOrder,
       TakeoverKeepsOrder, StepdownKeepsOrder, ReceiveKeepsOrder
  <1>7. ASSUME NEW target \in BOOLEAN, Update(target) PROVE \E n : OrderInv(n)'
    BY <1>1, <1>3, <1>7, UpdateKeepsOrder
  <1>8. CASE UpdateRemoves \/ UpdateWrites
    BY <1>1, <1>3, <1>8, UpdateRemovesKeepsOrder, UpdateWritesKeepsOrder
  <1>9. CASE UNCHANGED vars
    BY <1>1, <1>3, <1>9, StutterKeepsOrder
  <1> QED BY <1>4, <1>5, <1>6, <1>7, <1>8, <1>9 DEF Next

(* The invariant holds in every state. *)
LEMMA SafetyHolds == Spec => []SafetyInv
  <1>1. Init => SafetyInv
    BY InitType, InitOrder DEF SafetyInv
  <1> QED BY <1>1, SafetyStep, PTL DEF Spec

(* When all is quiet, the leader at most serves the workflow. *)
LEMMA QuietProcesses ==
    ASSUME SafetyInv, Quiet, Orderly, NEW m \in Mains
    PROVE  \/ Stopped(m)
           \/ isLeader(m) /\ Served(m) /\ active
  <1>1. PICK o : OrderInv(o)
    BY DEF SafetyInv
  <1>2. \A j \in 1 .. MaxOperations : operations[j].does = "none"
    BY DEF Quiet, idle
  <1>3. o = NoOperation
    BY <1>1, <1>2 DEF OrderInv, Alone
  <1>4. Stopped(m) \/ (isLeader(m) /\ Served(m))
    <2>1. TypeInv /\ ~DepartsFrom(m)
      BY <1>2, DepartingType DEF SafetyInv, DepartsFrom
    <2> QED BY <1>1, <1>3, <2>1, NothingInProgress, MainFacts
  <1>5. ASSUME isLeader(m), Served(m) PROVE active
    <2>1. m # NoMain /\ o.main # m /\ inbox[m] = <<>>
      BY <1>3, PlaceIsNothing DEF Quiet
    <2>2. WillServe(o)
      BY <1>5, <2>1 DEF WillServe, isLeader
    <2> QED BY <1>1, <2>2 DEF OrderInv, ServedIsActive
  <1> QED BY <1>4, <1>5

(***************************************************************************)
(* When all is quiet, no trigger and no cron job of an inactive workflow   *)
(* is left in any process, but triggers whose activation or whose closing  *)
(* failed: update removes them, and the retry of an activation that failed *)
(* before (ActiveWorkflowManager.remove), and whoever steps down removes   *)
(* its own.  For executions in which operations have not overlapped, but   *)
(* for removals of processes that have stepped down, in which no trigger   *)
(* has failed while the workflow was inactive and, with several main       *)
(* processes, nothing has failed.                                          *)
(***************************************************************************)
THEOREM InactiveStops == Spec => []InactiveIsStopped
  <1>1. SafetyInv => InactiveIsStopped
    <2> SUFFICES ASSUME SafetyInv, Quiet, ~active, Orderly, NEW m \in Mains
                 PROVE  running[m] \subseteq stranded[m] /\ crons[m] = 0
      BY DEF InactiveIsStopped
    <2>1. Stopped(m)
      BY QuietProcesses
    <2> QED BY <2>1 DEF Stopped, Live
  <1> QED BY <1>1, SafetyHolds, PTL

(***************************************************************************)
(* When all is quiet, only the leader runs triggers and pollers, and each  *)
(* of them once, beside triggers whose activation or whose closing failed  *)
(* (shouldAddTriggersAndPollers), for the executions that InactiveStops is *)
(* about.                                                                  *)
(***************************************************************************)
THEOREM NothingRunsTwice == Spec => []NotDuplicated
  <1>1. SafetyInv => NotDuplicated
    <2> SUFFICES ASSUME SafetyInv, Quiet, Orderly, NEW m \in Mains
                 PROVE  IF isLeader(m)
                        THEN Cardinality(running[m] \ stranded[m]) <= 1 /\ crons[m] <= 1
                        ELSE running[m] \subseteq stranded[m] /\ crons[m] = 0
      BY DEF NotDuplicated, UniqueTriggers
    <2>1. CASE Stopped(m)
      <3>1. running[m] \ stranded[m] = {} /\ crons[m] = 0 /\ Cardinality({}) = 0
        BY <2>1, FS_EmptySet DEF Stopped, Live
      <3>2. running[m] \subseteq stranded[m] /\ Cardinality(running[m] \ stranded[m]) = 0
        BY <3>1
      <3> QED BY <3>1, <3>2
    <2>2. CASE isLeader(m) /\ Served(m)
      <3>1. PICK t \in Trigger : running[m] \ stranded[m] = {t} /\ crons[m] = 1
        BY <2>2 DEF Served, Runs, Live
      <3>2. Cardinality({t}) = 1
        BY FS_Singleton
      <3> QED BY <2>2, <3>1, <3>2
    <2> QED BY <2>1, <2>2, QuietProcesses
  <1> QED BY <1>1, SafetyHolds, PTL

=============================================================================
