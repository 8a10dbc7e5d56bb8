----------------------- MODULE LeaderServicesProofs -----------------------
(***************************************************************************)
(* Proofs about LeaderServices, for any number of processes, crashes,      *)
(* shutdowns, lost keys and broken connections.                            *)
(*                                                                         *)
(* The services add to the election without changing it, so that what is   *)
(* proved of MultiMainSetup holds of the composition.  That a follower is  *)
(* idle is proved for any number of overlapping checks, of every process   *)
(* that never led when a SET NX of its own was answered, and that a leader *)
(* serves of all.                                                          *)
(***************************************************************************)
EXTENDS LeaderServices, MultiMainSetupProofs

-----------------------------------------------------------------------------
(* The election *)

(* Every step of the composition is a step of the election or leaves it    *)
(* alone.                                                                  *)
LEMMA StepsOfElection == [ServicesNext]_vars => [Next]_electionVars
  BY DEF ServicesNext, ServicesHandle, Election, StopProcess, InitService,
     QueueRecoveryFires,
         QueueRecoveryEnds, vars, Next, Handle

(***************************************************************************)
(* The composition implements the election: no service interferes with the *)
(* key, the roles or the commands.                                         *)
(***************************************************************************)
THEOREM ServicesImplementElection == ServicesSpec => Spec
  <1>1. InitServices => Init
    BY DEF InitServices
  <1> QED BY <1>1, StepsOfElection, PTL DEF ServicesSpec, Spec

-----------------------------------------------------------------------------
(* Types *)

(* The services by name. *)
LEMMA Services == Service = {"waitTracker", "insights", "queueRecovery", "pruning"}
  <1>1. Len(initOrder) = 4 /\ 1 .. Len(initOrder) = {1, 2, 3, 4}
    BY DEF initOrder
  <1>2. /\ initOrder[1] = "waitTracker" /\ initOrder[2] = "insights"
        /\ initOrder[3] = "queueRecovery" /\ initOrder[4] = "pruning"
    BY DEF initOrder
  <1> QED BY <1>1, <1>2 DEF Service

(* Timers of a service: as many as are set, and one that it refers to only *)
(* if there is one.                                                        *)
Sound(t) == t \in Timers /\ (t.held => t.set > 0)

(* Starting and stopping a service keeps its timers sound. *)
LEMMA SoundService ==
    ASSUME NEW t, Sound(t), NEW s, NEW leads
    PROVE  /\ Sound(setTimer(t))
           /\ Sound(clearTimer(t))
           /\ Sound(startService(s, t))
           /\ Sound(stopService(s, leads, t))
  <1>1. ASSUME NEW u, Sound(u) PROVE Sound(setTimer(u)) /\ Sound(clearTimer(u))
    <2>1. u.set \in Nat /\ u.held \in BOOLEAN
      BY <1>1 DEF Sound, Timers
    <2>2. u.set + 1 \in Nat /\ u.set + 1 > 0
      BY <2>1
    <2>3. (IF u.held THEN u.set - 1 ELSE u.set) \in Nat
      BY <1>1, <2>1 DEF Sound
    <2> QED BY <2>2, <2>3 DEF Sound, Timers, setTimer, clearTimer
  <1> QED BY <1>1 DEF startService, stopService

(* The timers of all services are sound. *)
TimersSound == \A i \in Instance : \A s \in Service : Sound(timers[i][s])

ServicesInv ==
    /\ ServicesTypeOK
    /\ TimersSound

(* Timers keep their type if those of one process are sound. *)
LEMMA OneProcess ==
    ASSUME ServicesInv, NEW i \in Instance, NEW f \in [Service -> Timers],
           timers' = [timers EXCEPT ![i] = f],
           \A s \in Service : Sound(f[s])
    PROVE  timers' \in [Instance -> [Service -> Timers]] /\ TimersSound'
  <1>1. timers \in [Instance -> [Service -> Timers]]
    BY DEF ServicesInv, ServicesTypeOK
  <1>2. timers' \in [Instance -> [Service -> Timers]]
    BY <1>1
  <1>3. \A k \in Instance : timers'[k] = IF k = i THEN f ELSE timers[k]
    BY <1>1
  <1> QED BY <1>2, <1>3 DEF ServicesInv, TimersSound

(* Only processes of the setup are marked. *)
LEMMA CrossedProcesses ==
    ASSUME crossed \subseteq Instance, [ServicesNext]_vars
    PROVE  crossed' \subseteq Instance
  BY DEF ServicesNext, ServicesHandle, marksCrossed, Election, StopProcess, InitService,
         QueueRecoveryFires, QueueRecoveryEnds, vars, serviceVars

(***************************************************************************)
(* Every step of the services keeps the types and the timers sound.        *)
(***************************************************************************)
LEMMA NextServicesInv == ServicesInv /\ [ServicesNext]_vars => ServicesInv'
  <1> SUFFICES ASSUME ServicesInv, [ServicesNext]_vars PROVE ServicesInv'
    OBVIOUS
  <1>t. /\ listening \in [Instance -> SUBSET Service]
        /\ timers \in [Instance -> [Service -> Timers]]
        /\ recovering \in [Instance -> Nat]
        /\ \A i \in Instance : \A s \in Service : Sound(timers[i][s])
    BY DEF ServicesInv, ServicesTypeOK, TimersSound
  <1>m. crossed' \subseteq Instance
    BY CrossedProcesses DEF ServicesInv, ServicesTypeOK
  <1>e. TypeOK'
    BY StepsOfElection, NextTypeOK DEF ServicesInv, ServicesTypeOK
  <1>1. ASSUME UNCHANGED <<listening, timers, recovering>> PROVE ServicesInv'
    BY <1>e, <1>m, <1>t, <1>1 DEF ServicesInv, ServicesTypeOK, TimersSound
  <1>2. ASSUME NEW i \in Instance, NEW f,
               f = [s \in Service |-> f[s]],
               timers' = [timers EXCEPT ![i] = f],
               \A s \in Service : Sound(f[s]),
               listening' \in [Instance -> SUBSET Service],
               recovering' \in [Instance -> Nat]
        PROVE  ServicesInv'
    <2>1. f \in [Service -> Timers]
      BY <1>2 DEF Sound
    <2> QED BY <1>e, <1>m, <1>2, <2>1, OneProcess DEF ServicesInv, ServicesTypeOK
  <1>3. ASSUME NEW i \in Instance, onStepdown(i) PROVE ServicesInv'
    <2> DEFINE f == [s \in Service |->
                        IF s \in listening[i] THEN stopService(s, FALSE, timers[i][s])
                        ELSE timers[i][s]]
    <2>1. timers' = [timers EXCEPT ![i] = f] /\ UNCHANGED <<listening, recovering>>
      BY <1>3 DEF onStepdown
    <2>2. \A s \in Service : Sound(f[s])
      BY <1>t, SoundService
    <2> QED BY <1>2, <1>t, <2>1, <2>2
  <1>4. ASSUME NEW i \in Instance, onTakeover(i) PROVE ServicesInv'
    <2> DEFINE f == [s \in Service |->
                        IF s \in listening[i] THEN startService(s, timers[i][s])
                        ELSE timers[i][s]]
    <2>1. timers' = [timers EXCEPT ![i] = f] /\ UNCHANGED <<listening, recovering>>
      BY <1>4 DEF onTakeover
    <2>2. \A s \in Service : Sound(f[s])
      BY <1>t, SoundService
    <2> QED BY <1>2, <1>t, <2>1, <2>2
  <1>5. ASSUME NEW i \in Instance, StopProcess(i) PROVE ServicesInv'
    <2> DEFINE f == [s \in Service |-> stopService(s, isLeader(i), timers[i][s])]
    <2>1. timers' = [timers EXCEPT ![i] = f] /\ UNCHANGED <<listening, recovering>>
      BY <1>5 DEF StopProcess
    <2>2. \A s \in Service : Sound(f[s])
      BY <1>t, SoundService
    <2> QED BY <1>2, <1>t, <2>1, <2>2
  <1>6. ASSUME NEW i \in Instance, NEW s \in Service, NEW t, Sound(t),
               timers' = [timers EXCEPT ![i][s] = t],
               listening' \in [Instance -> SUBSET Service],
               recovering' \in [Instance -> Nat]
        PROVE  ServicesInv'
    <2> DEFINE f == [timers[i] EXCEPT ![s] = t]
    <2>1. timers' = [timers EXCEPT ![i] = f]
      BY <1>t, <1>6
    <2>2. \A u \in Service : f[u] = IF u = s THEN t ELSE timers[i][u]
      BY <1>t
    <2>3. \A u \in Service : Sound(f[u])
      BY <1>t, <1>6, <2>2
    <2>4. f = [u \in Service |-> f[u]]
      BY <1>t
    <2> HIDE DEF f
    <2> QED BY <1>2, <1>6, <2>1, <2>3, <2>4
  <1>7. ASSUME NEW i \in Instance, NEW s \in Service, InitService(i, s) PROVE ServicesInv'
    <2>1. listening' \in [Instance -> SUBSET Service] /\ recovering' \in [Instance -> Nat]
      BY <1>t, <1>7 DEF InitService
    <2>2. CASE isLeader(i)
      <3>1. timers' = [timers EXCEPT ![i][s] = startService(s, timers[i][s])]
        BY <1>7, <1>t, <2>2 DEF InitService
      <3>2. Sound(startService(s, timers[i][s]))
        BY <1>t, SoundService
      <3> QED BY <1>6, <2>1, <3>1, <3>2
    <2>3. CASE ~isLeader(i)
      BY <1>7, <1>e, <1>m, <1>t, <2>1, <2>3
         DEF InitService, ServicesInv, ServicesTypeOK, TimersSound
    <2> QED BY <2>2, <2>3
  <1>8. ASSUME NEW i \in Instance, QueueRecoveryFires(i) PROVE ServicesInv'
    <2> DEFINE t == timers[i]["queueRecovery"]
    <2>1. "queueRecovery" \in Service
      BY Services
    <2>2. t.set \in Nat /\ t.held \in BOOLEAN /\ (t.held => t.set > 0)
      BY <1>t, <2>1 DEF Sound, Timers
    <2>3. PICK held \in BOOLEAN :
              /\ timers' = [timers EXCEPT ![i]["queueRecovery"] = [set |-> t.set - 1, held |-> held]]
              /\ t.set > (IF held THEN 1 ELSE 0)
      BY <1>8, <2>2 DEF QueueRecoveryFires
    <2>4. Sound([set |-> t.set - 1, held |-> held])
      BY <2>2, <2>3 DEF Sound, Timers
    <2>5. listening' \in [Instance -> SUBSET Service] /\ recovering' \in [Instance -> Nat]
      BY <1>t, <1>8 DEF QueueRecoveryFires
    <2> QED BY <1>6, <2>1, <2>3, <2>4, <2>5
  <1>9. ASSUME NEW i \in Instance, QueueRecoveryEnds(i) PROVE ServicesInv'
    <2>1. "queueRecovery" \in Service
      BY Services
    <2>2. timers' = [timers EXCEPT ![i]["queueRecovery"] = setTimer(timers[i]["queueRecovery"])]
      BY <1>9, <1>t, <2>1 DEF QueueRecoveryEnds
    <2>3. Sound(setTimer(timers[i]["queueRecovery"]))
      BY <1>t, <2>1, SoundService
    <2>4. listening' \in [Instance -> SUBSET Service] /\ recovering' \in [Instance -> Nat]
      BY <1>t, <1>9 DEF QueueRecoveryEnds
    <2> QED BY <1>6, <2>1, <2>2, <2>3, <2>4
  <1>10. CASE UNCHANGED vars
    BY <1>1, <1>10 DEF vars, serviceVars
  <1> QED
    BY <1>1, <1>3, <1>4, <1>5, <1>7, <1>8, <1>9, <1>10
       DEF ServicesNext, ServicesHandle, Election, serviceVars

(* No service has a timer at the start. *)
LEMMA InitServicesInv == InitServices => ServicesInv
  <1> SUFFICES ASSUME InitServices PROVE ServicesInv
    OBVIOUS
  <1>1. TypeOK
    BY BoundsAssumption DEF InitServices, Init, TypeOK
  <1>2. Sound([set |-> 0, held |-> FALSE])
    BY DEF Sound, Timers
  <1>3. TimersSound
    BY <1>2 DEF InitServices, TimersSound
  <1>4. timers \in [Instance -> [Service -> Timers]]
    BY <1>2 DEF InitServices, Sound
  <1> QED BY <1>1, <1>3, <1>4 DEF InitServices, ServicesInv, ServicesTypeOK

(***************************************************************************)
(* Type correctness: a service never clears a timer that it does not have, *)
(* whichever of takeover, stepdown, shutdown and its own timer comes when. *)
(***************************************************************************)
THEOREM ServicesTypeCorrect == ServicesSpec => []ServicesTypeOK
  <1>1. ServicesInv => ServicesTypeOK
    BY DEF ServicesInv
  <1> QED BY <1>1, InitServicesInv, NextServicesInv, PTL DEF ServicesSpec

-----------------------------------------------------------------------------
(* Followers *)

Idle == [set |-> 0, held |-> FALSE]
Busy == [set |-> 1, held |-> TRUE]

(* A process goes on, from its start until it stops or ends. *)
GoesOn(i) == process[i] \in {"new", "booting", "up"}

(* A service that listens has a timer if the process leads, and else none. *)
ServesRole(i) ==
    \A s \in {"waitTracker", "insights"} :
        timers[i][s] = IF isLeader(i) /\ s \in listening[i] THEN Busy ELSE Idle

(* Insights are started anew whenever they are started. *)
OneOfInsights(i) == timers[i]["insights"] \in {Idle, Busy}

InStep(i) == GoesOn(i) => OneOfInsights(i) /\ (i \notin crossed => ServesRole(i))

AllInStep == \A i \in Instance : InStep(i)

IdleInv == ServicesInv /\ AllInStep

(* Whoever goes on after a step has gone on before it. *)
LEMMA NobodyReturns ==
    ASSUME ServicesInv, [ServicesNext]_vars, NEW i \in Instance, GoesOn(i)'
    PROVE  GoesOn(i)
  <1>1. process \in [Instance -> {"new", "booting", "up", "stopping", "gone"}]
    BY DEF ServicesInv, ServicesTypeOK, TypeOK
  <1>2. CASE UNCHANGED process
    BY <1>2 DEF GoesOn
  <1>3. ASSUME NEW k \in Instance,
               InitSetup(k) \/ TakeOver(k) \/ Follow(k) \/ Shutdown(k) \/ Exit(k) \/ Crash(k)
        PROVE  GoesOn(i)
    BY <1>1, <1>3 DEF GoesOn, InitSetup, TakeOver, Follow, initialized, Shutdown, Exit, Crash, ends
  <1>4. [Next]_electionVars
    BY StepsOfElection
  <1> QED BY <1>2, <1>3, <1>4 DEF Next, Handle, Expire, CheckLeader, Renew, StepDown, StayFollower,
             Vacant, Acknowledged, Execute, Reconnect, electionVars

(* A process stays in step while its role and its timers stay as they are. *)
LEMMA OthersInStep ==
    ASSUME NEW i \in Instance, InStep(i), GoesOn(i)' => GoesOn(i),
           instanceRole'[i] = instanceRole[i], listening'[i] = listening[i],
           i \in crossed => i \in crossed',
           \A s \in {"waitTracker", "insights"} : timers'[i][s] = timers[i][s]
    PROVE  InStep(i)'
  BY DEF InStep, OneOfInsights, ServesRole, isLeader

(* The timers of wait tracking and insights are those of the role. *)
LEMMA TimersFollowRole ==
    /\ \A s \in {"waitTracker", "insights"} : startService(s, Idle) = Busy
    /\ startService("insights", Busy) = Busy
    /\ \A s \in {"waitTracker", "insights"} : \A t \in {Idle, Busy} :
          stopService(s, FALSE, t) = Idle
  BY DEF Idle, Busy, startService, stopService, setTimer, clearTimer

(* A process that hears that another one leads, or none, stops both        *)
(* services.                                                               *)
LEMMA StepdownStops ==
    ASSUME ServicesInv, NEW i \in Instance, GoesOn(i), InStep(i), onStepdown(i),
           ~isLeader(i)', crossed' = crossed
    PROVE  InStep(i)'
  <1>1. timers \in [Instance -> [Service -> Timers]]
    BY DEF ServicesInv, ServicesTypeOK
  <1>2. \A s \in {"waitTracker", "insights"} : s \in Service
    BY Services
  <1>3. /\ \A s \in Service :
              timers'[i][s] = IF s \in listening[i] THEN stopService(s, FALSE, timers[i][s])
                              ELSE timers[i][s]
        /\ listening' = listening
    BY <1>1 DEF onStepdown
  <1>4. OneOfInsights(i)'
    BY <1>2, <1>3, TimersFollowRole DEF InStep, OneOfInsights
  <1>5. ASSUME i \notin crossed, NEW s \in {"waitTracker", "insights"} PROVE timers'[i][s] = Idle
    <2>1. timers[i][s] = IF isLeader(i) /\ s \in listening[i] THEN Busy ELSE Idle
      BY <1>5 DEF InStep, ServesRole
    <2>2. CASE s \in listening[i]
      <3>1. timers[i][s] \in {Idle, Busy}
        BY <2>1
      <3>2. timers'[i][s] = stopService(s, FALSE, timers[i][s])
        BY <1>2, <1>3, <2>2
      <3> QED BY <3>1, <3>2, TimersFollowRole
    <2>3. CASE s \notin listening[i]
      BY <1>2, <1>3, <2>1, <2>3
    <2> QED BY <2>2, <2>3
  <1> QED BY <1>4, <1>5 DEF InStep, ServesRole

(* A process that takes over starts both services; it has led before only  *)
(* if it is marked now.                                                    *)
LEMMA TakeoverStarts ==
    ASSUME ServicesInv, NEW i \in Instance, GoesOn(i), InStep(i), onTakeover(i),
           marksCrossed(i), isLeader(i)'
    PROVE  InStep(i)'
  <1>1. timers \in [Instance -> [Service -> Timers]]
    BY DEF ServicesInv, ServicesTypeOK
  <1>2. \A s \in {"waitTracker", "insights"} : s \in Service
    BY Services
  <1>3. /\ \A s \in Service :
              timers'[i][s] = IF s \in listening[i] THEN startService(s, timers[i][s])
                              ELSE timers[i][s]
        /\ listening' = listening
    BY <1>1 DEF onTakeover
  <1>4. OneOfInsights(i)'
    <2>1. timers[i]["insights"] \in {Idle, Busy}
      BY DEF InStep, OneOfInsights
    <2>2. startService("insights", timers[i]["insights"]) = Busy
      BY <2>1, TimersFollowRole
    <2> QED BY <1>2, <1>3, <2>1, <2>2 DEF OneOfInsights
  <1>5. ASSUME i \notin crossed', NEW s \in {"waitTracker", "insights"}
        PROVE  timers'[i][s] = IF s \in listening[i] THEN Busy ELSE Idle
    <2>1. i \notin crossed /\ ~isLeader(i)
      BY <1>5 DEF marksCrossed
    <2>2. timers[i][s] = Idle
      BY <2>1 DEF InStep, ServesRole
    <2> QED BY <1>2, <1>3, <2>2, TimersFollowRole
  <1> QED BY <1>3, <1>4, <1>5 DEF InStep, ServesRole

(* A process that follows starts and stops nothing; it has led before only *)
(* if it is marked now.                                                    *)
LEMMA FollowersStay ==
    ASSUME NEW i \in Instance, GoesOn(i), InStep(i), UNCHANGED <<listening, timers>>,
           marksCrossed(i), ~isLeader(i)'
    PROVE  InStep(i)'
  BY DEF InStep, OneOfInsights, ServesRole, marksCrossed

(***************************************************************************)
(* Every step leaves the services of every process in step with its role.  *)
(***************************************************************************)
LEMMA NextAllInStep ==
    ASSUME ServicesInv, AllInStep, [ServicesNext]_vars
    PROVE  AllInStep'
  <1>t. /\ instanceRole \in [Instance -> {"unset", "leader", "follower"}]
        /\ listening \in [Instance -> SUBSET Service]
        /\ timers \in [Instance -> [Service -> Timers]]
    BY DEF ServicesInv, ServicesTypeOK, TypeOK
  <1>g. \A i \in Instance : GoesOn(i)' => GoesOn(i)
    BY NobodyReturns
  <1>1. ASSUME UNCHANGED <<instanceRole, listening, timers, crossed>>
        PROVE  AllInStep'
    BY <1>1, <1>g, OthersInStep DEF AllInStep
  <1>2. ASSUME NEW i \in Instance, GoesOn(i)' => InStep(i)',
               \A k \in Instance : k # i =>
                   /\ instanceRole'[k] = instanceRole[k]
                   /\ listening'[k] = listening[k] /\ timers'[k] = timers[k]
                   /\ k \in crossed => k \in crossed'
        PROVE  AllInStep'
    <2>1. ASSUME NEW k \in Instance, k # i PROVE InStep(k)'
      BY <1>2, <1>g, <2>1, OthersInStep DEF AllInStep
    <2>2. InStep(i)'
      BY <1>2 DEF InStep
    <2> QED BY <2>1, <2>2 DEF AllInStep
  <1>3. CASE Expire /\ UNCHANGED serviceVars
    BY <1>1, <1>3 DEF Expire, serviceVars
  <1>4. ASSUME NEW i \in Instance, ServicesHandle(i) PROVE AllInStep'
    <2> DEFINE role(r) == instanceRole' = [instanceRole EXCEPT ![i] = r]
    <2>1. CASE (StepDown(i) \/ Vacant(i)) /\ onStepdown(i) /\ UNCHANGED crossed
      <3>1. role("follower") /\ ~isLeader(i)'
        BY <1>t, <2>1 DEF StepDown, Vacant, markAs, isLeader
      <3>2. \A k \in Instance : k # i =>
                listening'[k] = listening[k] /\ timers'[k] = timers[k]
        BY <1>t, <2>1 DEF onStepdown
      <3>3. GoesOn(i)' => InStep(i)'
        BY <1>g, <2>1, <3>1, StepdownStops DEF AllInStep
      <3> QED BY <1>2, <1>t, <2>1, <3>1, <3>2, <3>3
    <2>2. CASE TakeOver(i) /\ onTakeover(i) /\ marksCrossed(i)
      <3>1. role("leader") /\ isLeader(i)'
        BY <1>t, <2>2 DEF TakeOver, markAs, isLeader
      <3>2. \A k \in Instance : k # i =>
                /\ listening'[k] = listening[k] /\ timers'[k] = timers[k]
                /\ k \in crossed => k \in crossed'
        BY <1>t, <2>2 DEF onTakeover, marksCrossed
      <3>3. GoesOn(i)' => InStep(i)'
        BY <1>g, <2>2, <3>1, TakeoverStarts DEF AllInStep
      <3> QED BY <1>2, <1>t, <3>1, <3>2, <3>3
    <2>3. CASE Follow(i) /\ UNCHANGED <<listening, timers, recovering>> /\ marksCrossed(i)
      <3>1. role("follower") /\ ~isLeader(i)'
        BY <1>t, <2>3 DEF Follow, markAs, isLeader
      <3>2. \A k \in Instance : k \in crossed => k \in crossed'
        BY <2>3 DEF marksCrossed
      <3>3. GoesOn(i)' => InStep(i)'
        BY <1>g, <2>3, <3>1, FollowersStay DEF AllInStep
      <3> QED BY <1>2, <1>t, <2>3, <3>1, <3>2, <3>3
    <2>4. CASE (Renew(i) \/ StayFollower(i) \/ Acknowledged(i)) /\ UNCHANGED serviceVars
      BY <1>1, <2>4 DEF Renew, StayFollower, Acknowledged, serviceVars
    <2> QED BY <1>4, <2>1, <2>2, <2>3, <2>4 DEF ServicesHandle
  <1>5. ASSUME NEW i \in Instance, Election(i) PROVE AllInStep'
    BY <1>1, <1>5 DEF Election, InitSetup, CheckLeader, Execute, Reconnect, Exit, Crash, ends,
       serviceVars
  <1>6. ASSUME NEW i \in Instance, StopProcess(i) PROVE AllInStep'
    <2>1. /\ \A k \in Instance : k # i => timers'[k] = timers[k]
          /\ UNCHANGED <<instanceRole, listening, crossed>>
      BY <1>6, <1>t DEF StopProcess, Shutdown
    <2>2. ~GoesOn(i)'
      <3>1. process \in [Instance -> {"new", "booting", "up", "stopping", "gone"}]
        BY DEF ServicesInv, ServicesTypeOK, TypeOK
      <3> QED BY <1>6, <3>1 DEF StopProcess, Shutdown, GoesOn
    <2> QED BY <1>2, <2>1, <2>2
  <1>7. ASSUME NEW i \in Instance, NEW s \in Service, InitService(i, s) PROVE AllInStep'
    <2>1. /\ s \notin listening[i]
          /\ listening' = [listening EXCEPT ![i] = @ \cup {s}]
          /\ UNCHANGED <<instanceRole, crossed>>
      BY <1>7 DEF InitService, electionVars
    <2>2. timers' = IF isLeader(i) THEN [timers EXCEPT ![i][s] = startService(s, timers[i][s])]
                    ELSE timers
      BY <1>7, <1>t DEF InitService
    <2>3. GoesOn(i)' => OneOfInsights(i) /\ (i \notin crossed => ServesRole(i))
      BY <1>g DEF AllInStep, InStep
    <2>o. OneOfInsights(i) => OneOfInsights(i)'
      <3>1. "insights" \in Service
        BY Services
      <3> QED BY <1>t, <2>2, <3>1, TimersFollowRole DEF OneOfInsights
    <2>4. ASSUME ServesRole(i), NEW u \in {"waitTracker", "insights"}
          PROVE  timers'[i][u] = IF isLeader(i) /\ u \in listening'[i] THEN Busy ELSE Idle
      <3>1. /\ timers[i][u] = IF isLeader(i) /\ u \in listening[i] THEN Busy ELSE Idle
            /\ u \in Service
        BY <2>4, Services DEF ServesRole
      <3>2. CASE u = s
        <4>1. timers[i][u] = Idle /\ u \in listening'[i]
          BY <1>t, <2>1, <3>1, <3>2
        <4>2. isLeader(i) => timers'[i][u] = startService(u, Idle)
          BY <1>t, <2>2, <3>2, <4>1
        <4> QED BY <2>2, <4>1, <4>2, TimersFollowRole
      <3>3. CASE u # s
        <4>1. timers'[i][u] = timers[i][u] /\ (u \in listening'[i] <=> u \in listening[i])
          BY <1>t, <2>1, <2>2, <3>1, <3>3
        <4> QED BY <3>1, <4>1
      <3> QED BY <3>2, <3>3
    <2>5. GoesOn(i)' => InStep(i)'
      BY <2>1, <2>3, <2>4, <2>o DEF InStep, ServesRole, isLeader
    <2>6. \A k \in Instance : k # i => timers'[k] = timers[k] /\ listening'[k] = listening[k]
      BY <1>t, <2>1, <2>2
    <2> QED BY <1>2, <2>1, <2>5, <2>6
  <1>8. ASSUME NEW i \in Instance, QueueRecoveryFires(i) \/ QueueRecoveryEnds(i)
        PROVE  AllInStep'
    <2>1. PICK t : timers' = [timers EXCEPT ![i]["queueRecovery"] = t]
      BY <1>8, <1>t, Services DEF QueueRecoveryFires, QueueRecoveryEnds
    <2>2. \A k \in Instance : \A s \in {"waitTracker", "insights"} : timers'[k][s] = timers[k][s]
      BY <1>t, <2>1, Services
    <2>3. UNCHANGED <<instanceRole, listening, crossed>>
      BY <1>8 DEF QueueRecoveryFires, QueueRecoveryEnds, electionVars
    <2> QED BY <1>g, <2>2, <2>3, OthersInStep DEF AllInStep
  <1>9. CASE UNCHANGED vars
    BY <1>1, <1>9 DEF vars, electionVars, serviceVars
  <1> QED BY <1>3, <1>4, <1>5, <1>6, <1>7, <1>8, <1>9 DEF ServicesNext

(***************************************************************************)
(* However checks overlap, a process that does not lead tracks no waiting  *)
(* executions and compacts no insights, and a leader never has two timers  *)
(* for either, whenever the services are initialized, the key is lost or   *)
(* the connection breaks, unless a SET NX of the process was answered      *)
(* while it led; and it never has two timers for insights.                 *)
(***************************************************************************)
THEOREM FollowersAreIdle == ServicesSpec => []FollowerIsIdle
  <1>1. InitServices => IdleInv
    <2> SUFFICES ASSUME InitServices PROVE AllInStep
      BY InitServicesInv DEF IdleInv
    <2> QED BY Services DEF InitServices, Init, AllInStep, InStep, OneOfInsights, ServesRole,
                            isLeader, Idle
  <1>2. IdleInv /\ [ServicesNext]_vars => IdleInv'
    BY NextServicesInv, NextAllInStep DEF IdleInv
  <1>3. IdleInv => FollowerIsIdle
    BY DEF IdleInv, AllInStep, InStep, GoesOn, OneOfInsights, ServesRole, FollowerIsIdle, Idle, Busy
  <1> QED BY <1>1, <1>2, <1>3, PTL DEF ServicesSpec

-----------------------------------------------------------------------------
(* Leaders *)

(* A service of a leader has a timer, or recovers and will set one. *)
Runs(i, s) == timers[i][s].set > 0 \/ (s = "queueRecovery" /\ recovering[i] > 0)

Serves(i) == Leads(i) => \A s \in listening[i] : Runs(i, s)

AllServe == \A i \in Instance : Serves(i)

(* A service that starts has a timer. *)
LEMMA StartSets ==
    ASSUME NEW t, Sound(t), NEW s
    PROVE  setTimer(t).set > 0 /\ startService(s, t).set > 0
  <1>1. ASSUME NEW u, Sound(u) PROVE setTimer(u).set > 0
    BY <1>1 DEF Sound, Timers, setTimer
  <1> QED BY <1>1, SoundService DEF startService

(* Whoever leads after a step leads already or takes over in it. *)
LEMMA TakeoverLeads ==
    ASSUME ServicesInv, [ServicesNext]_vars, NEW i \in Instance, Leads(i)'
    PROVE  Leads(i) \/ (TakeOver(i) /\ onTakeover(i))
  <1>1. /\ process \in [Instance -> {"new", "booting", "up", "stopping", "gone"}]
        /\ instanceRole \in [Instance -> {"unset", "leader", "follower"}]
    BY DEF ServicesInv, ServicesTypeOK, TypeOK
  <1>2. CASE UNCHANGED <<process, instanceRole>>
    BY <1>2 DEF Leads, isLeader
  <1>3. ASSUME NEW k \in Instance,
               InitSetup(k) \/ StopProcess(k) \/ Exit(k) \/ Crash(k)
        PROVE  Leads(i)
    BY <1>1, <1>3 DEF Leads, isLeader, InitSetup, StopProcess, Shutdown, Exit, Crash, ends
  <1>4. ASSUME NEW k \in Instance, Follow(k) \/ StepDown(k) \/ Vacant(k)
        PROVE  Leads(i)
    BY <1>1, <1>4 DEF Leads, isLeader, Follow, StepDown, Vacant, initialized, markAs
  <1>5. ASSUME NEW k \in Instance, k # i, TakeOver(k)
        PROVE  Leads(i)
    BY <1>1, <1>5 DEF Leads, isLeader, TakeOver, initialized, markAs
  <1>6. CASE Expire
    BY <1>2, <1>6 DEF Expire
  <1>7. ASSUME NEW k \in Instance,
               \/ CheckLeader(k) \/ Execute(k) \/ Reconnect(k)
               \/ Renew(k) \/ StayFollower(k) \/ Acknowledged(k)
        PROVE  Leads(i)
    <2>1. UNCHANGED <<process, instanceRole>>
      BY <1>7 DEF CheckLeader, Execute, Reconnect, Renew, StayFollower, Acknowledged
    <2> QED BY <2>1 DEF Leads, isLeader
  <1>8. ASSUME NEW k \in Instance,
               (\E s \in Service : InitService(k, s)) \/ QueueRecoveryFires(k) \/ QueueRecoveryEnds(k)
        PROVE  Leads(i)
    <2>1. UNCHANGED <<process, instanceRole>>
      BY <1>8 DEF InitService, QueueRecoveryFires, QueueRecoveryEnds, electionVars
    <2> QED BY <2>1 DEF Leads, isLeader
  <1>9. CASE UNCHANGED vars
    BY <1>2, <1>9 DEF vars, electionVars
  <1> QED BY <1>3, <1>4, <1>5, <1>6, <1>7, <1>8, <1>9
      DEF ServicesNext, ServicesHandle, Election

(* A process goes on to serve while its services and timers stay. *)
LEMMA StillServes ==
    ASSUME NEW i \in Instance, Leads(i), Serves(i),
           listening'[i] = listening[i], timers'[i] = timers[i], recovering'[i] = recovering[i]
    PROVE  Serves(i)'
  BY DEF Serves, Runs

(***************************************************************************)
(* Every step leaves each leader with a timer, or a recovery, of each of   *)
(* its services.                                                           *)
(***************************************************************************)
LEMMA NextAllServe ==
    ASSUME ServicesInv, AllServe, [ServicesNext]_vars
    PROVE  AllServe'
  <1> SUFFICES ASSUME NEW i \in Instance, Leads(i)' PROVE Serves(i)'
    BY DEF AllServe, Serves
  <1>t. /\ listening \in [Instance -> SUBSET Service]
        /\ timers \in [Instance -> [Service -> Timers]]
        /\ recovering \in [Instance -> Nat]
        /\ \A k \in Instance : \A s \in Service : Sound(timers[k][s])
    BY DEF ServicesInv, ServicesTypeOK, TimersSound
  <1>p. /\ process \in [Instance -> {"new", "booting", "up", "stopping", "gone"}]
        /\ instanceRole \in [Instance -> {"unset", "leader", "follower"}]
    BY DEF ServicesInv, ServicesTypeOK, TypeOK
  <1>r. "queueRecovery" \in Service
    BY Services
  <1>s. Serves(i)
    BY DEF AllServe
  <1>1. ASSUME Leads(i), listening'[i] = listening[i], timers'[i] = timers[i],
               recovering'[i] = recovering[i]
        PROVE  Serves(i)'
    BY <1>1, <1>s, StillServes
  <1>2. CASE TakeOver(i) /\ onTakeover(i)
    <2>1. \A s \in listening[i] : s \in Service /\ timers'[i][s] = startService(s, timers[i][s])
      BY <1>2, <1>t DEF onTakeover
    <2>2. listening' = listening
      BY <1>2 DEF onTakeover
    <2> QED BY <1>t, <2>1, <2>2, StartSets DEF Serves, Runs
  <1>3. CASE Leads(i)
    <2>1. ASSUME UNCHANGED <<listening, timers, recovering>> PROVE Serves(i)'
      BY <1>1, <1>3, <2>1
    <2>2. ASSUME NEW k \in Instance, StopProcess(k) PROVE Serves(i)'
      <3>1. k # i
        BY <1>p, <2>2 DEF StopProcess, Shutdown, Leads
      <3> QED BY <1>1, <1>3, <1>t, <2>2, <3>1 DEF StopProcess
    <2>3. ASSUME NEW k \in Instance, (StepDown(k) \/ Vacant(k)) /\ onStepdown(k) PROVE Serves(i)'
      <3>1. k # i
        BY <1>p, <2>3 DEF StepDown, Vacant, markAs, Leads, isLeader
      <3> QED BY <1>1, <1>3, <1>t, <2>3, <3>1 DEF onStepdown
    <2>4. ASSUME NEW k \in Instance, TakeOver(k) /\ onTakeover(k) PROVE Serves(i)'
      <3>1. CASE k = i
        BY <1>2, <2>4, <3>1
      <3>2. CASE k # i
        BY <1>1, <1>3, <1>t, <2>4, <3>2 DEF onTakeover
      <3> QED BY <3>1, <3>2
    <2>5. ASSUME NEW k \in Instance, NEW s \in Service, InitService(k, s) PROVE Serves(i)'
      <3>1. /\ listening' = [listening EXCEPT ![k] = @ \cup {s}]
            /\ timers' = IF isLeader(k)
                         THEN [timers EXCEPT ![k][s] = startService(s, timers[k][s])]
                         ELSE timers
            /\ UNCHANGED recovering
        BY <1>t, <2>5 DEF InitService
      <3>2. CASE k # i
        BY <1>1, <1>3, <1>t, <3>1, <3>2
      <3>3. CASE k = i
        <4>1. timers' = [timers EXCEPT ![i][s] = startService(s, timers[i][s])]
          BY <1>3, <3>1, <3>3 DEF Leads
        <4>2. timers'[i][s].set > 0
          BY <1>t, <4>1, StartSets
        <4>3. ASSUME NEW u \in listening[i], u # s PROVE Runs(i, u)'
          BY <1>3, <1>s, <1>t, <3>1, <4>1, <4>3 DEF Serves, Runs
        <4> QED BY <1>t, <3>1, <3>3, <4>2, <4>3 DEF Serves, Runs
      <3> QED BY <3>2, <3>3
    <2>6. ASSUME NEW k \in Instance, QueueRecoveryFires(k) PROVE Serves(i)'
      <3>1. PICK t : timers' = [timers EXCEPT ![k]["queueRecovery"] = t]
        BY <1>t, <2>6 DEF QueueRecoveryFires
      <3>2. recovering' = [recovering EXCEPT ![k] = @ + 1] /\ UNCHANGED listening
        BY <2>6 DEF QueueRecoveryFires
      <3>3. CASE k # i
        BY <1>1, <1>3, <1>t, <3>1, <3>2, <3>3
      <3>4. CASE k = i
        <4>1. recovering'[i] > 0
          BY <1>t, <3>2, <3>4
        <4>2. \A u \in Service \ {"queueRecovery"} : timers'[i][u] = timers[i][u]
          BY <1>t, <3>1
        <4> QED BY <1>3, <1>s, <1>t, <3>2, <4>1, <4>2 DEF Serves, Runs
      <3> QED BY <3>3, <3>4
    <2>7. ASSUME NEW k \in Instance, QueueRecoveryEnds(k) PROVE Serves(i)'
      <3>1. timers' = [timers EXCEPT ![k]["queueRecovery"] = setTimer(timers[k]["queueRecovery"])]
        BY <1>t, <2>7 DEF QueueRecoveryEnds
      <3>2. recovering' = [recovering EXCEPT ![k] = @ - 1] /\ UNCHANGED listening
        BY <2>7 DEF QueueRecoveryEnds
      <3>3. CASE k # i
        BY <1>1, <1>3, <1>t, <3>1, <3>2, <3>3
      <3>4. CASE k = i
        <4>1. timers'[i]["queueRecovery"].set > 0
          BY <1>r, <1>t, <3>1, <3>4, StartSets
        <4>2. \A u \in Service \ {"queueRecovery"} : timers'[i][u] = timers[i][u]
          BY <1>t, <3>1
        <4> QED BY <1>3, <1>s, <1>t, <3>2, <4>1, <4>2 DEF Serves, Runs
      <3> QED BY <3>3, <3>4
    <2>8. CASE UNCHANGED vars
      BY <2>1, <2>8 DEF vars, serviceVars
    <2> QED BY <2>1, <2>2, <2>3, <2>4, <2>5, <2>6, <2>7, <2>8
        DEF ServicesNext, ServicesHandle, Election, serviceVars
  <1> QED BY <1>2, <1>3, TakeoverLeads

(***************************************************************************)
(* A process that leads runs every service that is initialized, for any    *)
(* number of processes, overlapping checks, lost keys, crashes and broken  *)
(* connections.                                                            *)
(***************************************************************************)
THEOREM LeadersServe == ServicesSpec => []LeaderServes
  <1>1. InitServices => ServicesInv /\ AllServe
    BY InitServicesInv DEF InitServices, Init, AllServe, Serves, Leads
  <1>2. (ServicesInv /\ AllServe) /\ [ServicesNext]_vars => (ServicesInv /\ AllServe)'
    BY NextServicesInv, NextAllServe
  <1>3. ServicesInv /\ AllServe => LeaderServes
    BY DEF AllServe, Serves, Runs, LeaderServes
  <1> QED BY <1>1, <1>2, <1>3, PTL DEF ServicesSpec

=============================================================================
