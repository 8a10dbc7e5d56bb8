------------------------ MODULE MultiMainSetupProofs ------------------------
(***************************************************************************)
(* Proofs about MultiMainSetup, for any number of processes, overlapping   *)
(* checks, crashes and shutdowns.                                          *)
(***************************************************************************)
EXTENDS MultiMainSetup, SequenceTheorems, TLAPS

(***************************************************************************)
(* Every step keeps the types: what a check does with a reply never leaves *)
(* the roles, commands and replies of the code (checkLeader,               *)
(* tryBecomeLeader, shutdown).                                             *)
(***************************************************************************)
LEMMA NextTypeOK == TypeOK /\ [Next]_electionVars => TypeOK'
  <1> SUFFICES ASSUME TypeOK, [Next]_electionVars PROVE TypeOK'
      OBVIOUS
  <1> USE DEF TypeOK, bounds
  <1>c. "get" \in Command /\ "expire" \in Command /\ "setnx" \in Command /\ "del" \in Command
      BY DEF Command
  <1>1. CASE Expire
      BY <1>1, BoundsAssumption DEF Expire, Alive
  <1>2. ASSUME NEW i \in Instance, InitSetup(i) PROVE TypeOK'
      BY <1>2, <1>c, BoundsAssumption DEF InitSetup, send
  <1>3. ASSUME NEW i \in Instance, CheckLeader(i) PROVE TypeOK'
      BY <1>3, <1>c, BoundsAssumption DEF CheckLeader, send
  <1>4. ASSUME NEW i \in Instance, Handle(i) PROVE TypeOK'
    <2>1. CASE Renew(i)
        BY <1>c, <2>1 DEF Renew, handle, send
    <2>2. CASE StepDown(i)
        BY <2>2 DEF StepDown, handle, markAs
    <2>3. CASE StayFollower(i)
        BY <2>3 DEF StayFollower, handle
    <2>4. CASE Vacant(i)
        BY <1>c, <2>4 DEF Vacant, handle, markAs, send
    <2>5. CASE TakeOver(i)
        BY <2>5 DEF TakeOver, handle, markAs, initialized
    <2>6. CASE Follow(i)
        BY <2>6 DEF Follow, handle, markAs, initialized
    <2>7. CASE Acknowledged(i)
        BY <2>7 DEF Acknowledged, handle
    <2> QED
        BY <1>4, <2>1, <2>2, <2>3, <2>4, <2>5, <2>6, <2>7 DEF Handle
  <1>5. ASSUME NEW i \in Instance, Execute(i) PROVE TypeOK'
    <2>1. leaderKey' \in Instance \cup {NoInstance}
        BY <1>5, BoundsAssumption DEF Execute
    <2>2. toRedis' \in [Instance -> Seq(Command)]
        BY <1>5, BoundsAssumption DEF Execute
    <2>3. Head(toRedis[i]) \in Command
        BY <1>5, BoundsAssumption DEF Execute
    <2> DEFINE value == CASE Head(toRedis[i]) = "get" -> leaderKey
                         [] Head(toRedis[i]) = "setnx" ->
                                IF leaderKey = NoInstance THEN i ELSE NoInstance
                         [] OTHER -> NoInstance
               r == [command |-> Head(toRedis[i]), value |-> value]
    <2>v. value \in Instance \cup {NoInstance}
        OBVIOUS
    <2>r. r \in Reply
        BY <2>3, <2>v DEF Reply
    <2>4. fromRedis' = [fromRedis EXCEPT ![i] = Append(@, r)]
        BY <1>5 DEF Execute
    <2>5. fromRedis' \in [Instance -> Seq(Reply)]
      <3> HIDE DEF r
      <3> QED
          BY <2>4, <2>r
    <2> QED
        BY <1>5, <2>1, <2>2, <2>5 DEF Execute
  <1>6. ASSUME NEW i \in Instance, Reconnect(i) PROVE TypeOK'
    <2> DEFINE again == [n \in 1 .. Len(fromRedis[i]) |-> fromRedis[i][n].command]
    <2>1. again \in Seq(Command)
      <3>1. fromRedis[i] \in Seq(Reply)
          OBVIOUS
      <3>e. \A n \in 1 .. Len(fromRedis[i]) : fromRedis[i][n] \in Reply
          BY <3>1, ElementOfSeq
      <3>2. \A n \in 1 .. Len(fromRedis[i]) : fromRedis[i][n].command \in Command
        <4> HIDE DEF TypeOK
        <4> QED
            BY <3>e DEF Reply
      <3>3. Len(fromRedis[i]) \in Nat
          BY <3>1
      <3> QED
          BY <3>2, <3>3
    <2> HIDE DEF again
    <2>2. again \o toRedis[i] \in Seq(Command)
        BY <2>1
    <2>3. toRedis' = [toRedis EXCEPT ![i] = again \o toRedis[i]]
        BY <1>6 DEF Reconnect, again
    <2>4. toRedis' \in [Instance -> Seq(Command)]
        BY <2>2, <2>3
    <2>5. fromRedis' \in [Instance -> Seq(Reply)]
        BY <1>6, BoundsAssumption DEF Reconnect
    <2>6. /\ reconnects' \in 0 .. MaxReconnects
          /\ UNCHANGED <<leaderKey, instanceRole, process, expiries, exits, selfRefused>>
        BY <1>6, BoundsAssumption DEF Reconnect
    <2> QED
        BY <2>4, <2>5, <2>6
  <1>7. ASSUME NEW i \in Instance, Shutdown(i) PROVE TypeOK'
    <2>1. toRedis' \in [Instance -> Seq(Command)]
      <3>1. CASE isLeader(i)
        <4>1. toRedis' = [toRedis EXCEPT ![i] = Append(@, "del")]
            BY <1>7, <3>1 DEF Shutdown, send
        <4> QED
            BY <1>c, <4>1
      <3>2. CASE ~isLeader(i)
          BY <1>7, <3>2 DEF Shutdown
      <3> QED
          BY <3>1, <3>2
    <2>2. /\ process' \in [Instance -> {"new", "booting", "up", "stopping", "gone"}]
          /\ exits' \in 0 .. MaxExits
          /\ UNCHANGED <<leaderKey, instanceRole, fromRedis, expiries, reconnects, selfRefused>>
        BY <1>7, BoundsAssumption DEF Shutdown
    <2> QED
        BY <2>1, <2>2
  <1>8. ASSUME NEW i \in Instance, Exit(i) PROVE TypeOK'
      BY <1>8, BoundsAssumption DEF Exit, ends
  <1>9. ASSUME NEW i \in Instance, Crash(i) PROVE TypeOK'
      BY <1>9, BoundsAssumption DEF Crash, ends
  <1>10. CASE UNCHANGED electionVars
      BY <1>10, BoundsAssumption DEF electionVars
  <1> QED
      BY <1>1, <1>2, <1>3, <1>4, <1>5, <1>6, <1>7, <1>8, <1>9, <1>10 DEF Next

(***************************************************************************)
(* Every reachable state has the types of the code.                        *)
(***************************************************************************)
THEOREM TypeCorrect == Spec => []TypeOK
  <1>1. Init => TypeOK
      BY InstanceAssumption, BoundsAssumption DEF Init, TypeOK
  <1> QED
      BY <1>1, NextTypeOK, PTL DEF Spec

-----------------------------------------------------------------------------
(***************************************************************************)
(* The invariant behind AtMostOneLeader, which holds until the key of a    *)
(* live process expires or a command is sent twice.                        *)
(***************************************************************************)

(* A process that leads owns the key, and so does one whose attempt to set *)
(* it succeeded but which has not heard of that yet.                       *)
LeaderOwnsKey == \A i \in Instance : Leads(i) => leaderKey = i

WinnerOwnsKey ==
    \A i \in Instance : \A n \in 1 .. Len(fromRedis[i]) :
        (process[i] \in {"booting", "up"} /\ fromRedis[i][n] = [command |-> "setnx", value |-> i])
            => leaderKey = i

(* Only a process that stops deletes the key: once, and its own. *)
OwnerDeletes ==
    \A i \in Instance : \A n \in 1 .. Len(toRedis[i]) :
        toRedis[i][n] = "del" =>
            /\ process[i] = "stopping"
            /\ leaderKey = i
            /\ \A m \in 1 .. Len(toRedis[i]) : toRedis[i][m] = "del" => m = n

(* A process that has not started has sent nothing. *)
NewIsSilent ==
    \A i \in Instance : process[i] = "new" => toRedis[i] = <<>> /\ fromRedis[i] = <<>>

IInv == TypeOK /\ LeaderOwnsKey /\ WinnerOwnsKey /\ OwnerDeletes /\ NewIsSilent

(* No key has expired under a live process, and nothing was sent twice. *)
Undisturbed == expiries = 0 /\ reconnects = 0

(* What is inductive over all steps. *)
ElectionInv == TypeOK /\ (Undisturbed => IInv)

(***************************************************************************)
(* Steps that neither touch the key nor make a leader nor delete: replies  *)
(* are taken or dropped, and other commands than DEL are sent.             *)
(***************************************************************************)
LEMMA QuietStep ==
  ASSUME IInv, TypeOK', leaderKey' = leaderKey,
         \A j \in Instance : Leads(j)' => Leads(j),
         \A j \in Instance : process'[j] = "new" =>
             process[j] = "new" /\ toRedis'[j] = toRedis[j] /\ fromRedis'[j] = fromRedis[j],
         \A j \in Instance : process'[j] \in {"booting", "up"} =>
             process[j] \in {"new", "booting", "up"},
         \A j \in Instance : process[j] = "stopping" =>
             process'[j] = "stopping" \/ toRedis'[j] = <<>>,
         \A j \in Instance :
             \/ fromRedis'[j] = fromRedis[j]
             \/ fromRedis'[j] = <<>>
             \/ fromRedis[j] # <<>> /\ fromRedis'[j] = Tail(fromRedis[j]),
         \A j \in Instance :
             \/ toRedis'[j] = toRedis[j]
             \/ toRedis'[j] = <<>>
             \/ \E c \in Command \ {"del"} : toRedis'[j] = Append(toRedis[j], c)
  PROVE  IInv'
  <1>1. LeaderOwnsKey'
      BY DEF IInv, LeaderOwnsKey
  <1>2. WinnerOwnsKey'
    <2> SUFFICES ASSUME NEW j \in Instance, NEW n \in 1 .. Len(fromRedis'[j]),
                        process'[j] \in {"booting", "up"},
                        fromRedis'[j][n] = [command |-> "setnx", value |-> j]
                 PROVE  leaderKey' = j
        BY DEF WinnerOwnsKey
    <2>1. fromRedis[j] \in Seq(Reply)
        BY DEF IInv, TypeOK
    <2>2. PICK m \in 1 .. Len(fromRedis[j]) : fromRedis[j][m] = fromRedis'[j][n]
      <3>1. CASE fromRedis'[j] = fromRedis[j]
          BY <3>1
      <3>2. CASE fromRedis[j] # <<>> /\ fromRedis'[j] = Tail(fromRedis[j])
        <4>1. n + 1 \in 1 .. Len(fromRedis[j]) /\ Tail(fromRedis[j])[n] = fromRedis[j][n + 1]
            BY <2>1, <3>2
        <4> QED
            BY <3>2, <4>1
      <3>3. CASE fromRedis'[j] = <<>>
          BY <3>3
      <3> QED
          BY <3>1, <3>2, <3>3
    <2>3. process[j] # "new"
        BY <2>2 DEF IInv, NewIsSilent
    <2> QED
        BY <2>2, <2>3 DEF IInv, WinnerOwnsKey
  <1>3. OwnerDeletes'
    <2> SUFFICES ASSUME NEW j \in Instance, NEW n \in 1 .. Len(toRedis'[j]),
                        toRedis'[j][n] = "del"
                 PROVE  /\ process'[j] = "stopping"
                        /\ leaderKey' = j
                        /\ \A m \in 1 .. Len(toRedis'[j]) : toRedis'[j][m] = "del" => m = n
        BY DEF OwnerDeletes
    <2>1. toRedis[j] \in Seq(Command)
        BY DEF IInv, TypeOK
    <2>2. toRedis'[j] # <<>>
        OBVIOUS
    <2>3. \A m \in 1 .. Len(toRedis'[j]) : toRedis'[j][m] = "del" =>
              m \in 1 .. Len(toRedis[j]) /\ toRedis[j][m] = "del"
      <3>1. CASE toRedis'[j] = toRedis[j]
          BY <3>1
      <3>2. ASSUME NEW c \in Command \ {"del"}, toRedis'[j] = Append(toRedis[j], c)
            PROVE  \A m \in 1 .. Len(toRedis'[j]) : toRedis'[j][m] = "del" =>
                       m \in 1 .. Len(toRedis[j]) /\ toRedis[j][m] = "del"
          BY <2>1, <3>2
      <3> QED
          BY <2>2, <3>1, <3>2
    <2>4. n \in 1 .. Len(toRedis[j]) /\ toRedis[j][n] = "del"
        BY <2>3
    <2>5. /\ process[j] = "stopping"
          /\ leaderKey = j
          /\ \A m \in 1 .. Len(toRedis[j]) : toRedis[j][m] = "del" => m = n
        BY <2>4 DEF IInv, OwnerDeletes
    <2>6. process'[j] = "stopping"
        BY <2>2, <2>5
    <2> QED
        BY <2>3, <2>5, <2>6
  <1>4. NewIsSilent'
      BY DEF IInv, NewIsSilent
  <1> QED
      BY <1>1, <1>2, <1>3, <1>4 DEF IInv

(***************************************************************************)
(* A process takes over with a reply that says it owns the key.            *)
(***************************************************************************)
LEMMA TakeOverKeeps ==
  ASSUME IInv, TypeOK', NEW i \in Instance, TakeOver(i)
  PROVE  IInv'
  <1>1. fromRedis[i] \in Seq(Reply) /\ fromRedis[i] # <<>>
      BY DEF IInv, TypeOK, TakeOver, handle
  <1>2. Head(fromRedis[i]) = [command |-> "setnx", value |-> i]
    <2>1. Head(fromRedis[i]) \in Reply
        BY <1>1
    <2>2. Head(fromRedis[i]).command = "setnx" /\ Head(fromRedis[i]).value = i
        BY DEF TakeOver, handle
    <2> QED
        BY <2>1, <2>2 DEF Reply
  <1>3. process[i] \in {"booting", "up"} => leaderKey = i
    <2>1. 1 \in 1 .. Len(fromRedis[i]) /\ fromRedis[i][1] = Head(fromRedis[i])
        BY <1>1
    <2> QED
        BY <1>2, <2>1 DEF IInv, WinnerOwnsKey
  <1>4. /\ leaderKey' = leaderKey /\ toRedis' = toRedis
        /\ fromRedis' = [fromRedis EXCEPT ![i] = Tail(@)]
        /\ instanceRole' = [instanceRole EXCEPT ![i] = "leader"]
        /\ process' = [process EXCEPT ![i] = IF @ = "booting" THEN "up" ELSE @]
      BY DEF TakeOver, handle, markAs, initialized
  <1>5. LeaderOwnsKey'
    <2> SUFFICES ASSUME NEW j \in Instance, Leads(j)' PROVE leaderKey' = j
        BY DEF LeaderOwnsKey
    <2>1. CASE j = i
        BY <1>3, <1>4, <2>1 DEF Leads, IInv, TypeOK
    <2>2. CASE j # i
        BY <1>4, <2>2 DEF Leads, isLeader, IInv, TypeOK, LeaderOwnsKey
    <2> QED
        BY <2>1, <2>2
  <1>6. WinnerOwnsKey'
    <2> SUFFICES ASSUME NEW j \in Instance, NEW n \in 1 .. Len(fromRedis'[j]),
                        process'[j] \in {"booting", "up"},
                        fromRedis'[j][n] = [command |-> "setnx", value |-> j]
                 PROVE  leaderKey' = j
        BY DEF WinnerOwnsKey
    <2>1. CASE j = i
        BY <1>3, <1>4, <2>1 DEF IInv, TypeOK
    <2>2. CASE j # i
        BY <1>4, <2>2 DEF IInv, TypeOK, WinnerOwnsKey
    <2> QED
        BY <2>1, <2>2
  <1>7. OwnerDeletes'
      BY <1>4 DEF IInv, TypeOK, OwnerDeletes
  <1>8. NewIsSilent'
      BY <1>1, <1>4 DEF IInv, TypeOK, NewIsSilent
  <1> QED
      BY <1>5, <1>6, <1>7, <1>8 DEF IInv

(***************************************************************************)
(* Redis sets the key only if nobody owns it, and deletes it only for its  *)
(* owner, who stops.                                                       *)
(***************************************************************************)
LEMMA ExecuteKeeps ==
  ASSUME IInv, TypeOK', NEW i \in Instance, Execute(i)
  PROVE  IInv'
  <1>1. toRedis[i] \in Seq(Command) /\ toRedis[i] # <<>> /\ fromRedis[i] \in Seq(Reply)
      BY DEF IInv, TypeOK, Execute
  <1> DEFINE command == Head(toRedis[i])
             value == CASE command = "get" -> leaderKey
                        [] command = "setnx" -> IF leaderKey = NoInstance THEN i ELSE NoInstance
                        [] OTHER -> NoInstance
             reply == [command |-> command, value |-> value]
  <1>2. /\ leaderKey' = CASE command = "setnx" /\ leaderKey = NoInstance -> i
                          [] command = "del" -> NoInstance
                          [] OTHER -> leaderKey
        /\ fromRedis' = [fromRedis EXCEPT ![i] = Append(@, reply)]
        /\ toRedis' = [toRedis EXCEPT ![i] = Tail(@)]
        /\ instanceRole' = instanceRole /\ process' = process
      BY DEF Execute, bounds
  <1>3. \A n \in 1 .. Len(toRedis'[i]) :
            n + 1 \in 1 .. Len(toRedis[i]) /\ toRedis'[i][n] = toRedis[i][n + 1]
      BY <1>1, <1>2 DEF IInv, TypeOK
  <1>4. 1 \in 1 .. Len(toRedis[i]) /\ toRedis[i][1] = command
      BY <1>1
  <1>5. command = "del" =>
            /\ process[i] = "stopping" /\ leaderKey = i
            /\ \A n \in 1 .. Len(toRedis'[i]) : toRedis'[i][n] # "del"
    <2> SUFFICES ASSUME command = "del"
                 PROVE  /\ process[i] = "stopping" /\ leaderKey = i
                        /\ \A n \in 1 .. Len(toRedis'[i]) : toRedis'[i][n] # "del"
        OBVIOUS
    <2> HIDE DEF command
    <2>1. /\ process[i] = "stopping" /\ leaderKey = i
          /\ \A m \in 1 .. Len(toRedis[i]) : toRedis[i][m] = "del" => m = 1
        BY <1>4 DEF IInv, OwnerDeletes
    <2>2. ASSUME NEW n \in 1 .. Len(toRedis'[i]), toRedis'[i][n] = "del" PROVE FALSE
        BY <1>3, <2>1, <2>2
    <2> QED
        BY <2>1, <2>2
  <1>6. \A j \in Instance : leaderKey = j /\ j # NoInstance => leaderKey' = j \/ (command = "del" /\ j = i)
      BY <1>2, <1>5
  <1>7. LeaderOwnsKey'
    <2> HIDE DEF command, value, reply
    <2> SUFFICES ASSUME NEW j \in Instance, Leads(j)' PROVE leaderKey' = j
        BY DEF LeaderOwnsKey
    <2>1. Leads(j) /\ process[j] = "up"
        BY <1>2 DEF Leads, isLeader
    <2>2. leaderKey = j /\ j # NoInstance
        BY <2>1, InstanceAssumption DEF IInv, LeaderOwnsKey
    <2> QED
        BY <1>5, <1>6, <2>1, <2>2
  <1>8. WinnerOwnsKey'
    <2> SUFFICES ASSUME NEW j \in Instance, NEW n \in 1 .. Len(fromRedis'[j]),
                        process'[j] \in {"booting", "up"},
                        fromRedis'[j][n] = [command |-> "setnx", value |-> j]
                 PROVE  leaderKey' = j
        BY DEF WinnerOwnsKey
    <2>1. ASSUME n \in 1 .. Len(fromRedis[j]), fromRedis[j][n] = fromRedis'[j][n]
          PROVE  leaderKey' = j
      <3> HIDE DEF command, value, reply
      <3>1. leaderKey = j /\ j # NoInstance /\ process[j] # "stopping"
          BY <1>2, <2>1, InstanceAssumption DEF IInv, WinnerOwnsKey
      <3> QED
          BY <1>5, <1>6, <3>1
    <2>2. CASE j # i
        BY <1>2, <2>1, <2>2 DEF IInv, TypeOK
    <2>3. CASE j = i /\ n <= Len(fromRedis[i])
      <3> HIDE DEF reply
      <3>1. fromRedis'[i] = Append(fromRedis[i], reply)
          BY <1>2 DEF IInv, TypeOK
      <3>2. fromRedis'[i][n] = fromRedis[i][n]
          BY <1>1, <2>3, <3>1
      <3> QED
          BY <1>1, <2>1, <2>3, <3>2
    <2>4. CASE j = i /\ n > Len(fromRedis[i])
      <3>1. fromRedis'[i][n] = reply
        <4> HIDE DEF reply
        <4>1. fromRedis'[i] = Append(fromRedis[i], reply)
            BY <1>2 DEF IInv, TypeOK
        <4> QED
            BY <1>1, <2>4, <4>1
      <3>2. reply.command = "setnx" /\ reply.value = i
          BY <2>4, <3>1
      <3>3. command = "setnx" /\ leaderKey = NoInstance
          BY <3>2, InstanceAssumption
      <3> QED
          BY <1>2, <2>4, <3>3
    <2> QED
      <3>1. n \in Nat /\ Len(fromRedis[i]) \in Nat
          BY <1>1
      <3> QED
          BY <2>2, <2>3, <2>4, <3>1
  <1>9. OwnerDeletes'
    <2> HIDE DEF command, value, reply
    <2> SUFFICES ASSUME NEW j \in Instance, NEW n \in 1 .. Len(toRedis'[j]),
                        toRedis'[j][n] = "del"
                 PROVE  /\ process'[j] = "stopping"
                        /\ leaderKey' = j
                        /\ \A m \in 1 .. Len(toRedis'[j]) : toRedis'[j][m] = "del" => m = n
        BY DEF OwnerDeletes
    <2>1. CASE j # i
      <3>1. toRedis'[j] = toRedis[j]
          BY <1>2, <2>1 DEF IInv, TypeOK
      <3>2. /\ process[j] = "stopping" /\ leaderKey = j /\ j # NoInstance
            /\ \A m \in 1 .. Len(toRedis[j]) : toRedis[j][m] = "del" => m = n
          BY <3>1, InstanceAssumption DEF IInv, OwnerDeletes
      <3> QED
          BY <1>2, <1>6, <2>1, <3>1, <3>2
    <2>2. CASE j = i
      <3>1. n + 1 \in 1 .. Len(toRedis[i]) /\ toRedis[i][n + 1] = "del"
          BY <1>3, <2>2
      <3>2. /\ process[i] = "stopping" /\ leaderKey = i /\ i # NoInstance
            /\ \A m \in 1 .. Len(toRedis[i]) : toRedis[i][m] = "del" => m = n + 1
          BY <3>1, InstanceAssumption DEF IInv, OwnerDeletes
      <3>3. leaderKey' = i
          BY <1>5, <1>6, <2>2, <3>2
      <3>4. \A m \in 1 .. Len(toRedis'[i]) : toRedis'[i][m] = "del" => m = n
          BY <1>3, <2>2, <3>2
      <3> QED
          BY <1>2, <2>2, <3>2, <3>3, <3>4
    <2> QED
        BY <2>1, <2>2
  <1>10. NewIsSilent'
    <2> HIDE DEF command, value, reply
    <2> QED
        BY <1>1, <1>2 DEF IInv, TypeOK, NewIsSilent
  <1> QED
      BY <1>7, <1>8, <1>9, <1>10 DEF IInv

(***************************************************************************)
(* A leader that shuts down asks for its own key to be deleted.            *)
(***************************************************************************)
LEMMA ShutdownKeeps ==
  ASSUME IInv, TypeOK', NEW i \in Instance, Shutdown(i)
  PROVE  IInv'
  <1>1. /\ process[i] = "up" /\ toRedis[i] \in Seq(Command)
        /\ process' = [process EXCEPT ![i] = "stopping"]
        /\ leaderKey' = leaderKey /\ instanceRole' = instanceRole /\ fromRedis' = fromRedis
      BY DEF IInv, TypeOK, Shutdown
  <1>2. LeaderOwnsKey'
      BY <1>1 DEF IInv, TypeOK, LeaderOwnsKey, Leads, isLeader
  <1>3. WinnerOwnsKey'
      BY <1>1 DEF IInv, TypeOK, WinnerOwnsKey
  <1>4. \A n \in 1 .. Len(toRedis[i]) : toRedis[i][n] # "del"
      BY <1>1 DEF IInv, OwnerDeletes
  <1>5. OwnerDeletes'
    <2> SUFFICES ASSUME NEW j \in Instance, NEW n \in 1 .. Len(toRedis'[j]),
                        toRedis'[j][n] = "del"
                 PROVE  /\ process'[j] = "stopping"
                        /\ leaderKey' = j
                        /\ \A m \in 1 .. Len(toRedis'[j]) : toRedis'[j][m] = "del" => m = n
        BY DEF OwnerDeletes
    <2>1. CASE j # i
      <3>1. toRedis'[j] = toRedis[j]
          BY <2>1 DEF IInv, TypeOK, Shutdown, send
      <3> QED
          BY <1>1, <2>1, <3>1 DEF IInv, TypeOK, OwnerDeletes
    <2>2. CASE j = i
      <3>1. isLeader(i) /\ toRedis'[i] = Append(toRedis[i], "del")
          BY <1>4, <2>2 DEF IInv, TypeOK, Shutdown, send
      <3>2. leaderKey = i
          BY <1>1, <3>1 DEF IInv, LeaderOwnsKey, Leads
      <3>3. \A m \in 1 .. Len(toRedis'[i]) : toRedis'[i][m] = "del" => m = Len(toRedis[i]) + 1
          BY <1>1, <1>4, <3>1
      <3> QED
          BY <1>1, <2>2, <3>2, <3>3 DEF IInv, TypeOK
    <2> QED
        BY <2>1, <2>2
  <1>6. NewIsSilent'
      BY <1>1 DEF IInv, TypeOK, NewIsSilent, Shutdown, send
  <1> QED
      BY <1>2, <1>3, <1>5, <1>6 DEF IInv

(***************************************************************************)
(* Undisturbed, only the key of a process that is gone expires.            *)
(***************************************************************************)
LEMMA ExpireKeeps ==
  ASSUME IInv, TypeOK', Undisturbed', Expire
  PROVE  IInv'
  <1>1. leaderKey \in Instance /\ ~Alive(leaderKey)
      BY BoundsAssumption DEF IInv, TypeOK, Expire, Undisturbed
  <1>2. UNCHANGED <<instanceRole, process, toRedis, fromRedis>>
      BY DEF Expire
  <1>3. \A j \in Instance : process[j] \in {"booting", "up", "stopping"} => leaderKey # j
      BY <1>1 DEF Alive
  <1>4. LeaderOwnsKey'
      BY <1>2, <1>3 DEF IInv, LeaderOwnsKey, Leads, isLeader
  <1>5. WinnerOwnsKey'
      BY <1>2, <1>3 DEF IInv, WinnerOwnsKey
  <1>6. OwnerDeletes'
      BY <1>2, <1>3 DEF IInv, OwnerDeletes
  <1>7. NewIsSilent'
      BY <1>2 DEF IInv, NewIsSilent
  <1> QED
      BY <1>4, <1>5, <1>6, <1>7 DEF IInv

(***************************************************************************)
(* A step that leaves the election undisturbed keeps the invariant.        *)
(***************************************************************************)
LEMMA NextIInv == IInv /\ [Next]_electionVars /\ Undisturbed' => IInv'
  <1> SUFFICES ASSUME IInv, [Next]_electionVars, Undisturbed' PROVE IInv'
      OBVIOUS
  <1>0. TypeOK'
      BY NextTypeOK DEF IInv
  <1>t. TypeOK
      BY DEF IInv
  <1>c. "get" \in Command \ {"del"} /\ "expire" \in Command \ {"del"} /\ "setnx" \in Command \ {"del"}
      BY DEF Command
  <1>1. CASE Expire
      BY <1>0, <1>1, ExpireKeeps
  <1>2. ASSUME NEW i \in Instance, InitSetup(i) PROVE IInv'
      BY <1>0, <1>t, <1>c, <1>2, QuietStep DEF InitSetup, send, Leads, isLeader, TypeOK
  <1>3. ASSUME NEW i \in Instance, CheckLeader(i) PROVE IInv'
      BY <1>0, <1>t, <1>c, <1>3, QuietStep DEF CheckLeader, send, Leads, isLeader, TypeOK
  <1>4. ASSUME NEW i \in Instance, Handle(i) PROVE IInv'
    <2>n. fromRedis[i] # <<>> => process[i] # "new"
        BY DEF IInv, NewIsSilent
    <2>1. CASE Renew(i)
        BY <1>0, <1>t, <1>c, <2>n, <2>1, QuietStep DEF Renew, handle, send, Leads, isLeader, TypeOK
    <2>2. CASE StepDown(i)
        BY <1>0, <1>t, <2>n, <2>2, QuietStep DEF StepDown, handle, markAs, Leads, isLeader, TypeOK
    <2>3. CASE StayFollower(i)
        BY <1>0, <1>t, <2>n, <2>3, QuietStep DEF StayFollower, handle, Leads, isLeader, TypeOK
    <2>4. CASE Vacant(i)
        BY <1>0, <1>t, <1>c, <2>n, <2>4, QuietStep
           DEF Vacant, handle, markAs, send, Leads, isLeader, TypeOK
    <2>5. CASE TakeOver(i)
        BY <1>0, <2>5, TakeOverKeeps
    <2>6. CASE Follow(i)
        BY <1>0, <1>t, <2>n, <2>6, QuietStep
           DEF Follow, handle, markAs, initialized, Leads, isLeader, TypeOK
    <2>7. CASE Acknowledged(i)
        BY <1>0, <1>t, <2>n, <2>7, QuietStep DEF Acknowledged, handle, Leads, isLeader, TypeOK
    <2> QED
        BY <1>4, <2>1, <2>2, <2>3, <2>4, <2>5, <2>6, <2>7 DEF Handle
  <1>5. ASSUME NEW i \in Instance, Execute(i) PROVE IInv'
      BY <1>0, <1>5, ExecuteKeeps
  <1>6. ASSUME NEW i \in Instance, Reconnect(i) PROVE IInv'
      BY <1>t, <1>6 DEF Reconnect, Undisturbed, TypeOK
  <1>7. ASSUME NEW i \in Instance, Shutdown(i) PROVE IInv'
      BY <1>0, <1>7, ShutdownKeeps
  <1>8. ASSUME NEW i \in Instance, ends(i) PROVE IInv'
      BY <1>0, <1>t, <1>8, QuietStep DEF ends, Leads, isLeader, TypeOK
  <1>9. CASE UNCHANGED electionVars
      BY <1>0, <1>9, QuietStep DEF electionVars, Leads, isLeader
  <1> QED
      BY <1>1, <1>2, <1>3, <1>4, <1>5, <1>6, <1>7, <1>8, <1>9 DEF Next, Exit, Crash

(***************************************************************************)
(* A disturbance is not forgotten: the counters only grow.                 *)
(***************************************************************************)
LEMMA DisturbancesStay == TypeOK /\ [Next]_electionVars /\ Undisturbed' => Undisturbed
  <1> SUFFICES ASSUME TypeOK, [Next]_electionVars
               PROVE  expiries' \in {expiries, expiries + 1} /\ reconnects' \in {reconnects, reconnects + 1}
      BY BoundsAssumption DEF TypeOK, Undisturbed
  <1> USE DEF bounds
  <1>1. CASE Expire
      BY <1>1 DEF Expire
  <1>2. ASSUME NEW i \in Instance, Handle(i) PROVE UNCHANGED <<expiries, reconnects>>
      BY <1>2 DEF Handle, Renew, StepDown, StayFollower, Vacant, TakeOver, Follow, Acknowledged
  <1>3. ASSUME NEW i \in Instance, InitSetup(i) \/ CheckLeader(i) \/ Execute(i) \/ Shutdown(i)
        PROVE  UNCHANGED <<expiries, reconnects>>
      BY <1>3 DEF InitSetup, CheckLeader, Execute, Shutdown
  <1>4. ASSUME NEW i \in Instance, Exit(i) \/ Crash(i) PROVE UNCHANGED <<expiries, reconnects>>
      BY <1>4 DEF Exit, Crash, ends
  <1>5. ASSUME NEW i \in Instance, Reconnect(i)
        PROVE  expiries' = expiries /\ reconnects' = reconnects + 1
      BY <1>5 DEF Reconnect
  <1>6. CASE UNCHANGED electionVars
      BY <1>6 DEF electionVars
  <1> QED
      BY <1>1, <1>2, <1>3, <1>4, <1>5, <1>6 DEF Next

(***************************************************************************)
(* No two running main processes lead at the same time, for any number of  *)
(* processes, overlapping checks, crashes and shutdowns, until a leader is *)
(* too slow to renew its key or a command is sent twice.                   *)
(***************************************************************************)
THEOREM SingleLeader == Spec => []AtMostOneLeader
  <1>1. Init => ElectionInv
      BY InstanceAssumption, BoundsAssumption
         DEF Init, ElectionInv, IInv, TypeOK, LeaderOwnsKey, WinnerOwnsKey, OwnerDeletes,
             NewIsSilent, Leads, isLeader
  <1>2. ElectionInv => AtMostOneLeader
      BY DEF ElectionInv, Undisturbed, IInv, LeaderOwnsKey, AtMostOneLeader
  <1>3. ElectionInv /\ [Next]_electionVars => ElectionInv'
    <2> SUFFICES ASSUME ElectionInv, [Next]_electionVars PROVE ElectionInv'
        OBVIOUS
    <2>1. TypeOK /\ TypeOK'
        BY NextTypeOK DEF ElectionInv
    <2>2. Undisturbed' => Undisturbed
        BY <2>1, DisturbancesStay
    <2> QED
        BY <2>1, <2>2, NextIInv DEF ElectionInv
  <1> QED
      BY <1>1, <1>2, <1>3, PTL DEF Spec

=============================================================================
