--------------------------- MODULE MultiMainSetup ---------------------------
(***************************************************************************)
(* Leader election among the main processes of a multi-main setup.  The    *)
(* leader is the process whose id is the value of a key in Redis; the key  *)
(* expires unless the leader renews it.  Every process checks the key at   *)
(* an interval, and a check is a chain of commands to Redis: a GET, and    *)
(* after its reply an EXPIRE, a SET NX or nothing.  The interval does not  *)
(* wait for the check before: when Redis is slow, checks overlap.          *)
(*                                                                         *)
(* A process has one connection, on which commands and replies keep their  *)
(* order.  Process ids are new at every start, so that a process starts    *)
(* once.                                                                   *)
(***************************************************************************)
EXTENDS Integers, Sequences, FiniteSets

CONSTANTS
    Instance,        \* main processes
    NoInstance,
    MaxChecks,       \* bound: leader checks of a process that overlap
    MaxExpiries,     \* bound: times the key expires although its owner lives
    MaxExits,        \* bound: processes that crash or shut down
    MaxReconnects    \* bound: connections that break with replies on the way

ASSUME InstanceAssumption == NoInstance \notin Instance
ASSUME BoundsAssumption ==
    /\ MaxChecks \in Nat \ {0}
    /\ MaxExpiries \in Nat
    /\ MaxExits \in Nat
    /\ MaxReconnects \in Nat

VARIABLES
    leaderKey,       \* value of the leader key, NoInstance if there is none
    instanceRole,
    process,         \* progress of each process
    toRedis,         \* commands that Redis has not executed yet
    fromRedis,       \* replies that the process has not handled yet
    expiries, exits, reconnects,
    selfRefused      \* processes whose SET NX was refused because the key is their own

bounds == <<expiries, exits, reconnects>>

(* selfRefused is read by properties only, and bounds by guards. *)
electionVars == <<leaderKey, instanceRole, process, toRedis, fromRedis, bounds, selfRefused>>

Command == {"get", "expire", "setnx", "del"}

(* A reply carries the value of a GET, or, for SET NX, the id of the       *)
(* process if the key was set.                                             *)
Reply == [command : Command, value : Instance \cup {NoInstance}]

TypeOK ==
    /\ leaderKey \in Instance \cup {NoInstance}
    /\ instanceRole \in [Instance -> {"unset", "leader", "follower"}]
    /\ process \in [Instance -> {"new", "booting", "up", "stopping", "gone"}]
    /\ toRedis \in [Instance -> Seq(Command)]
    /\ fromRedis \in [Instance -> Seq(Reply)]
    /\ expiries \in 0 .. MaxExpiries
    /\ exits \in 0 .. MaxExits
    /\ reconnects \in 0 .. MaxReconnects
    /\ selfRefused \subseteq Instance

Init ==
    /\ leaderKey = NoInstance
    /\ instanceRole = [i \in Instance |-> "unset"]
    /\ process = [i \in Instance |-> "new"]
    /\ toRedis = [i \in Instance |-> <<>>]
    /\ fromRedis = [i \in Instance |-> <<>>]
    /\ expiries = 0
    /\ exits = 0
    /\ reconnects = 0
    /\ selfRefused = {}

Alive(i) == process[i] \in {"booting", "up", "stopping"}

isLeader(i) == instanceRole[i] = "leader"

markAs(i, role) == instanceRole' = [instanceRole EXCEPT ![i] = role]

-----------------------------------------------------------------------------
(* Redis *)

send(i, command) == toRedis' = [toRedis EXCEPT ![i] = Append(@, command)]

(* The next reply of the process; a check goes on with it. *)
handle(i, command) ==
    /\ fromRedis[i] # <<>>
    /\ Head(fromRedis[i]).command = command
    /\ fromRedis' = [fromRedis EXCEPT ![i] = Tail(@)]

(* Redis executes the next command of a process.  That the key is refused  *)
(* to its owner is remembered until it is lost.                            *)
Execute(i) ==
    /\ toRedis[i] # <<>>
    /\ LET command == Head(toRedis[i])
           value == CASE command = "get" -> leaderKey
                      [] command = "setnx" -> IF leaderKey = NoInstance THEN i ELSE NoInstance
                      [] OTHER -> NoInstance
       IN  /\ leaderKey' = CASE command = "setnx" /\ leaderKey = NoInstance -> i
                             [] command = "del" -> NoInstance
                             [] OTHER -> leaderKey
           /\ fromRedis' = [fromRedis EXCEPT ![i] = Append(@, [command |-> command, value |-> value])]
           /\ selfRefused' = CASE command = "del" -> {}
                               [] command = "setnx" /\ leaderKey = i -> selfRefused \cup {i}
                               [] OTHER -> selfRefused
    /\ toRedis' = [toRedis EXCEPT ![i] = Tail(@)]
    /\ UNCHANGED <<instanceRole, process, bounds>>

(* The key expires: its owner is gone or, within the bound, too slow to    *)
(* renew it.                                                               *)
Expire ==
    /\ leaderKey # NoInstance
    /\ Alive(leaderKey) => expiries < MaxExpiries
    /\ expiries' = IF Alive(leaderKey) THEN expiries + 1 ELSE expiries
    /\ leaderKey' = NoInstance
    /\ selfRefused' = {}
    /\ UNCHANGED <<instanceRole, process, toRedis, fromRedis, exits, reconnects>>

(* A connection breaks: the client sends the commands again whose replies  *)
(* are lost.                                                               *)
Reconnect(i) ==
    /\ reconnects < MaxReconnects
    /\ fromRedis[i] # <<>>
    /\ reconnects' = reconnects + 1
    /\ toRedis' = [toRedis EXCEPT ![i] =
                      [n \in 1 .. Len(fromRedis[i]) |-> fromRedis[i][n].command] \o @]
    /\ fromRedis' = [fromRedis EXCEPT ![i] = <<>>]
    /\ UNCHANGED <<leaderKey, instanceRole, process, expiries, exits, selfRefused>>

-----------------------------------------------------------------------------
(* The main processes *)

(* init, up to the await in tryBecomeLeader. *)
InitSetup(i) ==
    /\ process[i] = "new"
    /\ process' = [process EXCEPT ![i] = "booting"]
    /\ send(i, "setnx")
    /\ UNCHANGED <<leaderKey, instanceRole, fromRedis, bounds, selfRefused>>

(* The interval timer starts a leader check. *)
CheckLeader(i) ==
    /\ process[i] = "up"
    /\ Len(toRedis[i]) + Len(fromRedis[i]) < MaxChecks
    /\ send(i, "get")
    /\ UNCHANGED <<leaderKey, instanceRole, process, fromRedis, bounds, selfRefused>>

(* Mutant: the key is made persistent with another command. *)
RenewPersist(i) ==
    /\ handle(i, "get")
    /\ Head(fromRedis[i]).value = i
    /\ send(i, "persist")
    /\ UNCHANGED <<leaderKey, instanceRole, process, bounds, selfRefused>>

(* checkLeader when the key holds this id: the key is renewed. *)
Renew(i) ==
    /\ handle(i, "get")
    /\ Head(fromRedis[i]).value = i
    /\ send(i, "expire")
    /\ UNCHANGED <<leaderKey, instanceRole, process, bounds, selfRefused>>

(* Mutant: the process goes on leading. *)
StepDownIgnored(i) ==
    /\ handle(i, "get")
    /\ Head(fromRedis[i]).value \notin {i, NoInstance}
    /\ isLeader(i)
    /\ UNCHANGED <<leaderKey, instanceRole, process, toRedis, bounds, selfRefused>>

(* checkLeader when the key holds another id and this process leads: it    *)
(* becomes a follower and emits leader-stepdown.                           *)
StepDown(i) ==
    /\ handle(i, "get")
    /\ Head(fromRedis[i]).value \notin {i, NoInstance}
    /\ isLeader(i)
    /\ markAs(i, "follower")
    /\ UNCHANGED <<leaderKey, process, toRedis, bounds, selfRefused>>

(* checkLeader when the key holds another id and this process follows. *)
StayFollower(i) ==
    /\ handle(i, "get")
    /\ Head(fromRedis[i]).value \notin {i, NoInstance}
    /\ ~isLeader(i)
    /\ UNCHANGED <<leaderKey, instanceRole, process, toRedis, bounds, selfRefused>>

(* Mutant: the attempt to become the leader is left to the next check. *)
VacantWaits(i) ==
    /\ handle(i, "get")
    /\ Head(fromRedis[i]).value = NoInstance
    /\ markAs(i, "follower")
    /\ UNCHANGED <<leaderKey, process, toRedis, bounds, selfRefused>>

(* checkLeader when leadership is vacant: the process becomes a follower,  *)
(* emits leader-stepdown and tries to become the leader.                   *)
Vacant(i) ==
    /\ handle(i, "get")
    /\ Head(fromRedis[i]).value = NoInstance
    /\ markAs(i, "follower")
    /\ send(i, "setnx")
    /\ UNCHANGED <<leaderKey, process, bounds, selfRefused>>

(* init goes on after its first attempt. *)
initialized(i) == process' = [process EXCEPT ![i] = IF @ = "booting" THEN "up" ELSE @]

(* tryBecomeLeader when the key was set: leader-takeover is emitted. *)
TakeOver(i) ==
    /\ handle(i, "setnx")
    /\ Head(fromRedis[i]).value = i
    /\ markAs(i, "leader")
    /\ initialized(i)
    /\ UNCHANGED <<leaderKey, toRedis, bounds, selfRefused>>

(* Mutant: the process leads whatever the reply is. *)
FollowAsLeader(i) ==
    /\ handle(i, "setnx")
    /\ Head(fromRedis[i]).value = NoInstance
    /\ markAs(i, "leader")
    /\ initialized(i)
    /\ UNCHANGED <<leaderKey, toRedis, bounds, selfRefused>>

(* tryBecomeLeader when the key was there; no event is emitted. *)
Follow(i) ==
    /\ handle(i, "setnx")
    /\ Head(fromRedis[i]).value = NoInstance
    /\ markAs(i, "follower")
    /\ initialized(i)
    /\ UNCHANGED <<leaderKey, toRedis, bounds, selfRefused>>

(* The replies of EXPIRE and DEL end what waited for them. *)
Acknowledged(i) ==
    /\ \E command \in {"expire", "del"} : handle(i, command)
    /\ UNCHANGED <<leaderKey, instanceRole, process, toRedis, bounds, selfRefused>>

(* shutdown: a leader deletes the key, whoever owns it by then. *)
Shutdown(i) ==
    /\ process[i] = "up"
    /\ exits < MaxExits
    /\ exits' = exits + 1
    /\ process' = [process EXCEPT ![i] = "stopping"]
    /\ IF isLeader(i) THEN send(i, "del") ELSE UNCHANGED toRedis
    /\ UNCHANGED <<leaderKey, instanceRole, fromRedis, expiries, reconnects, selfRefused>>

(* The process ends, and its connection with it. *)
ends(i) ==
    /\ process' = [process EXCEPT ![i] = "gone"]
    /\ toRedis' = [toRedis EXCEPT ![i] = <<>>]
    /\ fromRedis' = [fromRedis EXCEPT ![i] = <<>>]
    /\ UNCHANGED <<leaderKey, instanceRole, expiries, reconnects, selfRefused>>

Exit(i) ==
    /\ process[i] = "stopping"
    /\ \A n \in 1 .. Len(toRedis[i]) : toRedis[i][n] # "del"
    /\ \A n \in 1 .. Len(fromRedis[i]) : fromRedis[i][n].command # "del"
    /\ ends(i)
    /\ UNCHANGED exits

Crash(i) ==
    /\ Alive(i)
    /\ exits < MaxExits
    /\ exits' = exits + 1
    /\ ends(i)

-----------------------------------------------------------------------------
Handle(i) ==
    \/ Renew(i) \/ StepDown(i) \/ StayFollower(i) \/ Vacant(i)
    \/ TakeOver(i) \/ Follow(i) \/ Acknowledged(i)

Next ==
    \/ Expire
    \/ \E i \in Instance :
          \/ InitSetup(i) \/ CheckLeader(i) \/ Handle(i)
          \/ Execute(i) \/ Reconnect(i)
          \/ Shutdown(i) \/ Exit(i) \/ Crash(i)

Spec == Init /\ [][Next]_electionVars

(* Commands are executed, replies arrive, the interval timer fires, a key  *)
(* whose owner is gone expires and a process that stops exits.             *)
Fairness ==
    /\ WF_electionVars(Expire /\ ~Alive(leaderKey))
    /\ \A i \in Instance :
          /\ WF_electionVars(InitSetup(i))
          /\ WF_electionVars(CheckLeader(i))
          /\ WF_electionVars(Handle(i))
          /\ WF_electionVars(Execute(i))
          /\ WF_electionVars(Exit(i))

FairSpec == Spec /\ Fairness

-----------------------------------------------------------------------------
(* Properties *)

Leads(i) == process[i] = "up" /\ isLeader(i)

(***************************************************************************)
(* Until a leader is too slow to renew its key or a command is sent twice, *)
(* no two running processes lead at the same time, however checks overlap  *)
(* and processes crash or shut down (checkLeader, tryBecomeLeader,         *)
(* shutdown).                                                              *)
(***************************************************************************)
AtMostOneLeader ==
    (expiries = 0 /\ reconnects = 0)
        => \A i, j \in Instance : Leads(i) /\ Leads(j) => i = j

(***************************************************************************)
(* After the last disturbance exactly one process leads for ever, and the  *)
(* key is its own: lost keys, crashes and shutdowns leave neither two      *)
(* leaders nor none (checkLeader).  Only when the owner of the key tried   *)
(* to set it again, because two of its checks had found leadership vacant  *)
(* or because the command was sent twice, nobody leads: the first SET NX   *)
(* makes it the leader, the answer to the second one makes it a follower,  *)
(* and all later checks find the key to be its own and renew it.           *)
(***************************************************************************)
Converges ==
    <>[](\E i \in Instance :
            /\ leaderKey = i
            /\ {j \in Instance : Leads(j)} = IF i \in selfRefused THEN {} ELSE {i})

(***************************************************************************)
(* A leader whose key has passed to another process steps down, also when  *)
(* checks overlap and commands are sent again (checkLeader).               *)
(***************************************************************************)
StaleLeaderYields ==
    \A i \in Instance :
        (Leads(i) /\ leaderKey \notin {i, NoInstance}) ~> (~Leads(i) \/ leaderKey = i)

=============================================================================
