---------------------------- MODULE TaskDispatch ----------------------------
(***************************************************************************)
(* What the task broker promises to the calls of startTask: a call is put  *)
(* to one place of its type at a time, the place either declines it or     *)
(* begins to run it, a call that runs ends once, with a result or because  *)
(* its place is lost, and what has ended is never put to a place again.    *)
(* There is nothing of offers, messages, timers and connections.           *)
(***************************************************************************)
EXTENDS Naturals

CONSTANTS
    Call,
    NoCall,
    Place,        \* where a task can run
    CallType,
    PlaceType

VARIABLES
    call,         \* progress of each call
    asked,        \* the call that each place is asked to run
    task          \* the call that each place runs

vars == <<call, asked, task>>

Init ==
    /\ call = [c \in Call |-> "idle"]
    /\ asked = [p \in Place |-> NoCall]
    /\ task = [p \in Place |-> NoCall]

IsFree(p) == asked[p] = NoCall /\ task[p] = NoCall

(* The calls `new` come in, and some of the calls that wait are each put to *)
(* a free place of their type.                                              *)
Dispatch(new) ==
    /\ call' = [c \in Call |-> IF c \in new THEN "requested" ELSE call[c]]
    /\ asked' \in [Place -> Call \cup {NoCall}]
    /\ \A p \in Place : asked'[p] # asked[p] =>
          /\ IsFree(p)
          /\ call'[asked'[p]] = "requested"
          /\ PlaceType[p] = CallType[asked'[p]]
          /\ \A q \in Place \ {p} : asked'[q] # asked'[p]
    /\ UNCHANGED task

Come(c) == call[c] = "idle" /\ Dispatch({c})

Decline(p) ==
    /\ asked[p] # NoCall
    /\ asked' = [asked EXCEPT ![p] = NoCall]
    /\ UNCHANGED <<call, task>>

Begin(p) ==
    /\ asked[p] # NoCall
    /\ call[asked[p]] = "requested"
    /\ task' = [task EXCEPT ![p] = asked[p]]
    /\ call' = [call EXCEPT ![asked[p]] = "started"]
    /\ asked' = [asked EXCEPT ![p] = NoCall]

End(p, result) ==
    /\ task[p] # NoCall
    /\ call[task[p]] = "started"
    /\ task' = [task EXCEPT ![p] = NoCall]
    /\ call' = [call EXCEPT ![task[p]] = result]
    /\ UNCHANGED asked

(* The places P are lost, and with them what they run. *)
Lose(P) ==
    /\ \A p \in P : task[p] # NoCall => call[task[p]] = "started"
    /\ task' = [p \in Place |-> IF p \in P THEN NoCall ELSE task[p]]
    /\ call' = [c \in Call |-> IF \E p \in P : task[p] = c THEN "error" ELSE call[c]]
    /\ UNCHANGED asked

Next ==
    \/ Dispatch({})
    \/ \E c \in Call : Come(c)
    \/ \E p \in Place : Decline(p) \/ Begin(p) \/ End(p, "done") \/ End(p, "error")
    \/ \E P \in SUBSET Place : Lose(P)

Spec == Init /\ [][Next]_vars

=============================================================================
