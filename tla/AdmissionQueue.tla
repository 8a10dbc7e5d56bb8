--------------------------- MODULE AdmissionQueue ---------------------------
(***************************************************************************)
(* What concurrency control promises to the calls that ask for a slot:     *)
(* each one comes in once, at once while there is room and nobody waits,   *)
(* and else in the order in which the calls came; a slot that is given     *)
(* back goes to the first call that waits in the same step.  There is no   *)
(* account of free slots, and nothing of executions, promises or rows.     *)
(***************************************************************************)
EXTENDS Naturals, Sequences, FiniteSets, SequencesExt

CONSTANTS
    Call,
    QueueType,
    QueueOf,    \* queue type of a call; others than the limited ones do not wait
    Limited,    \* queue types with a limit
    Limit       \* their limits

VARIABLES
    open,       \* whether calls are held back at all
    waiting,    \* calls of each type that wait, in order
    place       \* "outside", "waiting", "inside" or "gone"

vars == <<open, waiting, place>>

Inside(t) == {c \in Call : QueueOf[c] = t /\ place[c] = "inside"}

IsHeldBack(c) == open /\ QueueOf[c] \in Limited

Init ==
    /\ open = (Limited # {})
    /\ waiting = [t \in QueueType |-> <<>>]
    /\ place = [c \in Call |-> "outside"]

Enter(c) ==
    /\ place[c] = "outside"
    /\ IsHeldBack(c) => /\ waiting[QueueOf[c]] = <<>>
                        /\ Cardinality(Inside(QueueOf[c])) < Limit[QueueOf[c]]
    /\ place' = [place EXCEPT ![c] = "inside"]
    /\ UNCHANGED <<open, waiting>>

Wait(c) ==
    /\ place[c] = "outside"
    /\ IsHeldBack(c)
    /\ Cardinality(Inside(QueueOf[c])) >= Limit[QueueOf[c]]
    /\ waiting' = [waiting EXCEPT ![QueueOf[c]] = Append(@, c)]
    /\ place' = [place EXCEPT ![c] = "waiting"]
    /\ UNCHANGED open

(* Call c is gone, and the first of the calls q is let in. *)
Goes(c, q) ==
    LET gone == [place EXCEPT ![c] = "gone"]
    IN  /\ waiting' = [waiting EXCEPT ![QueueOf[c]] = IF q = <<>> THEN q ELSE Tail(q)]
        /\ place' = IF q = <<>> THEN gone ELSE [gone EXCEPT ![Head(q)] = "inside"]
        /\ UNCHANGED open

Leave(c) ==
    /\ place[c] = "inside"
    /\ IF IsHeldBack(c)
       THEN Goes(c, waiting[QueueOf[c]])
       ELSE /\ place' = [place EXCEPT ![c] = "gone"]
            /\ UNCHANGED <<open, waiting>>

(* A call that gives up lets the first of the others in, as if it had left *)
(* a slot.                                                                 *)
GiveUp(c) ==
    /\ IsHeldBack(c)
    /\ place[c] = "waiting"
    /\ \E i \in 1 .. Len(waiting[QueueOf[c]]) :
          /\ waiting[QueueOf[c]][i] = c
          /\ Goes(c, RemoveAt(waiting[QueueOf[c]], i))

(* From now on nobody is held back; those who wait are forgotten, and some *)
(* of those inside leave.                                                  *)
Close ==
    /\ open
    /\ open' = FALSE
    /\ \E left \in SUBSET {c \in Call : place[c] = "inside"} :
          place' = [c \in Call |-> IF c \in left THEN "gone" ELSE place[c]]
    /\ UNCHANGED waiting

Next == Close \/ \E c \in Call : Enter(c) \/ Wait(c) \/ Leave(c) \/ GiveUp(c)

Spec == Init /\ [][Next]_vars

=============================================================================
