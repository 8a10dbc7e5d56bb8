---------------------- MODULE ConcurrencyControlProofs ----------------------
(***************************************************************************)
(* Proofs about ConcurrencyControl, for every set of calls and executions, *)
(* every mode of each and every pair of limits.                            *)
(*                                                                         *)
(* The inductive invariant IInv adds to the properties checked by TLC that *)
(* a call with a pending post-execution promise was let through            *)
(* (Registered), so that a slot is never counted twice.  Every way a slot  *)
(* comes back goes through freeAndResolveNext, and one lemma, SlotFreed,   *)
(* covers all of them.  The same invariant carries the refinement: with    *)
(* the capacity accounted for, the counter tells exactly when nobody waits *)
(* and there is room.                                                      *)
(***************************************************************************)
EXTENDS ConcurrencyControl, FiniteSetTheorems, SequenceTheorems, TLAPS

Rng(q) == {q[i] : i \in 1 .. Len(q)}

Injective(q) == \A i, j \in 1 .. Len(q) : q[i] = q[j] => i = j

Registered == \A c \in pending : phase[c] \in {"running", "canceling", "ended"}

(* The books of the service: its queues, its capacities and the calls.     *)
Books ==
    /\ capacity \in [QueueType -> Int]
    /\ queue \in [QueueType -> Seq(Call)]
    /\ phase \in [Call -> Phase]
    /\ pending \in SUBSET Call
    /\ QueuedIffThrottled
    /\ Registered
    /\ CapacityAccounting
    /\ WorkConserving

IInv == TypeOK /\ Books

-----------------------------------------------------------------------------
(* Facts about the sequences of waiting calls *)

(* Taking the head off a queue without duplicates removes exactly the head. *)
LEMMA TailRange ==
    ASSUME NEW q \in Seq(Call), q # <<>>, Injective(q)
    PROVE  /\ Tail(q) \in Seq(Call)
           /\ Head(q) \in Rng(q)
           /\ Head(q) \in Call
           /\ Injective(Tail(q))
           /\ Rng(Tail(q)) = Rng(q) \ {Head(q)}
  <1>1. /\ Len(q) \in Nat
        /\ Len(q) >= 1
        /\ Tail(q) \in Seq(Call)
        /\ Len(Tail(q)) = Len(q) - 1
        /\ Head(q) = q[1]
        /\ \A i \in 1 .. Len(q) : q[i] \in Call
        /\ \A i \in 1 .. Len(q) - 1 : Tail(q)[i] = q[i + 1]
    OBVIOUS
  <1>2. Injective(Tail(q))
    BY <1>1 DEF Injective
  <1>3. Rng(Tail(q)) \subseteq Rng(q) \ {Head(q)}
    BY <1>1 DEF Injective, Rng
  <1>4. ASSUME NEW c \in Rng(q) \ {Head(q)} PROVE c \in Rng(Tail(q))
    <2>1. PICK i \in 1 .. Len(q) : q[i] = c
      BY DEF Rng
    <2>2. i # 1 /\ i - 1 \in 1 .. Len(Tail(q)) /\ Tail(q)[i - 1] = c
      BY <1>1, <2>1
    <2> QED BY <2>2 DEF Rng
  <1>5. Rng(Tail(q)) = Rng(q) \ {Head(q)}
    BY <1>3, <1>4
  <1>6. Head(q) \in Rng(q) /\ Head(q) \in Call
    BY <1>1 DEF Rng
  <1> QED BY <1>1, <1>2, <1>5, <1>6

(* Splicing one entry out of a queue without duplicates removes exactly    *)
(* that entry (ConcurrencyQueue.remove).                                   *)
LEMMA WithoutRange ==
    ASSUME NEW q \in Seq(Call), NEW k \in 1 .. Len(q), Injective(q)
    PROVE  /\ without(q, k) \in Seq(Call)
           /\ Injective(without(q, k))
           /\ Rng(without(q, k)) = Rng(q) \ {q[k]}
  <1> DEFINE a == SubSeq(q, 1, k - 1)
  <1> DEFINE b == SubSeq(q, k + 1, Len(q))
  <1> DEFINE w == without(q, k)
  <1>1. /\ Len(q) \in Nat
        /\ \A i \in 1 .. Len(q) : q[i] \in Call
    OBVIOUS
  <1>2. /\ a \in Seq(Call)
        /\ Len(a) = k - 1
        /\ \A i \in 1 .. k - 1 : a[i] = q[i]
        /\ b \in Seq(Call)
        /\ Len(b) = Len(q) - k
        /\ \A i \in 1 .. Len(q) - k : b[i] = q[i + k]
    BY <1>1
  <1>3. /\ w \in Seq(Call)
        /\ Len(w) = Len(q) - 1
        /\ \A i \in 1 .. Len(q) - 1 : w[i] = IF i < k THEN q[i] ELSE q[i + 1]
    <2>1. w = a \o b
      BY DEF without
    <2> HIDE DEF a, b, w
    <2>2. /\ a \o b \in Seq(Call)
          /\ Len(a \o b) = Len(a) + Len(b)
          /\ \A i \in 1 .. Len(a) + Len(b) :
                (a \o b)[i] = IF i <= Len(a) THEN a[i] ELSE b[i - Len(a)]
      BY <1>2, ConcatProperties
    <2>3. Len(a) + Len(b) = Len(q) - 1
      BY <1>1, <1>2
    <2>4. ASSUME NEW i \in 1 .. Len(q) - 1
          PROVE  w[i] = IF i < k THEN q[i] ELSE q[i + 1]
      <3>1. CASE i < k
        BY <1>1, <1>2, <2>1, <2>2, <2>3, <3>1
      <3>2. CASE i >= k
        <4>1. w[i] = b[i - Len(a)] /\ i - Len(a) \in 1 .. Len(q) - k
          <5>1. /\ k \in Int /\ i \in Int /\ Len(a) = k - 1
                /\ 1 <= i /\ i <= Len(q) - 1 /\ Len(q) \in Nat
            BY <1>1, <1>2
          <5>2. i - Len(a) \in 1 .. Len(q) - k /\ ~(i <= Len(a))
            BY <3>2, <5>1
          <5>3. i \in 1 .. Len(a) + Len(b)
            BY <2>3, <5>1
          <5>4. (a \o b)[i] = b[i - Len(a)]
            BY <2>2, <5>2, <5>3
          <5> QED BY <2>1, <5>2, <5>4
        <4>2. b[i - Len(a)] = q[(i - Len(a)) + k]
          BY <1>2, <4>1
        <4>3. (i - Len(a)) + k = i + 1
          BY <1>1, <1>2
        <4> QED BY <3>2, <4>1, <4>2, <4>3
      <3> QED BY <1>1, <3>1, <3>2
    <2> QED BY <2>1, <2>2, <2>3, <2>4
  <1> HIDE DEF w
  <1>4. Injective(w)
    BY <1>1, <1>3 DEF Injective
  <1>5. Rng(w) \subseteq Rng(q) \ {q[k]}
    BY <1>1, <1>3 DEF Injective, Rng
  <1>6. ASSUME NEW c \in Rng(q) \ {q[k]} PROVE c \in Rng(w)
    <2>1. PICK i \in 1 .. Len(q) : q[i] = c
      BY DEF Rng
    <2>2. CASE i < k
      BY <1>1, <1>3, <2>1, <2>2 DEF Rng
    <2>3. CASE i > k
      <3>1. i - 1 \in 1 .. Len(w) /\ w[i - 1] = c
        BY <1>1, <1>3, <2>1, <2>3
      <3> QED BY <3>1 DEF Rng
    <2> QED BY <1>1, <2>1, <2>2, <2>3
  <1>7. Rng(w) = Rng(q) \ {q[k]}
    BY <1>5, <1>6
  <1> QED BY <1>3, <1>4, <1>7 DEF w

(* Appending a call that is not in the queue adds exactly that call. *)
LEMMA AppendRange ==
    ASSUME NEW q \in Seq(Call), NEW c \in Call, c \notin Rng(q), Injective(q)
    PROVE  /\ Append(q, c) \in Seq(Call)
           /\ Injective(Append(q, c))
           /\ Rng(Append(q, c)) = Rng(q) \cup {c}
  <1> DEFINE w == Append(q, c)
  <1>1. /\ Len(q) \in Nat
        /\ w \in Seq(Call)
        /\ Len(w) = Len(q) + 1
        /\ \A i \in 1 .. Len(q) : w[i] = q[i]
        /\ w[Len(q) + 1] = c
    OBVIOUS
  <1>2. Injective(w)
    BY <1>1 DEF Injective, Rng
  <1>3. Rng(w) = Rng(q) \cup {c}
    BY <1>1 DEF Rng
  <1> QED BY <1>1, <1>2, <1>3

-----------------------------------------------------------------------------
(* Slots *)

(* One slot more is one holder less. *)
LEMMA OneMore ==
    ASSUME NEW free \in Int, NEW limit \in Int, NEW n \in Nat, free = limit - n
    PROVE  free + 1 = limit - (n - 1)
  OBVIOUS

(* One slot less is one holder more. *)
LEMMA OneLess ==
    ASSUME NEW free \in Int, NEW limit \in Int, NEW n \in Nat, free = limit - n
    PROVE  free - 1 = limit - (n + 1)
  OBVIOUS

(* A set of calls is finite, and its size is a number. *)
LEMMA CallsAreFinite ==
    ASSUME NEW S \in SUBSET Call
    PROVE  IsFiniteSet(S) /\ Cardinality(S) \in Nat
  BY ConstantsAssumption, FS_Subset, FS_CardinalityType

(***************************************************************************)
(* Every way a slot comes back keeps the books right: call d, which held a *)
(* slot or waited for one, gives it up, and the head of the remaining      *)
(* queue q, if any, takes it over (ConcurrencyQueue.resolveNext).          *)
(***************************************************************************)
LEMMA SlotFreed ==
    ASSUME IInv, isEnabled, isEnabled' = isEnabled,
           NEW t \in Limited,
           NEW STATE q, q \in Seq(Call), Injective(q),
           NEW STATE left, left \in [Call -> Phase],
           NEW STATE d, d \in Call, getQueue(ModeOf[d]) = t,
           phase[d] = "throttled" \/ d \in pending,
           freeAndResolveNext(t, q, left),
           pending' \in SUBSET Call,
           \A c \in Call : left[c] = "throttled" <=> (phase[c] = "throttled" /\ c # d),
           \A c \in Call : left[c] = "admitted" <=> phase[c] = "admitted",
           \A c \in Call : c \in pending' <=> (c \in pending /\ c # d),
           \A c \in pending' : left[c] \in {"running", "canceling", "ended"},
           Rng(q) = Rng(queue[t]) \ {d}
    PROVE  Books'
  <1> DEFINE T(c) == getQueue(ModeOf[c])
  <1>1. /\ t \in QueueType
        /\ limits[t] \in Int
        /\ \A u \in Limited : u \in QueueType
        /\ capacity \in [QueueType -> Int]
        /\ queue \in [QueueType -> Seq(Call)]
        /\ phase \in [Call -> Phase]
        /\ pending \in SUBSET Call
    BY ConstantsAssumption DEF IInv, TypeOK, Limited, limits
  <1>2. /\ Rng(queue[t]) = {c \in Call : T(c) = t /\ phase[c] = "throttled"}
        /\ Rng(q) = {c \in Call : T(c) = t /\ left[c] = "throttled"}
    <2>1. Rng(queue[t]) = Throttled(t)
      BY <1>1 DEF IInv, Books, QueuedIffThrottled, InQueue, Rng
    <2>2. Rng(queue[t]) = {c \in Call : T(c) = t /\ phase[c] = "throttled"}
      BY <2>1 DEF Throttled
    <2> QED BY <2>2
  <1>3. /\ capacity' = [capacity EXCEPT ![t] = @ + 1]
        /\ capacity' \in [QueueType -> Int]
        /\ \A u \in QueueType : capacity'[u] = IF u = t THEN capacity[u] + 1 ELSE capacity[u]
    BY <1>1 DEF freeAndResolveNext
  <1>4. /\ queue' \in [QueueType -> Seq(Call)]
        /\ \A u \in QueueType \ {t} : queue'[u] = queue[u]
        /\ queue'[t] = IF q = <<>> THEN q ELSE Tail(q)
    <2>1. (IF q = <<>> THEN q ELSE Tail(q)) \in Seq(Call)
      BY TailRange
    <2> QED BY <1>1, <2>1 DEF freeAndResolveNext
  <1> DEFINE next == IF q = <<>> THEN {} ELSE {Head(q)}
  <1>5. next \subseteq Rng(q) /\ next \subseteq Call
    BY TailRange
  <1>6. /\ phase' \in [Call -> Phase]
        /\ \A c \in Call : phase'[c] = IF c \in next THEN "admitted" ELSE left[c]
    <2>1. CASE q = <<>>
      BY <2>1 DEF freeAndResolveNext
    <2>2. CASE q # <<>>
      BY <2>2, <1>5 DEF freeAndResolveNext, Phase
    <2> QED BY <2>1, <2>2
  <1>7. Injective(queue'[t]) /\ Rng(queue'[t]) = Rng(q) \ next
    BY <1>4, TailRange
  <1> HIDE DEF next
  <1>8. \A c \in next : T(c) = t /\ left[c] = "throttled" /\ phase[c] = "throttled" /\ c # d
    BY <1>2, <1>5
  <1>9. ASSUME NEW u \in QueueType \ {t}
        PROVE  Throttled(u)' = Throttled(u) /\ Executing(u)' = Executing(u)
    BY <1>1, <1>6, <1>8 DEF Throttled, Executing
  <1>10. Throttled(t)' = Rng(q) \ next
    BY <1>2, <1>6, <1>8 DEF Throttled
  <1>11. Executing(t)' = (Executing(t) \ {d}) \cup next
    <2>1. \A c : /\ c \in Executing(t) <=> c \in Call /\ T(c) = t /\ (phase[c] = "admitted" \/ c \in pending)
                 /\ c \in Executing(t)' <=> c \in Call /\ T(c) = t /\ (phase'[c] = "admitted" \/ c \in pending')
      BY DEF Executing
    <2>2. ASSUME NEW c \in next PROVE c \in Executing(t)'
      BY <1>5, <1>6, <1>8, <2>1, <2>2
    <2>3. ASSUME NEW c \in Call, c \notin next PROVE c \in Executing(t)' <=> c \in Executing(t) \ {d}
      <3>1. phase'[c] = left[c]
        BY <1>6, <2>3
      <3>2. phase[d] # "admitted"
        <4>1. \A x \in pending : phase[x] # "admitted"
          BY DEF IInv, Books, Registered
        <4> QED BY <4>1
      <3>3. left[d] # "admitted" /\ d \notin pending'
        BY <3>2
      <3>4. c \notin pending' <=> c \notin pending \/ c = d
        OBVIOUS
      <3>5. left[c] = "admitted" <=> phase[c] = "admitted"
        OBVIOUS
      <3> QED BY <2>1, <3>1, <3>3, <3>4, <3>5
    <2> QED BY <1>5, <2>1, <2>2, <2>3
  <1>12. Throttled(t) = Rng(queue[t])
    BY <1>2 DEF Throttled
  <1>13. Registered'
    <2> SUFFICES ASSUME NEW c \in pending'
                 PROVE  phase'[c] \in {"running", "canceling", "ended"}
      BY DEF Registered
    <2>1. c \in Call /\ left[c] \in {"running", "canceling", "ended"}
      OBVIOUS
    <2> QED BY <1>6, <1>8, <2>1
  <1>14. QueuedIffThrottled'
    <2> SUFFICES ASSUME NEW u \in QueueType
                 PROVE  /\ InQueue(u)' = Throttled(u)'
                        /\ Injective(queue'[u])
                        /\ u \notin Limited => queue'[u] = <<>>
      BY DEF QueuedIffThrottled, Injective
    <2>1. InQueue(u)' = Rng(queue'[u]) /\ InQueue(u) = Rng(queue[u])
      BY DEF InQueue, Rng
    <2>2. CASE u = t
      BY <1>7, <1>10, <2>1, <2>2
    <2>3. CASE u # t
      <3>1. Injective(queue[u]) /\ InQueue(u) = Throttled(u) /\ (u \notin Limited => queue[u] = <<>>)
        BY DEF IInv, Books, QueuedIffThrottled, Injective
      <3> QED BY <1>4, <1>9, <2>1, <2>3, <3>1
    <2> QED BY <2>2, <2>3
  <1>15. CapacityAccounting'
    <2> DEFINE U == Executing(t) \cup Throttled(t)
    <2>1. U \in SUBSET Call /\ d \in U
      BY DEF Executing, Throttled
    <2>2. (Executing(t) \cup Throttled(t))' = U \ {d}
      <3>1. Throttled(t)' = (Rng(queue[t]) \ {d}) \ next
        BY <1>10
      <3>2. next \subseteq Throttled(t) \ {d}
        BY <1>5, <1>12
      <3> QED BY <1>11, <1>12, <3>1, <3>2
    <2>3. Cardinality(U \ {d}) = Cardinality(U) - 1
      BY <2>1, CallsAreFinite, FS_RemoveElement
    <2>4. Cardinality(U) \in Nat
      BY <2>1, CallsAreFinite
    <2>5. capacity[t] = limits[t] - Cardinality(U)
      BY DEF IInv, Books, CapacityAccounting
    <2>6. capacity'[t] = limits[t] - Cardinality((Executing(t) \cup Throttled(t))')
      <3>1. capacity[t] \in Int
        BY <1>1
      <3>2. capacity[t] + 1 = limits[t] - (Cardinality(U) - 1)
        BY <1>1, <2>4, <2>5, <3>1, OneMore
      <3> QED BY <1>1, <1>3, <2>2, <2>3, <3>2
    <2>7. ASSUME NEW u \in Limited, u # t
          PROVE  capacity'[u] = limits[u] - Cardinality((Executing(u) \cup Throttled(u))')
      <3>1. capacity'[u] = capacity[u]
        BY <1>1, <1>3, <2>7
      <3>2. (Executing(u) \cup Throttled(u))' = Executing(u) \cup Throttled(u)
        BY <1>1, <1>9, <2>7
      <3>3. capacity[u] = limits[u] - Cardinality(Executing(u) \cup Throttled(u))
        BY DEF IInv, Books, CapacityAccounting
      <3> QED BY <3>1, <3>2, <3>3
    <2>8. \A u \in Limited :
              capacity'[u] = limits[u] - Cardinality((Executing(u) \cup Throttled(u))')
      BY <2>6, <2>7
    <2> QED BY <2>8 DEF CapacityAccounting
  <1>16. WorkConserving'
    <2>1. ASSUME queue'[t] # <<>> PROVE Cardinality(Executing(t)') >= limits[t]
      <3>1. q # <<>>
        BY <1>4, <2>1
      <3>2. PICK h \in Call : next = {h}
        BY <3>1, TailRange DEF next
      <3>3. h \in Rng(queue[t])
        BY <1>5, <3>2
      <3>4. queue[t] # <<>>
        BY <3>3 DEF Rng
      <3>5. Cardinality(Executing(t)) >= limits[t]
        BY <3>4 DEF IInv, Books, WorkConserving
      <3>6. h \notin Executing(t)
        <4>1. phase[h] = "throttled"
          BY <1>8, <3>2
        <4> QED BY <4>1 DEF Executing, IInv, Books, Registered
      <3>7. IsFiniteSet(Executing(t)) /\ Cardinality(Executing(t)) \in Nat
        <4>1. Executing(t) \in SUBSET Call
          BY DEF Executing
        <4> QED BY <4>1, CallsAreFinite
      <3>8. Cardinality(Executing(t)') = Cardinality(Executing(t) \ {d}) + 1
        <4>1. Executing(t)' = (Executing(t) \ {d}) \cup {h}
          BY <1>11, <3>2
        <4>2. IsFiniteSet(Executing(t) \ {d}) /\ h \notin Executing(t) \ {d}
          BY <3>6, <3>7, FS_RemoveElement
        <4> DEFINE S == Executing(t) \ {d}
        <4> HIDE DEF S
        <4>3. Cardinality(S \cup {h}) = Cardinality(S) + 1
          BY <4>2, FS_AddElement DEF S
        <4> QED BY <4>1, <4>3 DEF S
      <3>9. /\ Cardinality(Executing(t) \ {d}) \in Nat
            /\ Cardinality(Executing(t) \ {d}) >= Cardinality(Executing(t)) - 1
        <4>1. CASE d \in Executing(t)
          <5>1. Cardinality(Executing(t) \ {d}) = Cardinality(Executing(t)) - 1
            BY <3>7, <4>1, FS_RemoveElement
          <5>2. Executing(t) \ {d} \in SUBSET Call
            BY DEF Executing
          <5> QED BY <3>7, <5>1, <5>2, CallsAreFinite
        <4>2. CASE d \notin Executing(t)
          <5>1. Executing(t) \ {d} = Executing(t)
            BY <4>2
          <5> DEFINE n == Cardinality(Executing(t))
          <5>2. n \in Nat
            BY <3>7
          <5> HIDE DEF n
          <5>3. n >= n - 1
            BY <5>2
          <5> QED BY <5>1, <5>2, <5>3 DEF n
        <4> QED BY <4>1, <4>2
      <3> QED BY <1>1, <3>5, <3>7, <3>8, <3>9
    <2>2. ASSUME NEW u \in Limited, u # t, queue'[u] # <<>>
          PROVE  Cardinality(Executing(u)') >= limits[u]
      <3>1. queue[u] # <<>> /\ Executing(u)' = Executing(u)
        BY <1>1, <1>4, <1>9, <2>2
      <3> QED BY <3>1 DEF IInv, Books, WorkConserving
    <2>3. \A u \in Limited : queue'[u] # <<>> => Cardinality(Executing(u)') >= limits[u]
      BY <2>1, <2>2
    <2> QED BY <2>3 DEF WorkConserving
  <1> QED BY <1>3, <1>4, <1>6, <1>13, <1>14, <1>15, <1>16 DEF Books

(***************************************************************************)
(* A step that touches no queue and neither lets a throttled call through  *)
(* nor gives a slot up keeps the books.                                    *)
(***************************************************************************)
LEMMA BooksUntouched ==
    ASSUME IInv, capacity' = capacity, queue' = queue,
           phase' \in [Call -> Phase], pending' \in SUBSET Call,
           \A c \in Call : phase'[c] = "throttled" <=> phase[c] = "throttled",
           \A c \in pending' : phase'[c] \in {"running", "canceling", "ended"},
           isEnabled' => isEnabled,
           isEnabled' => \A c \in Call :
               getQueue(ModeOf[c]) \in Limited =>
                   ((phase'[c] = "admitted" \/ c \in pending')
                        <=> (phase[c] = "admitted" \/ c \in pending))
    PROVE  Books'
  <1>1. /\ capacity \in [QueueType -> Int]
        /\ queue \in [QueueType -> Seq(Call)]
    BY DEF IInv, TypeOK
  <1>2. \A t \in QueueType : Throttled(t)' = Throttled(t) /\ InQueue(t)' = InQueue(t)
    BY DEF Throttled, InQueue
  <1>3. QueuedIffThrottled'
    BY <1>2 DEF IInv, Books, QueuedIffThrottled
  <1>4. Registered'
    BY DEF Registered
  <1>5. isEnabled' => \A t \in Limited : t \in QueueType /\ Executing(t)' = Executing(t)
    BY DEF Executing, Limited
  <1>6. CapacityAccounting'
    BY <1>2, <1>5 DEF IInv, Books, CapacityAccounting
  <1>7. WorkConserving'
    BY <1>5 DEF IInv, Books, WorkConserving
  <1> QED BY <1>1, <1>3, <1>4, <1>6, <1>7 DEF Books

(***************************************************************************)
(* A call that takes a slot, or waits for one, is accounted for            *)
(* (ConcurrencyQueue.enqueue).                                             *)
(***************************************************************************)
LEMMA SlotTaken ==
    ASSUME IInv, isEnabled, isEnabled' = isEnabled, pending' = pending,
           NEW c \in Call, phase[c] = "called",
           NEW t \in Limited, getQueue(ModeOf[c]) = t,
           enqueue(t, c)
    PROVE  Books'
  <1>1. /\ t \in QueueType
        /\ limits[t] \in Int
        /\ \A u \in Limited : u \in QueueType
        /\ capacity \in [QueueType -> Int]
        /\ queue \in [QueueType -> Seq(Call)]
        /\ phase \in [Call -> Phase]
        /\ pending \in SUBSET Call
    BY ConstantsAssumption DEF IInv, TypeOK, Limited, limits
  <1>2. /\ capacity' \in [QueueType -> Int]
        /\ \A u \in QueueType : capacity'[u] = IF u = t THEN capacity[u] - 1 ELSE capacity[u]
    BY <1>1 DEF enqueue
  <1>3. c \notin pending
    BY DEF IInv, Books, Registered
  <1>4. /\ Rng(queue[t]) = Throttled(t)
        /\ Injective(queue[t])
        /\ c \notin Rng(queue[t])
    <2>1. Rng(queue[t]) = Throttled(t) /\ Injective(queue[t])
      BY <1>1 DEF IInv, Books, QueuedIffThrottled, InQueue, Rng, Injective
    <2>2. c \notin Throttled(t)
      BY DEF Throttled
    <2> QED BY <2>1, <2>2
  <1>5. /\ phase' \in [Call -> Phase]
        /\ \A b \in Call \ {c} : phase'[b] = phase[b]
        /\ phase'[c] = IF capacity[t] > 0 THEN "admitted" ELSE "throttled"
    BY <1>1 DEF enqueue, Phase
  <1>6. /\ queue' \in [QueueType -> Seq(Call)]
        /\ \A u \in QueueType \ {t} : queue'[u] = queue[u]
        /\ queue'[t] = IF capacity[t] > 0 THEN queue[t] ELSE Append(queue[t], c)
    <2>1. CASE capacity[t] > 0
      BY <1>1, <2>1 DEF enqueue
    <2>2. CASE ~(capacity[t] > 0)
      <3>1. Append(queue[t], c) \in Seq(Call)
        BY <1>1, <1>4, AppendRange
      <3>2. queue' = [queue EXCEPT ![t] = Append(queue[t], c)]
        BY <2>2 DEF enqueue
      <3> QED BY <1>1, <2>2, <3>1, <3>2
    <2> QED BY <2>1, <2>2
  <1>7. ASSUME NEW u \in QueueType \ {t}
        PROVE  Throttled(u)' = Throttled(u) /\ Executing(u)' = Executing(u)
    BY <1>5 DEF Throttled, Executing
  <1>8. /\ Throttled(t)' = IF capacity[t] > 0 THEN Throttled(t) ELSE Throttled(t) \cup {c}
        /\ Executing(t)' = IF capacity[t] > 0 THEN Executing(t) \cup {c} ELSE Executing(t)
    <2>1. CASE capacity[t] > 0
      BY <1>5, <2>1 DEF Throttled, Executing
    <2>2. CASE ~(capacity[t] > 0)
      BY <1>3, <1>5, <2>2 DEF Throttled, Executing
    <2> QED BY <2>1, <2>2
  <1>9. Registered'
    BY <1>3, <1>5 DEF IInv, Books, Registered
  <1>10. QueuedIffThrottled'
    <2> SUFFICES ASSUME NEW u \in QueueType
                 PROVE  /\ InQueue(u)' = Throttled(u)'
                        /\ Injective(queue'[u])
                        /\ u \notin Limited => queue'[u] = <<>>
      BY DEF QueuedIffThrottled, Injective
    <2>1. InQueue(u)' = Rng(queue'[u]) /\ InQueue(u) = Rng(queue[u])
      BY DEF InQueue, Rng
    <2>2. CASE u = t /\ capacity[t] > 0
      BY <1>4, <1>6, <1>8, <2>1, <2>2
    <2>3. CASE u = t /\ ~(capacity[t] > 0)
      <3>1. queue[t] \in Seq(Call) /\ queue'[t] = Append(queue[t], c)
        BY <1>1, <1>6, <2>3
      <3>2. Injective(queue'[t]) /\ Rng(queue'[t]) = Rng(queue[t]) \cup {c}
        BY <1>4, <3>1, AppendRange
      <3> QED BY <1>4, <1>8, <2>1, <2>3, <3>2
    <2>4. CASE u # t
      <3>1. Injective(queue[u]) /\ InQueue(u) = Throttled(u) /\ (u \notin Limited => queue[u] = <<>>)
        BY DEF IInv, Books, QueuedIffThrottled, Injective
      <3> QED BY <1>6, <1>7, <2>1, <2>4, <3>1
    <2> QED BY <2>2, <2>3, <2>4
  <1> DEFINE U == Executing(t) \cup Throttled(t)
  <1>11. /\ IsFiniteSet(U) /\ Cardinality(U) \in Nat /\ c \notin U
         /\ capacity[t] = limits[t] - Cardinality(U)
    <2>1. U \in SUBSET Call /\ c \notin U
      BY <1>3 DEF Executing, Throttled
    <2>2. capacity[t] = limits[t] - Cardinality(U)
      BY DEF IInv, Books, CapacityAccounting
    <2> QED BY <2>1, <2>2, CallsAreFinite
  <1>12. CapacityAccounting'
    <2>1. (Executing(t) \cup Throttled(t))' = U \cup {c}
      BY <1>8
    <2>2. Cardinality(U \cup {c}) = Cardinality(U) + 1
      BY <1>11, FS_AddElement
    <2>3. capacity'[t] = limits[t] - Cardinality((Executing(t) \cup Throttled(t))')
      <3>1. capacity[t] \in Int /\ capacity'[t] = capacity[t] - 1
        BY <1>1, <1>2
      <3>2. capacity[t] - 1 = limits[t] - (Cardinality(U) + 1)
        BY <1>1, <1>11, <3>1, OneLess
      <3> QED BY <2>1, <2>2, <3>1, <3>2
    <2>4. ASSUME NEW u \in Limited, u # t
          PROVE  capacity'[u] = limits[u] - Cardinality((Executing(u) \cup Throttled(u))')
      <3>1. capacity'[u] = capacity[u]
        BY <1>1, <1>2, <2>4
      <3>2. (Executing(u) \cup Throttled(u))' = Executing(u) \cup Throttled(u)
        BY <1>1, <1>7, <2>4
      <3>3. capacity[u] = limits[u] - Cardinality(Executing(u) \cup Throttled(u))
        BY DEF IInv, Books, CapacityAccounting
      <3> QED BY <3>1, <3>2, <3>3
    <2>5. \A u \in Limited :
              capacity'[u] = limits[u] - Cardinality((Executing(u) \cup Throttled(u))')
      BY <2>3, <2>4
    <2> QED BY <2>5 DEF CapacityAccounting
  <1>13. WorkConserving'
    <2>1. ASSUME queue'[t] # <<>> PROVE Cardinality(Executing(t)') >= limits[t]
      <3>1. IsFiniteSet(Executing(t)) /\ Cardinality(Executing(t)) \in Nat
        <4>1. Executing(t) \in SUBSET Call
          BY DEF Executing
        <4> QED BY <4>1, CallsAreFinite
      <3>2. CASE queue[t] # <<>>
        <4>1. Cardinality(Executing(t)) >= limits[t]
          BY <3>2 DEF IInv, Books, WorkConserving
        <4>2. CASE capacity[t] > 0
          <5>1. Cardinality(Executing(t) \cup {c}) >= Cardinality(Executing(t))
            <6>1. Cardinality(Executing(t) \cup {c}) \in
                      {Cardinality(Executing(t)), Cardinality(Executing(t)) + 1}
              BY <3>1, FS_AddElement
            <6> QED BY <3>1, <6>1
          <5>2. Executing(t)' = Executing(t) \cup {c}
            BY <1>8, <4>2
          <5>3. Cardinality(Executing(t) \cup {c}) \in Nat
            BY <3>1, FS_AddElement, FS_CardinalityType
          <5> QED BY <1>1, <3>1, <4>1, <5>1, <5>2, <5>3
        <4>3. CASE ~(capacity[t] > 0)
          BY <1>8, <4>1, <4>3
        <4> QED BY <4>2, <4>3
      <3>3. CASE queue[t] = <<>>
        <4>1. ~(capacity[t] > 0)
          BY <1>6, <2>1, <3>3
        <4>2. Throttled(t) = {}
          BY <1>4, <3>3 DEF Rng
        <4>3. U = Executing(t)
          BY <4>2
        <4>4. capacity[t] = limits[t] - Cardinality(Executing(t)) /\ capacity[t] \in Int
          BY <1>1, <1>11, <4>3
        <4>5. Cardinality(Executing(t)) >= limits[t]
          BY <1>1, <3>1, <4>1, <4>4
        <4> QED BY <1>8, <4>1, <4>5
      <3> QED BY <3>2, <3>3
    <2>2. ASSUME NEW u \in Limited, u # t, queue'[u] # <<>>
          PROVE  Cardinality(Executing(u)') >= limits[u]
      <3>1. queue[u] # <<>> /\ Executing(u)' = Executing(u)
        BY <1>1, <1>6, <1>7, <2>2
      <3> QED BY <3>1 DEF IInv, Books, WorkConserving
    <2>3. \A u \in Limited : queue'[u] # <<>> => Cardinality(Executing(u)') >= limits[u]
      BY <2>1, <2>2
    <2> QED BY <2>3 DEF WorkConserving
  <1> QED BY <1>1, <1>2, <1>5, <1>6, <1>9, <1>10, <1>12, <1>13 DEF Books

-----------------------------------------------------------------------------
(* Operations *)

(* Taking a queued execution out of its queue keeps the books              *)
(* (ConcurrencyControlService.remove).                                     *)
LEMMA RemoveKeepsBooks ==
    ASSUME IInv, NEW e \in Execution, NEW m \in Mode,
           isEnabled' = isEnabled, pending' = pending, remove(e, m)
    PROVE  Books'
  <1>1. CASE ~(throttles(m) /\ entries(getQueue(m), e) # {})
    <2>1. capacity' = capacity /\ queue' = queue /\ phase' = phase
      BY <1>1 DEF remove
    <2> QED BY <2>1, BooksUntouched DEF IInv, TypeOK, Books, Registered
  <1>2. CASE throttles(m) /\ entries(getQueue(m), e) # {}
    <2> DEFINE t == getQueue(m)
    <2>1. t \in Limited /\ isEnabled
      BY <1>2 DEF throttles, isUnlimited
    <2>2. PICK i \in entries(t, e) :
              freeAndResolveNext(t, without(queue[t], i), [phase EXCEPT ![queue[t][i]] = "abandoned"])
      BY <1>2 DEF remove
    <2> HIDE DEF t
    <2>3. /\ queue[t] \in Seq(Call)
          /\ i \in 1 .. Len(queue[t])
          /\ Injective(queue[t])
          /\ Rng(queue[t]) = Throttled(t)
          /\ t \in QueueType
      BY <2>1
         DEF entries, Limited, IInv, TypeOK, Books, QueuedIffThrottled, Injective,
             InQueue, Rng
    <2> DEFINE d == queue[t][i]
    <2> DEFINE q == without(queue[t], i)
    <2> DEFINE left == [phase EXCEPT ![d] = "abandoned"]
    <2>4. d \in Call /\ getQueue(ModeOf[d]) = t /\ phase[d] = "throttled"
      BY <2>3 DEF Rng, Throttled
    <2>5. q \in Seq(Call) /\ Injective(q) /\ Rng(q) = Rng(queue[t]) \ {d}
      BY <2>3, WithoutRange
    <2>6. freeAndResolveNext(t, q, left)
      BY <2>2
    <2> HIDE DEF q, d
    <2>7. /\ left \in [Call -> Phase]
          /\ \A c \in Call : left[c] = "throttled" <=> (phase[c] = "throttled" /\ c # d)
          /\ \A c \in Call : left[c] = "admitted" <=> phase[c] = "admitted"
      BY <2>4 DEF IInv, TypeOK, Phase
    <2>8. /\ pending \in SUBSET Call
          /\ \A c \in pending : c # d
          /\ \A c \in pending : left[c] \in {"running", "canceling", "ended"}
      BY <2>4 DEF IInv, TypeOK, Books, Registered
    <2> HIDE DEF left
    <2> QED BY <2>1, <2>4, <2>5, <2>6, <2>7, <2>8, SlotFreed
  <1> QED BY <1>1, <1>2

(* Settling the promise of a registered execution keeps the books          *)
(* (the `finally` handler of ActiveExecutions.add).                        *)
LEMMA SettleKeepsBooks ==
    ASSUME IInv, NEW e \in Execution, active[e] \in pending, isEnabled' = isEnabled,
           NEW STATE left, left \in [Call -> Phase], NEW keep \in BOOLEAN,
           \A c \in Call : left[c] = "throttled" <=> phase[c] = "throttled",
           \A c \in Call : left[c] = "admitted" <=> phase[c] = "admitted",
           \A c \in pending : left[c] \in {"running", "canceling", "ended"},
           settleEntry(e, left, keep)
    PROVE  Books'
  <1> DEFINE d == active[e]
  <1>1. /\ d \in pending /\ d \in Call
        /\ pending' = pending \ {d}
        /\ pending \in SUBSET Call
        /\ release(d, left)
        /\ phase[d] \in {"running", "canceling", "ended"}
    BY DEF settleEntry, IInv, TypeOK, Books, Registered
  <1> HIDE DEF d
  <1>2. CASE throttles(ModeOf[d])
    <2> DEFINE t == getQueue(ModeOf[d])
    <2> DEFINE q == queue[t]
    <2>1. t \in Limited /\ isEnabled /\ freeAndResolveNext(t, q, left)
      BY <1>1, <1>2 DEF release, throttles, isUnlimited
    <2>2. q \in Seq(Call) /\ Injective(q) /\ Rng(q) = Throttled(t)
      BY <2>1 DEF Limited, IInv, TypeOK, Books, QueuedIffThrottled, Injective, InQueue, Rng
    <2>3. Rng(q) = Rng(q) \ {d}
      BY <1>1, <2>2 DEF Throttled
    <2>4. \A c \in Call : left[c] = "throttled" <=> (phase[c] = "throttled" /\ c # d)
      BY <1>1
    <2>5. pending' \in SUBSET Call /\ \A c \in Call : c \in pending' <=> (c \in pending /\ c # d)
      BY <1>1
    <2>6. \A c \in pending' : left[c] \in {"running", "canceling", "ended"}
      BY <1>1
    <2> HIDE DEF q, t
    <2>7. getQueue(ModeOf[d]) = t /\ q = queue[t]
      BY DEF q, t
    <2> QED BY <1>1, <2>1, <2>2, <2>3, <2>4, <2>5, <2>6, <2>7, SlotFreed
  <1>3. CASE ~throttles(ModeOf[d])
    <2>1. phase' = left /\ capacity' = capacity /\ queue' = queue
      BY <1>1, <1>3 DEF release
    <2>2. isEnabled' => getQueue(ModeOf[d]) \notin Limited
      BY <1>3 DEF throttles, isUnlimited
    <2>3. isEnabled' => isEnabled
      OBVIOUS
    <2>4. isEnabled' => \A c \in Call :
               getQueue(ModeOf[c]) \in Limited =>
                   ((phase'[c] = "admitted" \/ c \in pending')
                        <=> (phase[c] = "admitted" \/ c \in pending))
      BY <1>1, <2>1, <2>2
    <2>5. pending' \in SUBSET Call /\ \A c \in pending' : phase'[c] \in {"running", "canceling", "ended"}
      BY <1>1, <2>1
    <2> QED BY <2>1, <2>3, <2>4, <2>5, BooksUntouched
  <1> QED BY <1>2, <1>3

-----------------------------------------------------------------------------
(* The invariant *)

(* The constructor of the service and an empty registry satisfy it. *)
LEMMA InitIInv == Init => IInv
  <1> SUFFICES ASSUME Init PROVE IInv
    OBVIOUS
  <1>1. TypeOK
    BY ConstantsAssumption DEF Init, TypeOK, limits, Phase, Status
  <1>2. \A t \in QueueType : Throttled(t) = {} /\ Executing(t) = {} /\ queue[t] = <<>>
    BY DEF Init, Throttled, Executing
  <1>3. QueuedIffThrottled
    BY <1>2 DEF QueuedIffThrottled, InQueue
  <1>4. CapacityAccounting
    <2>1. \A t \in Limited : Executing(t) \cup Throttled(t) = {} /\ capacity[t] = limits[t]
      BY <1>2 DEF Limited, Init
    <2>2. \A t \in Limited : limits[t] \in Int
      BY ConstantsAssumption DEF limits, Limited
    <2>3. Cardinality({}) = 0
      BY FS_EmptySet
    <2> QED BY <2>1, <2>2, <2>3 DEF CapacityAccounting
  <1>5. WorkConserving
    BY <1>2 DEF WorkConserving, Limited
  <1>6. Registered
    BY DEF Init, Registered
  <1> QED BY <1>1, <1>3, <1>4, <1>5, <1>6 DEF IInv, Books, TypeOK

(* Every step of every caller keeps the books. *)
LEMMA NextIInv == IInv /\ [Next]_vars => IInv'
  <1> SUFFICES ASSUME IInv, [Next]_vars PROVE IInv'
    OBVIOUS
  <1>0. TypeOK /\ Books /\ Registered
    BY DEF IInv, Books
  <1>1. ASSUME NEW c \in Call, Request(c) PROVE IInv'
    <2>1. TypeOK'
      BY <1>0, <1>1, ConstantsAssumption DEF TypeOK, Request, Phase, Status
    <2>2. Books'
      BY <1>0, <1>1, BooksUntouched DEF TypeOK, Request, Registered, Phase
    <2> QED BY <2>1, <2>2 DEF IInv
  <1>2. ASSUME NEW c \in Call, Add(c) PROVE IInv'
    <2>1. Books'
      <3>1. CASE throttles(ModeOf[c])
        BY <1>2, <3>1, SlotTaken DEF Add, throttle, throttles, isUnlimited
      <3>2. CASE ~throttles(ModeOf[c])
        <4>1. /\ phase' = [phase EXCEPT ![c] = "admitted"] /\ capacity' = capacity /\ queue' = queue
              /\ pending' = pending /\ isEnabled' = isEnabled /\ phase[c] = "called"
          BY <1>2, <3>2 DEF Add, throttle
        <4>2. isEnabled' => getQueue(ModeOf[c]) \notin Limited
          BY <3>2, <4>1 DEF throttles, isUnlimited
        <4> QED BY <1>0, <4>1, <4>2, BooksUntouched DEF TypeOK, Registered, Phase
      <3> QED BY <3>1, <3>2
    <2>2. TypeOK'
      BY <1>0, <1>2, <2>1 DEF TypeOK, Books, Add
    <2> QED BY <2>1, <2>2 DEF IInv
  <1>3. ASSUME NEW c \in Call, SetRunning(c) PROVE IInv'
    <2>1. Books'
      BY <1>0, <1>3, BooksUntouched DEF TypeOK, SetRunning, Registered, Phase
    <2>2. TypeOK'
      BY <1>0, <1>3, ConstantsAssumption DEF TypeOK, SetRunning, write, Phase, Status
    <2> QED BY <2>1, <2>2 DEF IInv
  <1>4. ASSUME NEW c \in Call, NEW outcome \in Outcome, RunEnds(c, outcome) PROVE IInv'
    <2> DEFINE e == ExecutionOf[c]
    <2> DEFINE left == [phase EXCEPT ![c] = "ended"]
    <2>1. e \in Execution /\ isEnabled' = isEnabled /\ phase[c] \in {"running", "canceling"}
      BY <1>4, ConstantsAssumption DEF RunEnds
    <2>2. /\ left \in [Call -> Phase]
          /\ \A b \in Call : left[b] = "throttled" <=> phase[b] = "throttled"
          /\ \A b \in Call : left[b] = "admitted" <=> phase[b] = "admitted"
          /\ \A b \in pending : left[b] \in {"running", "canceling", "ended"}
      BY <1>0, <2>1 DEF TypeOK, Phase, Registered
    <2>3. /\ active' \in [Execution -> Call \cup {NoCall}]
          /\ status' \in [Execution -> Status]
      <3>1. active' \in {active, [active EXCEPT ![e] = NoCall]} /\ status' = write(e, outcome)
        BY <1>4 DEF RunEnds, settleEntry
      <3>2. active' \in [Execution -> Call \cup {NoCall}]
        BY <1>0, <3>1 DEF TypeOK
      <3> QED BY <1>0, <3>1, <3>2 DEF TypeOK, write, Outcome, Status
    <2>4. CASE active[e] \in pending
      <3>1. settleEntry(e, left, outcome = "waiting")
        BY <1>4, <2>4 DEF RunEnds
      <3>2. (outcome = "waiting") \in BOOLEAN
        OBVIOUS
      <3> HIDE DEF left
      <3>3. Books'
        BY <2>1, <2>2, <2>4, <3>1, <3>2, SettleKeepsBooks
      <3> QED BY <1>0, <2>1, <2>3, <3>3 DEF IInv, TypeOK, Books
    <2>5. CASE active[e] \notin pending
      <3>1. phase' = left /\ capacity' = capacity /\ queue' = queue /\ pending' = pending
        BY <1>4, <2>5 DEF RunEnds
      <3>2. Books'
        BY <1>0, <2>1, <2>2, <3>1, BooksUntouched DEF TypeOK
      <3> QED BY <1>0, <2>1, <2>3, <3>2 DEF IInv, TypeOK, Books
    <2> QED BY <2>4, <2>5
  <1>5. ASSUME NEW e \in Execution, Stop(e) PROVE IInv'
    <2>1. isEnabled' = isEnabled /\ status' \in [Execution -> Status]
      BY <1>0, <1>5 DEF Stop, TypeOK, write, Status
    <2>2. CASE has(e)
      <3>1. remove(e, StoredMode[e]) /\ pending' = pending /\ active' = active
        BY <1>5, <2>2 DEF Stop
      <3>2. StoredMode[e] \in Mode
        BY ConstantsAssumption
      <3>3. Books'
        BY <2>1, <3>1, <3>2, RemoveKeepsBooks
      <3> QED BY <1>0, <2>1, <3>1, <3>3 DEF IInv, TypeOK, Books
    <2>3. CASE ~has(e) /\ active[e] \in pending
      <3> DEFINE d == active[e]
      <3> DEFINE left == [phase EXCEPT ![d] = IF @ = "running" THEN "canceling" ELSE @]
      <3>1. settleEntry(e, left, FALSE)
        BY <1>5, <2>3 DEF Stop, stopExecution
      <3>2. d \in Call /\ phase[d] \in {"running", "canceling", "ended"}
        BY <1>0, <2>3 DEF TypeOK, Registered
      <3>3. active' = [active EXCEPT ![e] = NoCall]
        BY <3>1 DEF settleEntry
      <3>4. active' \in [Execution -> Call \cup {NoCall}]
        BY <1>0, <3>3 DEF TypeOK
      <3>5. /\ left \in [Call -> Phase]
            /\ \A b \in Call : left[b] = "throttled" <=> phase[b] = "throttled"
            /\ \A b \in Call : left[b] = "admitted" <=> phase[b] = "admitted"
            /\ \A b \in pending : left[b] \in {"running", "canceling", "ended"}
        BY <1>0, <3>2 DEF TypeOK, Phase, Registered
      <3> HIDE DEF left
      <3>6. Books'
        BY <2>1, <2>3, <3>1, <3>5, SettleKeepsBooks
      <3> QED BY <1>0, <2>1, <3>4, <3>6 DEF IInv, TypeOK, Books
    <2>4. CASE ~has(e) /\ active[e] \notin pending
      <3>1. /\ active' = [active EXCEPT ![e] = NoCall]
            /\ capacity' = capacity /\ queue' = queue /\ phase' = phase /\ pending' = pending
        BY <1>5, <2>4 DEF Stop, stopExecution
      <3>2. active' \in [Execution -> Call \cup {NoCall}]
        BY <1>0, <3>1 DEF TypeOK
      <3>3. Books'
        BY <1>0, <2>1, <3>1, BooksUntouched DEF TypeOK, Registered
      <3> QED BY <1>0, <2>1, <3>2, <3>3 DEF IInv, TypeOK, Books
    <2> QED BY <2>2, <2>3, <2>4
  <1>6. ASSUME NEW e \in Execution, Delete(e) PROVE IInv'
    <2>1. /\ isEnabled' = isEnabled /\ pending' = pending /\ active' = active
          /\ status' \in [Execution -> Status]
      BY <1>0, <1>6 DEF Delete, TypeOK, Status
    <2>2. Books'
      <3>1. CASE status[e] = "new"
        <4>1. remove(e, StoredMode[e]) /\ StoredMode[e] \in Mode
          BY <1>6, <3>1, ConstantsAssumption DEF Delete
        <4> QED BY <2>1, <4>1, RemoveKeepsBooks
      <3>2. CASE status[e] # "new"
        <4>1. capacity' = capacity /\ queue' = queue /\ phase' = phase
          BY <1>6, <3>2 DEF Delete
        <4> QED BY <1>0, <2>1, <4>1, BooksUntouched DEF TypeOK, Registered
      <3> QED BY <3>1, <3>2
    <2> QED BY <1>0, <2>1, <2>2 DEF IInv, TypeOK, Books
  <1>7. ASSUME Shutdown PROVE IInv'
    <2>1. PICK stopped \in SUBSET {e \in Execution : active[e] \in pending} :
            /\ pending' = pending \ {active[e] : e \in stopped}
            /\ active' = [e \in Execution |->
                             IF active[e] \in pending /\ e \notin stopped
                             THEN active[e] ELSE NoCall]
            /\ phase' = [c \in Call |->
                             IF phase[c] = "running" /\ \E e \in stopped : active[e] = c
                             THEN "canceling" ELSE phase[c]]
      BY <1>7 DEF Shutdown
    <2>2. capacity' = capacity /\ queue' = queue /\ status' = status /\ isEnabled' = FALSE
      BY <1>7 DEF Shutdown
    <2>3. active' \in [Execution -> Call \cup {NoCall}]
      BY <1>0, <2>1 DEF TypeOK
    <2>4. /\ phase' \in [Call -> Phase]
          /\ \A c \in Call : phase'[c] = "throttled" <=> phase[c] = "throttled"
          /\ \A c \in Call : phase'[c] \in {phase[c], "canceling"}
      BY <1>0, <2>1 DEF TypeOK, Phase
    <2>5. pending' \in SUBSET Call /\ pending' \subseteq pending
      BY <1>0, <2>1 DEF TypeOK
    <2>6. \A c \in pending' : phase'[c] \in {"running", "canceling", "ended"}
      BY <1>0, <2>4, <2>5 DEF Registered
    <2>7. Books'
      BY <2>2, <2>4, <2>5, <2>6, BooksUntouched
    <2> QED BY <1>0, <2>2, <2>3, <2>7 DEF IInv, TypeOK, Books
  <1>8. ASSUME UNCHANGED vars PROVE IInv'
    <2>1. Books'
      BY <1>0, <1>8, BooksUntouched DEF vars, TypeOK, Registered
    <2> QED BY <1>0, <1>8, <2>1 DEF IInv, TypeOK, vars
  <1> QED BY <1>1, <1>2, <1>3, <1>4, <1>5, <1>6, <1>7, <1>8 DEF Next

(***************************************************************************)
(* Type correctness of the service and of the registry of active           *)
(* executions.                                                             *)
(***************************************************************************)
THEOREM TypeCorrect == Spec => []TypeOK
  <1>1. IInv => TypeOK
    BY DEF IInv
  <1> QED BY <1>1, InitIInv, NextIInv, PTL DEF Spec

(***************************************************************************)
(* The capacity of a queue is exactly its limit minus the slots held or    *)
(* waited for, in every interleaving of any number of executions, stops,   *)
(* deletions and a shutdown.                                               *)
(***************************************************************************)
THEOREM CapacityIsAccounted == Spec => []CapacityAccounting
  <1>1. IInv => CapacityAccounting
    BY DEF IInv, Books
  <1> QED BY <1>1, InitIInv, NextIInv, PTL DEF Spec

(***************************************************************************)
(* The waiting calls are exactly the entries of the queues, once each.     *)
(***************************************************************************)
THEOREM QueuesHoldTheThrottled == Spec => []QueuedIffThrottled
  <1>1. IInv => QueuedIffThrottled
    BY DEF IInv, Books
  <1> QED BY <1>1, InitIInv, NextIInv, PTL DEF Spec

(***************************************************************************)
(* No execution waits while a slot is free.                                *)
(***************************************************************************)
THEOREM NoIdleSlot == Spec => []WorkConserving
  <1>1. IInv => WorkConserving
    BY DEF IInv, Books
  <1> QED BY <1>1, InitIInv, NextIInv, PTL DEF Spec

-----------------------------------------------------------------------------
(* The admission queue *)

(* Where a call stands, from its phase. *)
LEMMA PlaceParts ==
    ASSUME IInv, NEW c \in Call
    PROVE  /\ placeOf[c] = "outside" <=> phase[c] \in {"idle", "called"}
           /\ placeOf[c] = "waiting" <=> phase[c] = "throttled"
           /\ placeOf[c] = "inside" <=> phase[c] = "admitted" \/ c \in pending
           /\ placeOf[c] \in {"outside", "waiting", "inside", "gone"}
  <1>1. c \in pending => phase[c] \in {"running", "canceling", "ended"}
    BY DEF IInv, Books, Registered
  <1> QED BY <1>1 DEF placeOf

(* Both modules count alike. *)
LEMMA SameCardinality ==
    ASSUME NEW S
    PROVE  AQ!Cardinality(S) = Cardinality(S)
  BY DEF AQ!Cardinality, Cardinality

(* The calls inside are those that hold a slot. *)
LEMMA InsideIsExecuting ==
    ASSUME IInv, NEW t \in QueueType
    PROVE  AQ!Inside(t) = Executing(t)
  BY PlaceParts DEF AQ!Inside, Executing

(* A call is held back if throttle would enqueue it. *)
LEMMA HeldBackIsThrottled ==
    ASSUME NEW c \in Call
    PROVE  AQ!IsHeldBack(c) <=> throttles(ModeOf[c])
  BY DEF AQ!IsHeldBack, throttles, isUnlimited

(* A step that leaves the queues and the places alone stutters. *)
LEMMA SamePlaces ==
    ASSUME UNCHANGED <<isEnabled, queue>>,
           \A c \in Call : placeOf'[c] = placeOf[c]
    PROVE  UNCHANGED AQ!vars
  <1>1. placeOf' = placeOf
    BY DEF placeOf
  <1> QED BY <1>1 DEF AQ!vars

(***************************************************************************)
(* Giving a slot back lets the first call of q in, and call c is gone.     *)
(***************************************************************************)
LEMMA SlotPasses ==
    ASSUME IInv, IInv', NEW c \in Call, NEW q \in Seq(Call), NEW left \in [Call -> Phase],
           \A i \in 1 .. Len(q) : q[i] # c /\ phase[q[i]] = "throttled",
           isEnabled' = isEnabled,
           pending' = pending \ {c},
           left[c] \in {"running", "canceling", "ended", "abandoned"},
           \A d \in Call : d # c => \/ left[d] = phase[d]
                                    \/ /\ phase[d] \in {"running", "canceling"}
                                       /\ left[d] = "ended",
           freeAndResolveNext(getQueue(ModeOf[c]), q, left)
    PROVE  AQ!Goes(c, q)
  <1>t. phase \in [Call -> Phase] /\ pending \subseteq Call
    BY DEF IInv, Books
  <1>1. queue' = [queue EXCEPT ![getQueue(ModeOf[c])] = IF q = <<>> THEN q ELSE Tail(q)]
    BY DEF freeAndResolveNext
  <1> DEFINE gone == [placeOf EXCEPT ![c] = "gone"]
  <1>2. placeOf \in [Call -> {"outside", "waiting", "inside", "gone"}]
    BY DEF placeOf
  <1>3. ASSUME NEW d \in Call, phase'[d] = left[d] PROVE placeOf'[d] = gone[d]
    <2>1. CASE d = c
      BY <1>2, <1>3, <2>1 DEF placeOf
    <2>2. CASE d # c
      BY <1>2, <1>3, <2>2 DEF placeOf
    <2> QED BY <2>1, <2>2
  <1>4. CASE q = <<>>
    <2>1. phase' = left
      BY <1>4 DEF freeAndResolveNext
    <2>2. placeOf' = gone
      BY <1>2, <1>3, <2>1 DEF placeOf
    <2> QED BY <1>1, <1>4, <2>2 DEF AQ!Goes
  <1>5. CASE q # <<>>
    <2>1. phase' = [left EXCEPT ![Head(q)] = "admitted"]
      BY <1>5 DEF freeAndResolveNext
    <2>2. Head(q) \in Call /\ Head(q) # c /\ phase[Head(q)] = "throttled"
      <3>1. Len(q) \in Nat /\ Len(q) # 0 /\ Head(q) = q[1] /\ q[1] \in Call
        BY <1>5
      <3>2. 1 \in 1 .. Len(q)
        BY <3>1
      <3> QED BY <3>1, <3>2
    <2>3. placeOf'[Head(q)] = "inside"
      BY <2>1, <2>2 DEF placeOf
    <2>4. \A d \in Call : d # Head(q) => placeOf'[d] = gone[d]
      BY <1>3, <2>1
    <2>5. placeOf' = [gone EXCEPT ![Head(q)] = "inside"]
      <3>1. /\ placeOf' = [d \in Call |-> placeOf'[d]]
            /\ [gone EXCEPT ![Head(q)] = "inside"]
                  = [d \in Call |-> IF d = Head(q) THEN "inside" ELSE gone[d]]
        BY <1>2, <2>2 DEF placeOf
      <3> QED BY <2>2, <2>3, <2>4, <3>1
    <2> QED BY <1>1, <1>5, <2>5 DEF AQ!Goes
  <1> QED BY <1>4, <1>5

(* The calls that wait in a queue are throttled and of its type. *)
LEMMA WaitingIsThrottled ==
    ASSUME IInv, NEW t \in QueueType, NEW i \in 1 .. Len(queue[t])
    PROVE  /\ queue[t][i] \in Call
           /\ phase[queue[t][i]] = "throttled"
           /\ getQueue(ModeOf[queue[t][i]]) = t
  BY DEF IInv, Books, QueuedIffThrottled, InQueue, Throttled

(* The registered call of an execution leaves (the `finally` handler of    *)
(* its postExecutePromise).                                                *)
LEMMA SettleLeaves ==
    ASSUME IInv, IInv', NEW e \in Execution, NEW left \in [Call -> Phase], NEW keep,
           active[e] \in pending, isEnabled' = isEnabled,
           left[active[e]] \in {"running", "canceling", "ended"},
           \A d \in Call : d # active[e] => \/ left[d] = phase[d]
                                            \/ /\ phase[d] \in {"running", "canceling"}
                                               /\ left[d] = "ended",
           settleEntry(e, left, keep)
    PROVE  AQ!Leave(active[e])
  <1> DEFINE c == active[e]
  <1>1. c \in Call /\ c \in pending /\ placeOf[c] = "inside"
    BY PlaceParts DEF IInv, Books
  <1>2. release(c, left) /\ pending' = pending \ {c}
    BY DEF settleEntry
  <1> HIDE DEF c
  <1>3. CASE throttles(ModeOf[c])
    <2> DEFINE t == getQueue(ModeOf[c])
    <2>1. t \in QueueType
      BY <1>3 DEF throttles, isUnlimited, Limited
    <2>2. freeAndResolveNext(t, queue[t], left)
      BY <1>2, <1>3 DEF release
    <2>3. queue[t] \in Seq(Call)
      BY <2>1 DEF IInv, Books
    <2>4. phase[c] # "throttled"
      BY <1>1 DEF IInv, Books, Registered
    <2>5. \A i \in 1 .. Len(queue[t]) : queue[t][i] # c /\ phase[queue[t][i]] = "throttled"
      BY <2>1, <2>4, WaitingIsThrottled
    <2>6. AQ!Goes(c, queue[t])
      BY <1>1, <1>2, <2>2, <2>3, <2>5, SlotPasses DEF c
    <2> QED BY <1>1, <1>3, <2>6, HeldBackIsThrottled DEF AQ!Leave, c
  <1>4. CASE ~throttles(ModeOf[c])
    <2>1. phase' = left /\ queue' = queue
      BY <1>2, <1>4 DEF release
    <2>2. \A d \in Call : placeOf'[d] = IF d = c THEN "gone" ELSE placeOf[d]
      BY <1>1, <1>2, <2>1 DEF placeOf, c
    <2>3. placeOf' = [placeOf EXCEPT ![c] = "gone"]
      BY <2>2 DEF placeOf
    <2> QED BY <1>1, <1>4, <2>1, <2>3, HeldBackIsThrottled DEF AQ!Leave, c
  <1> QED BY <1>3, <1>4

(* A call that is taken out of its queue gives up (stop and delete of an   *)
(* execution that waits for a slot).                                       *)
LEMMA RemoveGivesUp ==
    ASSUME IInv, IInv', NEW e, NEW m, remove(e, m), UNCHANGED <<isEnabled, pending>>
    PROVE  UNCHANGED AQ!vars \/ \E c \in Call : AQ!GiveUp(c)
  <1>1. CASE ~(throttles(m) /\ entries(getQueue(m), e) # {})
    BY <1>1 DEF remove, AQ!vars, placeOf
  <1>2. CASE throttles(m) /\ entries(getQueue(m), e) # {}
    <2> DEFINE t == getQueue(m)
    <2>1. t \in Limited /\ t \in QueueType /\ isEnabled
      BY <1>2 DEF throttles, isUnlimited, Limited
    <2>2. PICK i \in entries(t, e) :
              freeAndResolveNext(t, without(queue[t], i), [phase EXCEPT ![queue[t][i]] = "abandoned"])
      BY <1>2 DEF remove
    <2>3. i \in 1 .. Len(queue[t])
      BY DEF entries
    <2> DEFINE c == queue[t][i]
               left == [phase EXCEPT ![c] = "abandoned"]
    <2>4. c \in Call /\ phase[c] = "throttled" /\ getQueue(ModeOf[c]) = t
      BY <2>1, <2>3, WaitingIsThrottled
    <2>5. /\ queue[t] \in Seq(Call) /\ Injective(queue[t])
          /\ phase \in [Call -> Phase]
      BY <2>1 DEF IInv, Books, QueuedIffThrottled, Injective
    <2>6. /\ without(queue[t], i) \in Seq(Call)
          /\ Rng(without(queue[t], i)) = Rng(queue[t]) \ {c}
      BY <2>3, <2>5, WithoutRange
    <2>7. \A d \in Rng(queue[t]) : phase[d] = "throttled"
      BY <2>1, WaitingIsThrottled DEF Rng
    <2>8. \A j \in 1 .. Len(without(queue[t], i)) :
              without(queue[t], i)[j] # c /\ phase[without(queue[t], i)[j]] = "throttled"
      <3> SUFFICES ASSUME NEW j \in 1 .. Len(without(queue[t], i))
                   PROVE  without(queue[t], i)[j] \in Rng(without(queue[t], i))
        BY <2>6, <2>7
      <3> QED BY DEF Rng
    <2>9. left \in [Call -> Phase] /\ left[c] = "abandoned"
          /\ \A d \in Call : d # c => left[d] = phase[d]
      BY <2>4, <2>5 DEF Phase
    <2>10. c \notin pending
      BY <2>4 DEF IInv, Books, Registered
    <2> HIDE DEF t, c, left
    <2>11. freeAndResolveNext(getQueue(ModeOf[c]), without(queue[t], i), left)
      BY <2>2, <2>4 DEF c, left
    <2>12. AQ!Goes(c, without(queue[t], i))
      BY <2>4, <2>6, <2>8, <2>9, <2>10, <2>11, SlotPasses
    <2>13. AQ!GiveUp(c)
      BY <2>1, <2>3, <2>4, <2>12, PlaceParts
         DEF AQ!GiveUp, AQ!IsHeldBack, without, AQ!RemoveAt, c
    <2> QED BY <2>4, <2>13
  <1> QED BY <1>1, <1>2

(* Before any call nobody waits. *)
LEMMA InitIsAdmission == Init => AQ!Init
  BY DEF Init, AQ!Init, placeOf

(* add lets a call in or makes it wait, as the capacity says. *)
LEMMA AddEntersOrWaits ==
    ASSUME IInv, IInv', NEW c \in Call, Add(c)
    PROVE  AQ!Enter(c) \/ AQ!Wait(c)
  <1>t. /\ phase \in [Call -> Phase] /\ pending \subseteq Call
        /\ queue \in [QueueType -> Seq(Call)]
    BY DEF IInv, Books
  <1>1. /\ phase[c] = "called" /\ throttle(c)
        /\ UNCHANGED <<isEnabled, pending>>
    BY DEF Add
  <1>2. placeOf[c] = "outside" /\ c \notin pending
    BY <1>1, PlaceParts DEF IInv, Books, Registered
  <1>3. ASSUME NEW p, NEW place, phase' = [phase EXCEPT ![c] = p],
               <<p, place>> \in {<<"admitted", "inside">>, <<"throttled", "waiting">>}
        PROVE  placeOf' = [placeOf EXCEPT ![c] = place]
    <2>1. \A d \in Call : placeOf'[d] = IF d = c THEN place ELSE placeOf[d]
      BY <1>t, <1>1, <1>3 DEF placeOf
    <2> QED BY <2>1 DEF placeOf
  <1>4. CASE ~throttles(ModeOf[c])
    <2>1. phase' = [phase EXCEPT ![c] = "admitted"] /\ queue' = queue
      BY <1>1, <1>4 DEF throttle
    <2>2. placeOf' = [placeOf EXCEPT ![c] = "inside"]
      BY <1>3, <2>1
    <2> QED BY <1>1, <1>2, <1>4, <2>1, <2>2, HeldBackIsThrottled DEF AQ!Enter
  <1>5. CASE throttles(ModeOf[c])
    <2> DEFINE t == getQueue(ModeOf[c])
    <2>1. t \in Limited /\ t \in QueueType /\ isEnabled
      BY <1>5 DEF throttles, isUnlimited, Limited
    <2>2. enqueue(t, c)
      BY <1>1, <1>5 DEF throttle
    <2>3. /\ capacity[t] = limits[t] - Cardinality(Executing(t) \cup Throttled(t))
          /\ queue[t] # <<>> => Cardinality(Executing(t)) >= limits[t]
          /\ InQueue(t) = Throttled(t)
      BY <2>1 DEF IInv, Books, CapacityAccounting, WorkConserving, QueuedIffThrottled
    <2>4. /\ IsFiniteSet(Executing(t) \cup Throttled(t)) /\ IsFiniteSet(Executing(t))
          /\ Cardinality(Executing(t)) \in Nat
          /\ Cardinality(Executing(t) \cup Throttled(t)) \in Nat
          /\ Cardinality(Executing(t)) <= Cardinality(Executing(t) \cup Throttled(t))
      <3>1. Executing(t) \cup Throttled(t) \subseteq Call
        BY DEF Executing, Throttled
      <3>2. IsFiniteSet(Executing(t) \cup Throttled(t))
        BY <3>1, ConstantsAssumption, FS_Subset
      <3> QED BY <3>2, FS_Subset, FS_CardinalityType
    <2>5. AQ!Inside(t) = Executing(t)
      BY <2>1, InsideIsExecuting
    <2>6. limits[t] \in Int /\ capacity[t] \in Int
      BY <2>1, ConstantsAssumption DEF limits, IInv, Books
    <2>8. CASE capacity[t] > 0
      <3>1. phase' = [phase EXCEPT ![c] = "admitted"] /\ queue' = queue
        BY <2>2, <2>8 DEF enqueue
      <3>2. placeOf' = [placeOf EXCEPT ![c] = "inside"]
        BY <1>3, <3>1
      <3>3. Cardinality(Executing(t)) < limits[t]
        BY <2>3, <2>4, <2>6, <2>8
      <3>4. queue[t] = <<>>
        BY <2>3, <2>4, <2>6, <3>3
      <3>5. /\ queue[[d \in Call |-> getQueue(ModeOf[d])][c]] = <<>>
            /\ AQ!Cardinality(AQ!Inside([d \in Call |-> getQueue(ModeOf[d])][c]))
                 < limits[[d \in Call |-> getQueue(ModeOf[d])][c]]
        BY <2>5, <3>3, <3>4, SameCardinality
      <3> QED BY <1>1, <1>2, <3>1, <3>2, <3>5 DEF AQ!Enter
    <2>9. CASE ~(capacity[t] > 0)
      <3>1. /\ phase' = [phase EXCEPT ![c] = "throttled"]
            /\ queue' = [queue EXCEPT ![t] = Append(@, c)]
        BY <2>2, <2>9 DEF enqueue
      <3>2. placeOf' = [placeOf EXCEPT ![c] = "waiting"]
        BY <1>3, <3>1
      <3>3. Cardinality(Executing(t)) >= limits[t]
        <4>1. CASE queue[t] = <<>>
          <5>1. Throttled(t) = {}
            BY <2>3, <4>1 DEF InQueue
          <5>2. Executing(t) \cup Throttled(t) = Executing(t)
            BY <5>1
          <5>3. Cardinality(Executing(t) \cup Throttled(t)) = Cardinality(Executing(t))
            BY <5>2
          <5> HIDE DEF t
          <5> QED BY <2>3, <2>4, <2>6, <2>9, <5>3
        <4> QED BY <2>3, <4>1
      <3>4. AQ!Cardinality(AQ!Inside([d \in Call |-> getQueue(ModeOf[d])][c]))
               >= limits[[d \in Call |-> getQueue(ModeOf[d])][c]]
        BY <2>5, <3>3, SameCardinality
      <3> QED BY <1>1, <1>2, <1>5, <3>1, <3>2, <3>4, HeldBackIsThrottled DEF AQ!Wait
    <2> QED BY <2>8, <2>9
  <1> QED BY <1>4, <1>5

(***************************************************************************)
(* Every step of the service, of the executions and of a user is a step of *)
(* the admission queue or changes nothing of it.                           *)
(***************************************************************************)
LEMMA NextIsAdmission ==
    ASSUME IInv, IInv', [Next]_vars
    PROVE  [AQ!Next]_AQ!vars
  <1>t. /\ phase \in [Call -> Phase] /\ pending \subseteq Call
        /\ active \in [Execution -> Call \cup {NoCall}]
        /\ \A c \in pending : phase[c] \in {"running", "canceling", "ended"}
    BY DEF IInv, Books, TypeOK, Registered
  <1>1. ASSUME NEW c \in Call, Request(c) PROVE UNCHANGED AQ!vars
    <2>1. /\ phase[c] = "idle" /\ phase' = [phase EXCEPT ![c] = "called"]
          /\ UNCHANGED <<isEnabled, queue, pending>>
      BY <1>1 DEF Request
    <2>2. \A d \in Call : placeOf'[d] = placeOf[d]
      BY <1>t, <2>1 DEF placeOf
    <2> QED BY <2>1, <2>2, SamePlaces
  <1>2. ASSUME NEW c \in Call, Add(c) PROVE AQ!Next
    BY <1>2, AddEntersOrWaits DEF AQ!Next
  <1>3. ASSUME NEW c \in Call, SetRunning(c) PROVE UNCHANGED AQ!vars
    <2>1. /\ phase[c] = "admitted" /\ phase' = [phase EXCEPT ![c] = "running"]
          /\ pending' = pending \cup {c}
          /\ UNCHANGED <<isEnabled, queue>>
      BY <1>3 DEF SetRunning
    <2>2. \A d \in Call : placeOf'[d] = placeOf[d]
      BY <1>t, <2>1 DEF placeOf
    <2> QED BY <2>1, <2>2, SamePlaces
  <1>4. ASSUME NEW c \in Call, NEW outcome \in Outcome, RunEnds(c, outcome)
        PROVE  [AQ!Next]_AQ!vars
    <2> DEFINE e == ExecutionOf[c]
               left == [phase EXCEPT ![c] = "ended"]
    <2>1. /\ phase[c] \in {"running", "canceling"} /\ isEnabled' = isEnabled
          /\ e \in Execution /\ left \in [Call -> Phase]
      BY <1>t, <1>4, ConstantsAssumption DEF RunEnds, Phase
    <2>2. \A d \in Call : left[d] = IF d = c THEN "ended" ELSE phase[d]
      BY <1>t
    <2>3. CASE active[e] \in pending
      <3>1. settleEntry(e, left, outcome = "waiting")
        BY <1>4, <2>3 DEF RunEnds
      <3>2. left[active[e]] \in {"running", "canceling", "ended"} /\ active[e] \in Call
        BY <1>t, <2>2, <2>3
      <3> HIDE DEF left
      <3> QED BY <1>t, <2>1, <2>2, <2>3, <3>1, <3>2, SettleLeaves DEF AQ!Next
    <2>4. CASE active[e] \notin pending
      <3>1. phase' = left /\ UNCHANGED <<queue, pending>>
        BY <1>4, <2>4 DEF RunEnds
      <3>2. \A d \in Call : placeOf'[d] = placeOf[d]
        BY <1>t, <2>1, <2>2, <3>1 DEF placeOf
      <3> QED BY <2>1, <3>1, <3>2, SamePlaces
    <2> QED BY <2>3, <2>4
  <1>5. ASSUME NEW e \in Execution, Stop(e) PROVE [AQ!Next]_AQ!vars
    <2>1. isEnabled' = isEnabled
      BY <1>5 DEF Stop
    <2>2. CASE has(e)
      BY <1>5, <2>1, <2>2, RemoveGivesUp DEF Stop, AQ!Next
    <2>3. CASE ~has(e) /\ active[e] \in pending
      <3> DEFINE left == [phase EXCEPT ![active[e]] = IF @ = "running" THEN "canceling" ELSE @]
      <3>1. settleEntry(e, left, FALSE)
        BY <1>5, <2>3 DEF Stop, stopExecution
      <3>2. /\ left \in [Call -> Phase] /\ left[active[e]] \in {"canceling", "ended"}
            /\ \A d \in Call : d # active[e] => left[d] = phase[d]
            /\ active[e] \in Call
        BY <1>t, <2>3 DEF Phase
      <3> HIDE DEF left
      <3> QED BY <2>1, <2>3, <3>1, <3>2, SettleLeaves DEF AQ!Next
    <2>4. CASE ~has(e) /\ active[e] \notin pending
      <3>1. UNCHANGED <<queue, phase, pending>>
        BY <1>5, <2>4 DEF Stop, stopExecution
      <3> QED BY <2>1, <3>1 DEF AQ!vars, placeOf
    <2> QED BY <2>2, <2>3, <2>4
  <1>6. ASSUME NEW e \in Execution, Delete(e) PROVE [AQ!Next]_AQ!vars
    <2>1. UNCHANGED <<isEnabled, pending>>
      BY <1>6 DEF Delete
    <2>2. CASE status[e] = "new"
      BY <1>6, <2>1, <2>2, RemoveGivesUp DEF Delete, AQ!Next
    <2>3. CASE status[e] # "new"
      BY <1>6, <2>1, <2>3 DEF Delete, AQ!vars, placeOf
    <2> QED BY <2>2, <2>3
  <1>7. CASE Shutdown
    <2>1. PICK stopped \in SUBSET {e \in Execution : active[e] \in pending} :
              /\ pending' = pending \ {active[e] : e \in stopped}
              /\ phase' = [c \in Call |->
                             IF phase[c] = "running" /\ \E e \in stopped : active[e] = c
                             THEN "canceling" ELSE phase[c]]
      BY <1>7 DEF Shutdown
    <2>2. isEnabled /\ isEnabled' = FALSE /\ queue' = queue
      BY <1>7 DEF Shutdown
    <2> DEFINE left == {active[e] : e \in stopped}
    <2>3. left \subseteq pending
      OBVIOUS
    <2>4. left \in SUBSET {c \in Call : placeOf[c] = "inside"}
      BY <1>t, <2>3, PlaceParts
    <2>5. ASSUME NEW c \in Call PROVE placeOf'[c] = IF c \in left THEN "gone" ELSE placeOf[c]
      <3>1. CASE c \in left
        <4>1. c \notin pending' /\ phase'[c] \in {"canceling", "ended"}
          BY <1>t, <2>1, <2>3, <3>1
        <4> QED BY <3>1, <4>1 DEF placeOf
      <3>2. CASE c \notin left
        <4>1. (c \in pending' <=> c \in pending) /\ phase'[c] = phase[c]
          BY <2>1, <3>2
        <4> QED BY <3>2, <4>1 DEF placeOf
      <3> QED BY <3>1, <3>2
    <2>6. placeOf' = [c \in Call |-> IF c \in left THEN "gone" ELSE placeOf[c]]
      BY <2>5 DEF placeOf
    <2> HIDE DEF left
    <2>7. AQ!Close
      BY <2>2, <2>4, <2>6 DEF AQ!Close
    <2> QED BY <2>7 DEF AQ!Next
  <1>8. CASE UNCHANGED vars
    BY <1>8 DEF vars, AQ!vars, placeOf
  <1> QED BY <1>1, <1>2, <1>3, <1>4, <1>5, <1>6, <1>7, <1>8 DEF Next

(***************************************************************************)
(* Concurrency control implements the admission queue: whatever is stopped,*)
(* deleted, resumed twice or shut down, calls come in at most once and in  *)
(* order, and a slot that comes back goes to the first call that waits.    *)
(***************************************************************************)
THEOREM ImplementsAdmissionQueue == Spec => IsAdmissionQueue
  <1>1. Spec => []IInv
    BY InitIInv, NextIInv, PTL DEF Spec
  <1> QED BY <1>1, InitIsAdmission, NextIsAdmission, PTL DEF Spec, IsAdmissionQueue, AQ!Spec

=============================================================================
