------------------------- MODULE TaskBrokerProofs -------------------------
(***************************************************************************)
(* Proofs about TaskBroker, for any number of runners, requests, types of  *)
(* tasks and offers, and all bounds.                                       *)
(***************************************************************************)
EXTENDS TaskBroker, FiniteSetTheorems, SequenceTheorems, WellFoundedInduction, TLAPS

-----------------------------------------------------------------------------
(* Numbers and sequences *)

(* A set of numbers has a least one: this stands for induction. *)
LEMMA LeastNumber ==
    ASSUME NEW P, P # {}, P \subseteq Nat
    PROVE  \E i \in P : \A j \in P : i <= j
  <1>1. PICK i \in P : \A j \in P : <<j, i>> \notin OpToRel(<, Nat)
    BY NatLessThanWellFounded, WFMin, Zenon
  <1>2. \A j \in P : ~(j < i)
    BY <1>1, Zenon DEF OpToRel
  <1> QED BY <1>2

(* The empty sequence has no entries. *)
LEMMA EmptyRange == Range(<<>>) = {} /\ Len(<<>>) = 0
  <1>1. <<>> \in Seq({}) /\ Len(<<>>) = 0
    BY EmptySeq
  <1>2. Range(<<>>) = {<<>>[i] : i \in 1 .. 0}
    BY <1>1, RangeEquality
  <1> QED BY <1>1, <1>2

(* Pushing an entry adds it. *)
LEMMA AppendRange ==
    ASSUME NEW S, NEW s \in Seq(S), NEW x \in S
    PROVE  Append(s, x) \in Seq(S) /\ Range(Append(s, x)) = Range(s) \cup {x}
  <1>1. /\ Append(s, x) \in Seq(S) /\ Len(Append(s, x)) = Len(s) + 1 /\ Len(s) \in Nat
        /\ \A i \in 1 .. Len(s) : Append(s, x)[i] = s[i]
        /\ Append(s, x)[Len(s) + 1] = x
    BY AppendProperties, LenProperties
  <1>2. /\ Range(s) = {s[i] : i \in 1 .. Len(s)}
        /\ Range(Append(s, x)) = {Append(s, x)[i] : i \in 1 .. Len(s) + 1}
    BY <1>1, RangeEquality
  <1>3. Range(Append(s, x)) \subseteq Range(s) \cup {x}
    BY <1>1, <1>2
  <1>4. Range(s) \cup {x} \subseteq Range(Append(s, x))
    <2>1. x \in Range(Append(s, x))
      <3>1. Len(s) + 1 \in 1 .. Len(s) + 1
        BY <1>1
      <3> QED BY <1>1, <1>2, <3>1
    <2>2. ASSUME NEW i \in 1 .. Len(s) PROVE s[i] \in Range(Append(s, x))
      <3>1. i \in 1 .. Len(s) + 1
        BY <1>1
      <3> QED BY <1>1, <1>2, <3>1
    <2> QED BY <1>2, <2>1, <2>2
  <1> QED BY <1>1, <1>3, <1>4

(* Selecting the entries that are in a set. *)
LEMMA OnlyRange ==
    ASSUME NEW T, NEW s \in Seq(T), NEW S
    PROVE  only(s, S) \in Seq(T) /\ Range(only(s, S)) = Range(s) \cap S
  <1> DEFINE Step(f, i) == IF i = 0 THEN <<>>
                           ELSE IF s[i] \in S THEN Append(f[i - 1], s[i]) ELSE f[i - 1]
             Solves(f, n) == f = [i \in 0 .. n |-> Step(f, i)]
             picked == CHOOSE f : Solves(f, Len(s))
             Good(i) == picked[i] \in Seq(T) /\ Range(picked[i]) = {s[j] : j \in 1 .. i} \cap S
  <1>l. Len(s) \in Nat /\ \A i \in 1 .. Len(s) : s[i] \in T
    BY LenProperties
  <1>1. \A n \in Nat : \E f : Solves(f, n)
    <2> DEFINE P == {n \in Nat : ~\E f : Solves(f, n)}
    <2>1. SUFFICES ASSUME P # {} PROVE FALSE
      OBVIOUS
    <2>2. PICK n \in P : \A m \in P : n <= m
      BY <2>1, LeastNumber
    <2>3. CASE n = 0
      <3>1. Solves([i \in 0 .. 0 |-> <<>>], 0)
        OBVIOUS
      <3> QED BY <2>3, <3>1
    <2>4. CASE n # 0
      <3>1. n - 1 \in Nat /\ n - 1 \notin P
        <4>1. n \in Nat
          OBVIOUS
        <4> HIDE DEF P
        <4> QED BY <2>2, <2>4, <4>1
      <3>2. PICK f : Solves(f, n - 1)
        BY <3>1
      <3> DEFINE g == [i \in 0 .. n |-> IF i = n THEN Step(f, n) ELSE f[i]]
      <3>3. \A i \in 0 .. n - 1 : g[i] = f[i] /\ f[i] = Step(f, i)
        <4>1. \A i \in 0 .. n - 1 : f[i] = Step(f, i)
          BY <3>2
        <4>2. \A i \in 0 .. n - 1 : i \in 0 .. n /\ i # n
          BY <3>1
        <4> HIDE DEF Step
        <4> QED BY <4>1, <4>2
      <3>4. \A i \in 0 .. n : Step(g, i) = Step(f, i)
        BY <3>1, <3>3
      <3>5. \A i \in 0 .. n : g[i] = Step(g, i)
        <4>1. g[n] = Step(f, n)
          BY <3>1
        <4>2. \A i \in 0 .. n : i = n \/ i \in 0 .. n - 1
          BY <3>1
        <4> HIDE DEF Step, g
        <4> QED BY <3>3, <3>4, <4>1, <4>2
      <3>6. Solves(g, n)
        BY <3>5
      <3> QED BY <3>6
    <2> QED BY <2>3, <2>4
  <1>2. Solves(picked, Len(s))
    BY <1>l, <1>1
  <1>3. only(s, S) = picked[Len(s)]
    BY DEF only
  <1> HIDE DEF picked
  <1>4. \A i \in 0 .. Len(s) : picked[i] = Step(picked, i)
    BY <1>2
  <1>5. \A i \in 0 .. Len(s) : Good(i)
    <2> DEFINE P == {i \in 0 .. Len(s) : ~Good(i)}
    <2>1. SUFFICES ASSUME P # {} PROVE FALSE
      OBVIOUS
    <2>2. PICK i \in P : \A j \in P : i <= j
      <3>1. P \subseteq Nat
        BY <1>l
      <3> HIDE DEF P
      <3> QED BY <2>1, <3>1, LeastNumber
    <2>3. i # 0
      <3>1. picked[0] = <<>>
        BY <1>l, <1>4
      <3>2. Good(0)
        <4>1. <<>> \in Seq(T)
          BY EmptySeq
        <4>2. Range(<<>>) = {}
          BY EmptyRange
        <4>3. {s[j] : j \in 1 .. 0} = {}
          OBVIOUS
        <4> QED BY <3>1, <4>1, <4>2, <4>3
      <3> QED BY <2>2, <3>2
    <2>4. i \in 1 .. Len(s) /\ i - 1 \in 0 .. Len(s) /\ i \in 0 .. Len(s)
      BY <1>l, <2>2, <2>3
    <2>5. Good(i - 1)
      <3>1. i - 1 \notin P
        <4>1. i \in Int
          BY <2>4
        <4> HIDE DEF P
        <4> QED BY <2>2, <4>1
      <3> QED BY <2>4, <3>1
    <2>6. {s[j] : j \in 1 .. i} = {s[j] : j \in 1 .. i - 1} \cup {s[i]}
      <3>1. 1 .. i = (1 .. i - 1) \cup {i}
        BY <2>4
      <3> QED BY <3>1
    <2>7. s[i] \in T
      BY <1>l, <2>4
    <2>8. CASE s[i] \in S
      <3>1. picked[i] = Append(picked[i - 1], s[i])
        BY <1>4, <2>3, <2>4, <2>8
      <3>2. Good(i)
        <4>1. picked[i] \in Seq(T) /\ Range(picked[i]) = Range(picked[i - 1]) \cup {s[i]}
          BY <2>5, <2>7, <3>1, AppendRange
        <4> QED BY <2>5, <2>6, <2>8, <4>1
      <3> QED BY <2>2, <3>2
    <2>9. CASE s[i] \notin S
      <3>1. picked[i] = picked[i - 1]
        BY <1>4, <2>3, <2>4, <2>9
      <3>2. Good(i)
        BY <2>5, <2>6, <2>9, <3>1
      <3> QED BY <2>2, <3>2
    <2> QED BY <2>8, <2>9
  <1>6. Good(Len(s))
    <2>1. Len(s) \in 0 .. Len(s)
      BY <1>l
    <2> HIDE DEF Good
    <2> QED BY <1>5, <2>1
  <1> QED BY <1>3, <1>6, RangeEquality

(* Taking the first entry of a sequence. *)
LEMMA TailRange ==
    ASSUME NEW T, NEW s \in Seq(T), s # <<>>
    PROVE  /\ Tail(s) \in Seq(T) /\ Head(s) \in T /\ Head(s) = s[1]
           /\ Len(s) \in Nat \ {0} /\ Len(Tail(s)) = Len(s) - 1
           /\ \A i \in 1 .. Len(s) - 1 : Tail(s)[i] = s[i + 1]
           /\ Range(s) = Range(Tail(s)) \cup {Head(s)}
  <1>1. /\ Tail(s) \in Seq(T) /\ Head(s) \in T /\ Head(s) = s[1]
        /\ Len(s) \in Nat \ {0} /\ Len(Tail(s)) = Len(s) - 1
        /\ \A i \in 1 .. Len(s) - 1 : Tail(s)[i] = s[i + 1]
    BY HeadTailProperties, LenProperties, EmptySeq
  <1>2. /\ Range(s) = {s[i] : i \in 1 .. Len(s)}
        /\ Range(Tail(s)) = {Tail(s)[i] : i \in 1 .. Len(s) - 1}
    <2>1. Range(s) = {s[i] : i \in 1 .. Len(s)}
      BY RangeEquality
    <2>2. Range(Tail(s)) = {Tail(s)[i] : i \in 1 .. Len(Tail(s))}
      BY <1>1, RangeEquality
    <2> QED BY <1>1, <2>1, <2>2
  <1>3. \A i \in 1 .. Len(s) : i = 1 \/ i - 1 \in 1 .. Len(s) - 1
    BY <1>1
  <1>4. \A i \in 1 .. Len(s) - 1 : i + 1 \in 1 .. Len(s)
    BY <1>1
  <1>5. ASSUME NEW x \in Range(s) PROVE x \in Range(Tail(s)) \cup {Head(s)}
    <2>1. PICK i \in 1 .. Len(s) : x = s[i]
      BY <1>2
    <2>2. CASE i = 1
      BY <1>1, <2>1, <2>2
    <2>3. CASE i # 1
      <3>1. i - 1 \in 1 .. Len(s) - 1 /\ (i - 1) + 1 = i
        BY <1>3, <2>3
      <3>2. Tail(s)[i - 1] = s[i]
        BY <1>1, <3>1
      <3> QED BY <1>2, <2>1, <3>1, <3>2
    <2> QED BY <2>2, <2>3
  <1>6. ASSUME NEW x \in Range(Tail(s)) PROVE x \in Range(s)
    <2>1. PICK i \in 1 .. Len(s) - 1 : x = s[i + 1]
      BY <1>1, <1>2
    <2> QED BY <1>2, <1>4, <2>1
  <1>7. Head(s) \in Range(s)
    <2>1. 1 \in 1 .. Len(s)
      BY <1>1
    <2> QED BY <1>1, <1>2, <2>1
  <1> QED BY <1>1, <1>5, <1>6, <1>7

(* A finite set has a sequence of its members, without repetition. *)
LEMMA SetToSeqExists ==
    ASSUME NEW S, IsFiniteSet(S)
    PROVE  /\ Cardinality(S) \in Nat
           /\ SetToSeq(S) \in [1 .. Cardinality(S) -> S]
           /\ \A i, j \in 1 .. Cardinality(S) : SetToSeq(S)[i] = SetToSeq(S)[j] => i = j
  <1>1. Cardinality(S) \in Nat /\ ExistsBijection(1 .. Cardinality(S), S)
    BY FS_CardinalityType
  <1>2. \E f \in [1 .. Cardinality(S) -> S] : IsInjective(f)
    BY <1>1 DEF ExistsBijection, Bijection, Injection
  <1>3. SetToSeq(S) \in [1 .. Cardinality(S) -> S] /\ IsInjective(SetToSeq(S))
    BY <1>2 DEF SetToSeq
  <1> QED BY <1>1, <1>3 DEF IsInjective

(* Taking out the first entry of a request keeps all other requests.       *)
LEMMA RemoveFirstRange ==
    ASSUME NEW reqs \in Seq(Request), NEW q \in Range(reqs)
    PROVE  /\ removeFirst(reqs, q) \in Seq(Request)
           /\ Range(reqs) \ {q} \subseteq Range(removeFirst(reqs, q))
           /\ Range(removeFirst(reqs, q)) \subseteq Range(reqs)
  <1> DEFINE First(i) == reqs[i] = q /\ \A j \in 1 .. i - 1 : reqs[j] # q
             k == CHOOSE i \in 1 .. Len(reqs) : First(i)
             a == SubSeq(reqs, 1, k - 1)
             b == SubSeq(reqs, k + 1, Len(reqs))
  <1>l. Len(reqs) \in Nat /\ \A i \in 1 .. Len(reqs) : reqs[i] \in Request
    BY LenProperties
  <1>1. \E i \in 1 .. Len(reqs) : First(i)
    <2> DEFINE P == {i \in 1 .. Len(reqs) : reqs[i] = q}
    <2>1. P # {} /\ P \subseteq Nat
      BY <1>l, RangeEquality
    <2>3. PICK i \in P : \A j \in P : i <= j
      BY <2>1, LeastNumber
    <2>4. First(i)
      BY <1>l, <2>3
    <2> QED BY <2>4
  <1>2. k \in 1 .. Len(reqs) /\ First(k)
    BY <1>1
  <1>3. removeFirst(reqs, q) = a \o b
    BY DEF removeFirst
  <1> HIDE DEF k
  <1>4. /\ a \in Seq(Request) /\ Len(a) = k - 1
        /\ \A i \in 1 .. k - 1 : a[i] = reqs[i]
        /\ b \in Seq(Request) /\ Len(b) = Len(reqs) - k
        /\ \A i \in 1 .. Len(reqs) - k : b[i] = reqs[i + k]
    BY <1>l, <1>2
  <1> HIDE DEF a, b
  <1>5. a \o b \in Seq(Request) /\ Range(a \o b) = Range(a) \cup Range(b)
    BY <1>4, RangeConcatenation
  <1>6. Range(a) \cup Range(b) \subseteq Range(reqs)
    <2>1. ASSUME NEW i \in 1 .. k - 1 PROVE a[i] \in Range(reqs)
      <3>1. i \in 1 .. Len(reqs)
        BY <1>l, <1>2
      <3> QED BY <1>4, <3>1, RangeEquality
    <2>2. ASSUME NEW i \in 1 .. Len(reqs) - k PROVE b[i] \in Range(reqs)
      <3>1. i + k \in 1 .. Len(reqs)
        BY <1>l, <1>2
      <3> QED BY <1>4, <3>1, RangeEquality
    <2>3. Range(a) = {a[i] : i \in 1 .. k - 1} /\ Range(b) = {b[i] : i \in 1 .. Len(reqs) - k}
      BY <1>4, RangeEquality
    <2> QED BY <2>1, <2>2, <2>3
  <1>7. ASSUME NEW i \in 1 .. Len(reqs), reqs[i] # q PROVE reqs[i] \in Range(a) \cup Range(b)
    <2>1. CASE i < k
      <3>1. i \in 1 .. k - 1
        BY <1>l, <1>2, <2>1
      <3> QED BY <1>4, <3>1, RangeEquality
    <2>2. CASE i > k
      <3>1. i - k \in 1 .. Len(reqs) - k /\ (i - k) + k = i
        BY <1>l, <1>2, <2>2
      <3> QED BY <1>4, <3>1, RangeEquality
    <2>3. reqs[k] = q
      BY <1>2
    <2>4. i # k
      BY <1>7, <2>3
    <2> QED BY <1>l, <1>2, <2>1, <2>2, <2>4
  <1>8. Range(reqs) \ {q} \subseteq Range(a) \cup Range(b)
    BY <1>7, RangeEquality
  <1> QED BY <1>3, <1>5, <1>6, <1>8

-----------------------------------------------------------------------------
(* Types *)

(* Messages differ by their kind or their offer. *)
LEMMA MessagesDiffer ==
    ASSUME NEW k, NEW l, NEW o, NEW p
    PROVE  message(k, o) = message(l, p) <=> k = l /\ o = p
  BY DEF message

(* Messages have their type. *)
LEMMA MessageTypes ==
    ASSUME NEW o \in Offer
    PROVE  /\ \A k \in {"taskofferaccept", "tasksettings", "taskcancel"} :
                  message(k, o) \in ToRunnerMessage
           /\ \A k \in {"taskoffer", "taskaccepted", "taskrejected", "taskdeferred", "taskdone",
                        "taskerror"} : message(k, o) \in ToBrokerMessage
  BY DEF message, ToRunnerMessage, ToBrokerMessage

(* An offer is one of its runner, and there are finitely many. *)
LEMMA OfferFacts ==
    /\ \A o \in Offer : o[1] \in Runner /\ o[2] \in 1 .. MaxOffer /\ o = <<o[1], o[2]>>
    /\ \A r \in Runner : \A n \in 1 .. MaxOffer : <<r, n>> \in Offer /\ <<r, n>>[1] = r
    /\ IsFiniteSet(Offer)
  <1>1. IsFiniteSet(Offer)
    <2>1. IsFiniteSet(1 .. MaxOffer)
      BY ConstantsAssumption, FS_Interval
    <2> QED BY <2>1, ConstantsAssumption, FS_Product DEF Offer
  <1> QED BY <1>1 DEF Offer

(* Sending messages keeps the type of the channels to the runners. *)
LEMMA SentType ==
    ASSUME TypeOK, NEW r \in Runner, NEW ms \in Seq(ToRunnerMessage)
    PROVE  sent(r, ms) \in [Runner -> Seq(ToRunnerMessage)]
  <1>1. toRunner \in [Runner -> Seq(ToRunnerMessage)]
    BY DEF TypeOK
  <1>2. toRunner[r] \o ms \in Seq(ToRunnerMessage)
    BY <1>1, ConcatProperties
  <1> QED BY <1>1, <1>2 DEF sent

(* Taking a message keeps the type of the channels. *)
LEMMA TakeType ==
    ASSUME TypeOK, NEW r \in Runner
    PROVE  /\ take(r) => /\ toRunner' \in [Runner -> Seq(ToRunnerMessage)]
                         /\ toRunner[r] # <<>> /\ toRunner' = [toRunner EXCEPT ![r] = Tail(@)]
           /\ \A k, o : receive(r, k, o) => toBroker' \in [Runner -> Seq(ToBrokerMessage)]
  <1>1. /\ toRunner \in [Runner -> Seq(ToRunnerMessage)]
        /\ toBroker \in [Runner -> Seq(ToBrokerMessage)]
    BY DEF TypeOK
  <1>2. /\ toRunner[r] # <<>> => Tail(toRunner[r]) \in Seq(ToRunnerMessage)
        /\ toBroker[r] # <<>> => Tail(toBroker[r]) \in Seq(ToBrokerMessage)
    BY <1>1, HeadTailProperties
  <1> QED BY <1>1, <1>2 DEF take, receive

(* Sending a message keeps the type of the channels to the broker. *)
LEMMA AppendType ==
    ASSUME TypeOK, NEW r \in Runner, NEW m \in ToBrokerMessage
    PROVE  [toBroker EXCEPT ![r] = Append(@, m)] \in [Runner -> Seq(ToBrokerMessage)]
  <1>1. toBroker \in [Runner -> Seq(ToBrokerMessage)]
    BY DEF TypeOK
  <1>2. Append(toBroker[r], m) \in Seq(ToBrokerMessage)
    BY <1>1, AppendProperties
  <1> QED BY <1>1, <1>2

-----------------------------------------------------------------------------
(* settleTasks *)

(* Two places of equally many offers of a type up to them, each with such  *)
(* an offer, are one place.                                                *)
LEMMA SameRankSamePlace ==
    ASSUME NEW G, NEW a \in Nat \ {0}, NEW b \in Nat \ {0}, a \in G, b \in G,
           Cardinality(G \cap (1 .. a)) = Cardinality(G \cap (1 .. b))
    PROVE  a = b
  <1> DEFINE Below(n) == G \cap (1 .. n)
  <1>1. ASSUME NEW m \in Nat \ {0}, NEW n \in Nat \ {0}, n \in G, m < n,
               Cardinality(Below(m)) = Cardinality(Below(n))
        PROVE  FALSE
    <2>1. IsFiniteSet(1 .. n)
      BY FS_Interval
    <2>2. IsFiniteSet(Below(n))
      BY <2>1, FS_Subset
    <2>3. Below(m) \subseteq Below(n) /\ n \in Below(n) /\ n \notin Below(m)
      BY <1>1
    <2>4. Below(m) # Below(n)
      BY <2>3
    <2>5. Cardinality(Below(m)) < Cardinality(Below(n))
      <3>1. Cardinality(Below(m)) <= Cardinality(Below(n))
            /\ (Cardinality(Below(m)) = Cardinality(Below(n)) => Below(m) = Below(n))
        <4> HIDE DEF Below
        <4> QED BY <2>2, <2>3, FS_Subset
      <3> QED BY <1>1, <2>4, <3>1
    <2> QED BY <1>1, <2>2, <2>4, <2>5, FS_CardinalityType
  <1> QED BY <1>1

(* Two pairs of an offer and one request are the same pair. *)
LEMMA MatchIsUnique ==
    ASSUME NEW offs, NEW reqs, Len(offs) \in Nat, Len(reqs) \in Nat,
           NEW p \in matches(offs, reqs), NEW r \in matches(offs, reqs),
           reqs[p[1]] = reqs[r[1]]
    PROVE  p = r
  <1> DEFINE t == RequestType[reqs[p[1]]]
             F(j) == OfferType(offs[j]) = t
             Rank(i) == Cardinality({k \in free(reqs) : k <= i /\ RequestType[reqs[k]] = t})
  <1>1. /\ p \in free(reqs) \X (1 .. Len(offs)) /\ r \in free(reqs) \X (1 .. Len(offs))
        /\ F(p[2]) /\ Rank(p[1]) = Cardinality({j \in 1 .. p[2] : F(j)})
        /\ F(r[2]) /\ Rank(r[1]) = Cardinality({j \in 1 .. r[2] : F(j)})
    BY DEF matches
  <1>2. p[1] \in free(reqs) /\ r[1] \in free(reqs) /\ p[2] \in 1 .. Len(offs) /\ r[2] \in 1 .. Len(offs)
    BY <1>1
  <1>3. p[1] = r[1]
    <2>1. p[1] \in 1 .. Len(reqs) /\ r[1] \in 1 .. Len(reqs)
          /\ (\A j \in 1 .. p[1] - 1 : reqs[j] # reqs[p[1]])
          /\ (\A j \in 1 .. r[1] - 1 : reqs[j] # reqs[r[1]])
      BY <1>2 DEF free
    <2> QED BY <2>1
  <1>4. p[2] = r[2]
    <2>1. Cardinality({j \in 1 .. p[2] : F(j)}) = Cardinality({j \in 1 .. r[2] : F(j)})
      BY <1>1, <1>3
    <2>2. p[2] \in Nat \ {0} /\ r[2] \in Nat \ {0}
      BY <1>2
    <2> DEFINE G == {j \in Nat : F(j)}
    <2>3. /\ {j \in 1 .. p[2] : F(j)} = G \cap (1 .. p[2])
          /\ {j \in 1 .. r[2] : F(j)} = G \cap (1 .. r[2])
      BY <2>2
    <2>4. Cardinality(G \cap (1 .. p[2])) = Cardinality(G \cap (1 .. r[2]))
      BY <2>1, <2>3
    <2>5. p[2] \in G /\ r[2] \in G
      BY <1>1, <2>2
    <2> HIDE DEF G
    <2>6. \A a, b \in Nat \ {0} :
            a \in G /\ b \in G /\ Cardinality(G \cap (1 .. a)) = Cardinality(G \cap (1 .. b))
              => a = b
      BY SameRankSamePlace
    <2> QED BY <2>2, <2>4, <2>5, <2>6
  <1> QED BY <1>1, <1>3, <1>4

(* What settleTasks does: the offers that it takes leave the pending ones, *)
(* each for a pending request of its type that was not marked, and a       *)
(* different one.                                                          *)
Settled(taken, offs, reqs) ==
    /\ taken \subseteq Range(offs)
    /\ pendingTaskRequests' = reqs
    /\ pendingTaskOffers' \in Seq(Offer)
    /\ Range(pendingTaskOffers') = Range(offs) \ taken
    /\ acceptInProgress' \in SUBSET Request
    /\ acceptInProgress \subseteq acceptInProgress'
    /\ runnerAcceptRejects' \in [Offer -> Request \cup {NoRequest}]
    /\ \A o \in Offer \ taken : runnerAcceptRejects'[o] = runnerAcceptRejects[o]
    /\ \A o \in taken : /\ runnerAcceptRejects'[o] \in Range(reqs) \ acceptInProgress
                        /\ runnerAcceptRejects'[o] \in acceptInProgress'
                        /\ RequestType[runnerAcceptRejects'[o]] = OfferType(o)
    /\ \A o, p \in taken : runnerAcceptRejects'[o] = runnerAcceptRejects'[p] => o = p
    /\ toRunner' \in [Runner -> Seq(ToRunnerMessage)]
    /\ \A r \in Runner : \E ms \in Seq(ToRunnerMessage) :
          /\ toRunner'[r] = sent(r, ms)[r]
          /\ Range(ms) \subseteq {message("taskofferaccept", o) : o \in {p \in taken : p[1] = r}}

(* settleTasks does that. *)
LEMMA SettleEffect ==
    ASSUME TypeOK, NEW offs \in Seq(Offer), NEW reqs \in Seq(Request), settleTasks(offs, reqs)
    PROVE  \E taken \in SUBSET Offer : Settled(taken, offs, reqs)
  <1> DEFINE pairs == matches(offs, reqs)
             taken == {offs[p[2]] : p \in pairs}
             pairOf(o) == CHOOSE p \in pairs : offs[p[2]] = o
             accepted(r) == only(offs, {o \in taken : o[1] = r})
             ms(r) == [i \in 1 .. Len(accepted(r)) |-> message("taskofferaccept", accepted(r)[i])]
  <1>t. /\ acceptInProgress \in SUBSET Request
        /\ runnerAcceptRejects \in [Offer -> Request \cup {NoRequest}]
    BY DEF TypeOK
  <1>l. /\ Len(offs) \in Nat /\ \A i \in 1 .. Len(offs) : offs[i] \in Offer
        /\ Len(reqs) \in Nat /\ \A i \in 1 .. Len(reqs) : reqs[i] \in Request
        /\ Range(offs) = {offs[i] : i \in 1 .. Len(offs)}
        /\ Range(reqs) = {reqs[i] : i \in 1 .. Len(reqs)}
        /\ Range(offs) \subseteq Offer
    BY LenProperties, RangeEquality
  <1>s. /\ pendingTaskRequests' = reqs
        /\ pendingTaskOffers' = only(offs, Offer \ taken)
        /\ acceptInProgress' = acceptInProgress \cup {reqs[p[1]] : p \in pairs}
        /\ runnerAcceptRejects' =
              [o \in Offer |-> IF o \in taken THEN reqs[pairOf(o)[1]] ELSE runnerAcceptRejects[o]]
        /\ toRunner' = [r \in Runner |-> sent(r, ms(r))[r]]
    BY DEF settleTasks
  <1>1. \A p \in pairs : /\ p[1] \in 1 .. Len(reqs) /\ p[2] \in 1 .. Len(offs)
                         /\ reqs[p[1]] \notin acceptInProgress
                         /\ OfferType(offs[p[2]]) = RequestType[reqs[p[1]]]
    BY DEF matches, free
  <1>2. taken \subseteq Range(offs)
    BY <1>l, <1>1
  <1>3. \A o \in taken : pairOf(o) \in pairs /\ offs[pairOf(o)[2]] = o
    OBVIOUS
  <1>4. \A o \in taken : /\ runnerAcceptRejects'[o] = reqs[pairOf(o)[1]]
                         /\ runnerAcceptRejects'[o] \in Range(reqs) \ acceptInProgress
                         /\ runnerAcceptRejects'[o] \in acceptInProgress'
                         /\ RequestType[runnerAcceptRejects'[o]] = OfferType(o)
    <2> SUFFICES ASSUME NEW o \in taken
                 PROVE  /\ runnerAcceptRejects'[o] = reqs[pairOf(o)[1]]
                        /\ runnerAcceptRejects'[o] \in Range(reqs) \ acceptInProgress
                        /\ runnerAcceptRejects'[o] \in acceptInProgress'
                        /\ RequestType[runnerAcceptRejects'[o]] = OfferType(o)
      OBVIOUS
    <2>1. pairOf(o) \in pairs /\ offs[pairOf(o)[2]] = o
      BY <1>3
    <2>2. o \in Offer
      BY <1>l, <1>2
    <2> HIDE DEF pairs, pairOf, taken
    <2>3. runnerAcceptRejects'[o] = reqs[pairOf(o)[1]]
      BY <1>s, <2>2
    <2>4. /\ pairOf(o)[1] \in 1 .. Len(reqs) /\ reqs[pairOf(o)[1]] \notin acceptInProgress
          /\ OfferType(o) = RequestType[reqs[pairOf(o)[1]]]
      BY <1>1, <2>1
    <2>5. reqs[pairOf(o)[1]] \in {reqs[p[1]] : p \in pairs}
      BY <2>1
    <2>6. reqs[pairOf(o)[1]] \in Range(reqs)
      BY <1>l, <2>4
    <2>7. acceptInProgress' = acceptInProgress \cup {reqs[p[1]] : p \in pairs}
      BY <1>s
    <2> QED BY <2>3, <2>4, <2>5, <2>6, <2>7
  <1>5. ASSUME NEW o \in taken, NEW p \in taken, runnerAcceptRejects'[o] = runnerAcceptRejects'[p]
        PROVE  o = p
    <2>1. pairOf(o) \in pairs /\ pairOf(p) \in pairs
          /\ offs[pairOf(o)[2]] = o /\ offs[pairOf(p)[2]] = p
      BY <1>3
    <2>2. reqs[pairOf(o)[1]] = reqs[pairOf(p)[1]]
      BY <1>4, <1>5
    <2>3. pairOf(o) = pairOf(p)
      <3> HIDE DEF pairOf
      <3> QED BY <1>l, <2>1, <2>2, MatchIsUnique
    <2> QED BY <2>1, <2>3
  <1>6. pendingTaskOffers' \in Seq(Offer) /\ Range(pendingTaskOffers') = Range(offs) \ taken
    <2>1. /\ only(offs, Offer \ taken) \in Seq(Offer)
          /\ Range(only(offs, Offer \ taken)) = Range(offs) \cap (Offer \ taken)
      <3> HIDE DEF taken
      <3> QED BY OnlyRange
    <2> QED BY <1>l, <1>s, <2>1
  <1>7. acceptInProgress' \in SUBSET Request /\ acceptInProgress \subseteq acceptInProgress'
    BY <1>t, <1>l, <1>s, <1>1
  <1>8. /\ runnerAcceptRejects' \in [Offer -> Request \cup {NoRequest}]
        /\ \A o \in Offer \ taken : runnerAcceptRejects'[o] = runnerAcceptRejects[o]
    <2>1. \A o \in taken : reqs[pairOf(o)[1]] \in Request
      <3> HIDE DEF taken, pairOf
      <3> QED BY <1>l, <1>4
    <2> HIDE DEF taken, pairOf
    <2> QED BY <1>t, <1>s, <2>1
  <1>9. ASSUME NEW r \in Runner
        PROVE  /\ ms(r) \in Seq(ToRunnerMessage)
               /\ Range(ms(r)) \subseteq
                    {message("taskofferaccept", o) : o \in {p \in taken : p[1] = r}}
    <2> DEFINE own == {p \in taken : p[1] = r}
    <2>1. accepted(r) \in Seq(Offer) /\ Range(accepted(r)) = Range(offs) \cap own
      <3>1. /\ only(offs, own) \in Seq(Offer)
            /\ Range(only(offs, own)) = Range(offs) \cap own
        <4> HIDE DEF own
        <4> QED BY OnlyRange
      <3> QED BY <3>1
    <2>2. /\ Len(accepted(r)) \in Nat
          /\ Range(accepted(r)) = {accepted(r)[i] : i \in 1 .. Len(accepted(r))}
          /\ \A i \in 1 .. Len(accepted(r)) : accepted(r)[i] \in Offer
      <3> HIDE DEF accepted
      <3> QED BY <2>1, LenProperties, RangeEquality
    <2>3. \A i \in 1 .. Len(accepted(r)) :
              /\ message("taskofferaccept", accepted(r)[i]) \in ToRunnerMessage
              /\ accepted(r)[i] \in own
      <3> HIDE DEF accepted, own
      <3> QED BY <2>1, <2>2, MessageTypes
    <2>4. ms(r) \in Seq(ToRunnerMessage) /\ Len(ms(r)) = Len(accepted(r))
      <3> HIDE DEF accepted
      <3> QED BY <2>2, <2>3
    <2>5. Range(ms(r)) = {ms(r)[i] : i \in 1 .. Len(accepted(r))}
      <3> HIDE DEF ms
      <3> QED BY <2>4, RangeEquality
    <2>6. \A i \in 1 .. Len(accepted(r)) :
              ms(r)[i] = message("taskofferaccept", accepted(r)[i])
      BY <2>2
    <2>7. Range(ms(r)) \subseteq {message("taskofferaccept", o) : o \in own}
      <3> HIDE DEF accepted, own, ms
      <3> QED BY <2>3, <2>5, <2>6
    <2> QED BY <2>4, <2>7
  <1>10. /\ toRunner' \in [Runner -> Seq(ToRunnerMessage)]
         /\ \A r \in Runner : toRunner'[r] = sent(r, ms(r))[r]
    <2>1. \A r \in Runner : sent(r, ms(r))[r] \in Seq(ToRunnerMessage)
      <3> HIDE DEF ms
      <3> QED BY <1>9, SentType
    <2> HIDE DEF ms
    <2> QED BY <1>s, <2>1
  <1> HIDE DEF taken, ms, pairs
  <1>11. taken \in SUBSET Offer
    BY <1>l, <1>2
  <1>12. Settled(taken, offs, reqs)
    BY <1>s, <1>2, <1>4, <1>5, <1>6, <1>7, <1>8, <1>9, <1>10 DEF Settled
  <1> QED BY <1>11, <1>12

-----------------------------------------------------------------------------
(* sendOffers *)

(* The lowest unused numbers that fit into a room fit into it. *)
LEMMA LowestFit ==
    ASSUME NEW unused, unused \subseteq 1 .. MaxOffer, NEW room \in Int,
           NEW chosen, chosen = {n \in unused : Cardinality({m \in unused : m <= n}) <= room}
    PROVE  IsFiniteSet(chosen) /\ (chosen = {} \/ Cardinality(chosen) <= room)
  <1>1. IsFiniteSet(1 .. MaxOffer)
    BY ConstantsAssumption, FS_Interval
  <1>2. IsFiniteSet(unused) /\ IsFiniteSet(chosen)
    BY <1>1, FS_Subset
  <1>3. ASSUME chosen # {} PROVE Cardinality(chosen) <= room
    <2> DEFINE rest == {MaxOffer - n : n \in chosen}
    <2>0. \A n \in chosen : n \in 1 .. MaxOffer
      OBVIOUS
    <2>1. rest # {} /\ rest \subseteq Nat
      <3>1. \A n \in 1 .. MaxOffer : MaxOffer - n \in Nat
        BY ConstantsAssumption
      <3> QED BY <1>3, <2>0, <3>1
    <2>2. PICK x \in rest : \A y \in rest : x <= y
      <3> HIDE DEF rest
      <3> QED BY <2>1, LeastNumber
    <2>3. PICK n \in chosen : x = MaxOffer - n
      BY <2>2
    <2>4. \A m \in chosen : m <= n
      <3> SUFFICES ASSUME NEW m \in chosen PROVE m <= n
        OBVIOUS
      <3>1. MaxOffer - m \in rest /\ m \in Int /\ n \in Int
        BY <2>0
      <3>2. MaxOffer - n <= MaxOffer - m
        BY <2>2, <2>3, <3>1
      <3> QED BY <3>1, <3>2, ConstantsAssumption
    <2> DEFINE low == {m \in unused : m <= n}
    <2>5. Cardinality(low) <= room
      OBVIOUS
    <2>6. IsFiniteSet(low) /\ chosen \subseteq low
      BY <1>2, <2>4, FS_Subset
    <2>7. Cardinality(chosen) \in Nat /\ Cardinality(low) \in Nat
      BY <1>2, <2>6, FS_CardinalityType
    <2>8. Cardinality(chosen) <= Cardinality(low)
      <3> HIDE DEF low
      <3> QED BY <2>6, FS_Subset
    <2> HIDE DEF low
    <2> QED BY <2>5, <2>7, <2>8
  <1> QED BY <1>2, <1>3

(* What sendOffers does: the new offers have names that are not in use,    *)
(* are told to the broker once each, and fit beside what the runner has.   *)
OffersSent(new, ms, r, stale, held, done) ==
    /\ new \subseteq ofRunner(Offer, r) \ inUse(r)
    /\ openOffers' = (openOffers \ stale) \cup new
    /\ openOffers' \in SUBSET Offer
    /\ toBroker' = [toBroker EXCEPT ![r] = (@ \o done) \o ms]
    /\ toBroker' \in [Runner -> Seq(ToBrokerMessage)]
    /\ ms \in Seq(ToBrokerMessage)
    /\ Range(ms) \subseteq {message("taskoffer", o) : o \in new}
    /\ \A i, j \in 1 .. Len(ms) : ms[i] = ms[j] => i = j
    /\ slowOffers' \in 0 .. MaxSlowOffers
    /\ IsFiniteSet(new)
    /\ \/ new = {}
       \/ Cardinality(new) <= MaxConcurrency - (Cardinality(ofRunner(openOffers, r) \ stale)
                                                  + Cardinality(ofRunner(held, r)))

(* sendOffers does that. *)
LEMMA SendEffect ==
    ASSUME TypeOK, NEW r \in Runner, NEW stale, NEW held \in SUBSET Offer,
           NEW done \in Seq(ToBrokerMessage), sendOffers(r, stale, held, done)
    PROVE  \E new, ms : OffersSent(new, ms, r, stale, held, done)
  <1> DEFINE open == ofRunner(openOffers, r) \ stale
             room == IF runner[r] # "offering" THEN 0
                     ELSE MaxConcurrency - (Cardinality(open) + Cardinality(ofRunner(held, r)))
             unused == {n \in 1 .. MaxOffer : <<r, n>> \notin inUse(r)}
             chosen == {n \in unused : Cardinality({m \in unused : m <= n}) <= room}
             offered == SetToSeq(chosen)
             new == {<<r, n>> : n \in Range(offered)}
             ms == [i \in 1 .. Len(offered) |-> message("taskoffer", <<r, offered[i]>>)]
             lapsed == {o \in stale : current(o)}
  <1>s. /\ stale \subseteq ofRunner(openOffers, r)
        /\ Cardinality(lapsed) <= MaxSlowOffers - slowOffers
        /\ slowOffers' = slowOffers + Cardinality(lapsed)
        /\ openOffers' = (openOffers \ stale) \cup new
        /\ toBroker' = [toBroker EXCEPT ![r] = (@ \o done) \o ms]
    BY DEF sendOffers
  <1>t. /\ openOffers \in SUBSET Offer /\ slowOffers \in 0 .. MaxSlowOffers
        /\ toBroker \in [Runner -> Seq(ToBrokerMessage)]
    BY DEF TypeOK
  <1>1. /\ IsFiniteSet(open) /\ IsFiniteSet(ofRunner(held, r)) /\ IsFiniteSet(lapsed)
        /\ Cardinality(open) \in Nat /\ Cardinality(ofRunner(held, r)) \in Nat
        /\ Cardinality(lapsed) \in Nat
    <2>1. open \subseteq Offer /\ ofRunner(held, r) \subseteq Offer /\ lapsed \subseteq Offer
      BY <1>s, <1>t DEF ofRunner
    <2> HIDE DEF open, lapsed
    <2> QED BY <2>1, OfferFacts, FS_Subset, FS_CardinalityType
  <1>2. room \in Int
    <2> HIDE DEF open
    <2> QED BY <1>1, ConstantsAssumption
  <1>3. IsFiniteSet(chosen) /\ (chosen = {} \/ Cardinality(chosen) <= room)
    <2>1. unused \subseteq 1 .. MaxOffer
      OBVIOUS
    <2> HIDE DEF unused, room
    <2> QED BY <1>2, <2>1, LowestFit
  <1>4. /\ Cardinality(chosen) \in Nat /\ offered \in [1 .. Cardinality(chosen) -> chosen]
        /\ \A i, j \in 1 .. Cardinality(chosen) : offered[i] = offered[j] => i = j
    <2> HIDE DEF chosen
    <2> QED BY <1>3, SetToSeqExists
  <1>5. \A n \in chosen : n \in 1 .. MaxOffer /\ <<r, n>> \notin inUse(r)
    OBVIOUS
  <1> HIDE DEF chosen, offered
  <1>6. /\ offered \in Seq(chosen) /\ Len(offered) = Cardinality(chosen)
        /\ Range(offered) \subseteq chosen
    <2>1. offered \in Seq(chosen) /\ Len(offered) = Cardinality(chosen)
      BY <1>4
    <2> QED BY <2>1, RangeOfSeq
  <1>7. new \subseteq ofRunner(Offer, r) \ inUse(r)
    BY <1>5, <1>6, OfferFacts DEF ofRunner
  <1>8. openOffers' \in SUBSET Offer
    BY <1>s, <1>t, <1>7 DEF ofRunner
  <1>9. /\ ms \in Seq(ToBrokerMessage) /\ Len(ms) = Len(offered)
        /\ \A i \in 1 .. Len(offered) : ms[i] = message("taskoffer", <<r, offered[i]>>)
    <2>1. \A i \in 1 .. Len(offered) : message("taskoffer", <<r, offered[i]>>) \in ToBrokerMessage
      <3> SUFFICES ASSUME NEW i \in 1 .. Len(offered)
                   PROVE  message("taskoffer", <<r, offered[i]>>) \in ToBrokerMessage
        OBVIOUS
      <3>1. offered[i] \in 1 .. MaxOffer
        BY <1>4, <1>5, <1>6
      <3>2. <<r, offered[i]>> \in Offer
        BY <3>1, OfferFacts
      <3> QED BY <3>2, MessageTypes
    <2>2. Len(offered) \in Nat
      BY <1>4, <1>6
    <2> QED BY <2>1, <2>2
  <1>10. \A i, j \in 1 .. Len(ms) : ms[i] = ms[j] => i = j
    <2> SUFFICES ASSUME NEW i \in 1 .. Len(ms), NEW j \in 1 .. Len(ms), ms[i] = ms[j]
                 PROVE  i = j
      OBVIOUS
    <2>1. message("taskoffer", <<r, offered[i]>>) = message("taskoffer", <<r, offered[j]>>)
      BY <1>9
    <2>2. <<r, offered[i]>> = <<r, offered[j]>>
      BY <2>1, MessagesDiffer
    <2>3. offered[i] = offered[j]
      BY <2>2
    <2> QED BY <1>4, <1>6, <1>9, <2>3
  <1>11. Range(ms) \subseteq {message("taskoffer", o) : o \in new}
    <2>1. Range(ms) = {ms[i] : i \in 1 .. Len(offered)}
      <3> HIDE DEF ms
      <3> QED BY <1>9, RangeEquality
    <2>2. Range(offered) = {offered[i] : i \in 1 .. Len(offered)}
      BY <1>6, RangeEquality
    <2>3. \A i \in 1 .. Len(offered) : <<r, offered[i]>> \in new
      BY <2>2
    <2> HIDE DEF ms, new
    <2> QED BY <1>9, <2>1, <2>3
  <1>12. toBroker' \in [Runner -> Seq(ToBrokerMessage)]
    <2>1. toBroker[r] \o done \in Seq(ToBrokerMessage)
      BY <1>t, ConcatProperties
    <2> HIDE DEF ms
    <2>2. (toBroker[r] \o done) \o ms \in Seq(ToBrokerMessage)
      BY <1>9, <2>1, ConcatProperties
    <2> QED BY <1>s, <1>t, <2>2
  <1>13. slowOffers' \in 0 .. MaxSlowOffers
    <2> HIDE DEF lapsed
    <2> QED BY <1>s, <1>t, <1>1, ConstantsAssumption
  <1>14. IsFiniteSet(new) /\ (new = {} \/ Cardinality(new) <= room)
    <2>1. [o \in new |-> o[2]] \in Injection(new, chosen)
      <3>1. \A o \in new : o = <<r, o[2]>> /\ o[2] \in chosen
        BY <1>6
      <3> HIDE DEF new
      <3> QED BY <3>1 DEF Injection, IsInjective
    <2>2. IsFiniteSet(new) /\ Cardinality(new) <= Cardinality(chosen)
      <3> HIDE DEF new
      <3> QED BY <1>3, <2>1, FS_Injection
    <2>3. CASE chosen = {}
      BY <1>6, <2>2, <2>3
    <2>4. CASE Cardinality(chosen) <= room
      <3>1. Cardinality(new) \in Nat
        <4> HIDE DEF new
        <4> QED BY <2>2, FS_CardinalityType
      <3> HIDE DEF new, room
      <3> QED BY <1>2, <1>4, <2>2, <2>4, <3>1
    <2> QED BY <1>3, <2>3, <2>4
  <1>15. new = {} \/ Cardinality(new) <= MaxConcurrency - (Cardinality(open)
                                                             + Cardinality(ofRunner(held, r)))
    <2>1. CASE runner[r] # "offering"
      <3>1. room = 0
        BY <2>1
      <3>2. Cardinality(new) \in Nat /\ (Cardinality(new) = 0 => new = {})
        <4> HIDE DEF new
        <4> QED BY <1>14, FS_CardinalityType, FS_EmptySet
      <3> HIDE DEF new, room
      <3> QED BY <1>14, <3>1, <3>2
    <2>2. CASE runner[r] = "offering"
      BY <1>14, <2>2
    <2> QED BY <2>1, <2>2
  <1> HIDE DEF new, ms
  <1>16. OffersSent(new, ms, r, stale, held, done)
    BY <1>s, <1>7, <1>8, <1>9, <1>10, <1>11, <1>12, <1>13, <1>14, <1>15 DEF OffersSent
  <1> QED BY <1>16

-----------------------------------------------------------------------------
(* Type correctness *)

(* The initial state has the types. *)
LEMMA InitType == Init => TypeOK
  <1>1. <<>> \in Seq(Offer) /\ <<>> \in Seq(Request) /\ <<>> \in Seq(ToRunnerMessage)
        /\ <<>> \in Seq(ToBrokerMessage)
    BY EmptySeq
  <1> QED BY <1>1, ConstantsAssumption DEF Init, TypeOK, RunnerState

(* A runner process that ends leaves well-typed variables. *)
LEMMA GoneType ==
    ASSUME TypeOK, NEW r \in Runner, gone(r)
    PROVE  /\ runner' \in [Runner -> RunnerState]
           /\ openOffers' \in SUBSET Offer
           /\ runningTasks' \in [Offer -> TaskStatus \cup {"none"}]
           /\ [toRunner EXCEPT ![r] = <<>>] \in [Runner -> Seq(ToRunnerMessage)]
  <1>1. <<>> \in Seq(ToRunnerMessage)
    BY EmptySeq
  <1> QED BY <1>1 DEF TypeOK, gone, RunnerState

(* The end of a task in a runner, with new offers. *)
LEMMA FinishType ==
    ASSUME TypeOK, NEW o \in Offer, NEW done \in Seq(ToBrokerMessage), finishTask(o, done)
    PROVE  /\ runningTasks' \in [Offer -> TaskStatus \cup {"none"}]
           /\ openOffers' \in SUBSET Offer
           /\ toBroker' \in [Runner -> Seq(ToBrokerMessage)]
           /\ slowOffers' \in 0 .. MaxSlowOffers
           /\ \E stale \in SUBSET ofRunner(openOffers, o[1]) : \E new, ms :
                OffersSent(new, ms, o[1], stale, Held \ {o}, done)
  <1>1. PICK stale \in SUBSET ofRunner(openOffers, o[1]) : sendOffers(o[1], stale, Held \ {o}, done)
    BY DEF finishTask
  <1>2. o[1] \in Runner /\ Held \ {o} \in SUBSET Offer
    BY OfferFacts DEF Held
  <1>3. \E new, ms : OffersSent(new, ms, o[1], stale, Held \ {o}, done)
    BY <1>1, <1>2, SendEffect
  <1> QED BY <1>3 DEF OffersSent, TypeOK, finishTask

(* Every step keeps the types. *)
LEMMA TypeStep == TypeOK /\ [Next]_vars => TypeOK'
  <1> SUFFICES ASSUME TypeOK, [Next]_vars PROVE TypeOK'
    OBVIOUS
  <1> USE DEF brokerVars, runnerVars, bounds
  <1>e. /\ <<>> \in Seq(ToBrokerMessage) /\ <<>> \in Seq(ToRunnerMessage)
        /\ \A m \in ToRunnerMessage : <<m>> \in Seq(ToRunnerMessage)
        /\ \A m \in ToBrokerMessage : <<m>> \in Seq(ToBrokerMessage)
    BY EmptySeq
  <1>r. \A r \in Runner : \A o \in ofRunner(Offer, r) : o \in Offer /\ o[1] = r
    BY DEF ofRunner
  <1>p. \A S : only(pendingTaskOffers, S) \in Seq(Offer)
    BY OnlyRange DEF TypeOK
  <1>1. ASSUME NEW q \in Request, StartTask(q) PROVE TypeOK'
    <2>1. Append(pendingTaskRequests, q) \in Seq(Request) /\ pendingTaskOffers \in Seq(Offer)
      BY AppendProperties DEF TypeOK
    <2>2. PICK taken \in SUBSET Offer :
              Settled(taken, pendingTaskOffers, Append(pendingTaskRequests, q))
      BY <1>1, <2>1, SettleEffect DEF StartTask
    <2> QED BY <1>1, <2>1, <2>2 DEF StartTask, Settled, TypeOK
  <1>2. ASSUME NEW r \in Runner, NEW o \in ofRunner(Offer, r), TaskOffered(r, o) PROVE TypeOK'
    <2>1. Append(pendingTaskOffers, o) \in Seq(Offer) /\ pendingTaskRequests \in Seq(Request)
      BY <1>r, AppendProperties DEF TypeOK
    <2>2. PICK taken \in SUBSET Offer :
              Settled(taken, Append(pendingTaskOffers, o), pendingTaskRequests)
      BY <1>2, <2>1, SettleEffect DEF TaskOffered
    <2>3. toBroker' \in [Runner -> Seq(ToBrokerMessage)]
      BY <1>2, TakeType DEF TaskOffered
    <2> QED BY <1>2, <2>1, <2>2, <2>3 DEF TaskOffered, Settled, TypeOK
  <1>3. ASSUME NEW r \in Runner, NEW o \in ofRunner(Offer, r), TaskAccepted(r, o) PROVE TypeOK'
    <2>1. toBroker' \in [Runner -> Seq(ToBrokerMessage)]
      BY <1>3, TakeType DEF TaskAccepted
    <2>2. CASE runnerAcceptRejects[o] = NoRequest
      BY <1>3, <2>1, <2>2 DEF TaskAccepted, TypeOK
    <2>3. CASE runnerAcceptRejects[o] # NoRequest
      <3> DEFINE q == runnerAcceptRejects[o]
      <3>1. q \in Request /\ o \in Offer
        BY <1>r, <2>3 DEF TypeOK
      <3>2. /\ runnerAcceptRejects' = [runnerAcceptRejects EXCEPT ![o] = NoRequest]
            /\ createTask(r, o, q)
        BY <1>3, <2>3 DEF TaskAccepted
      <3>3. /\ sent(r, <<message("tasksettings", o)>>) \in [Runner -> Seq(ToRunnerMessage)]
            /\ sent(r, <<message("taskcancel", o)>>) \in [Runner -> Seq(ToRunnerMessage)]
        BY <1>e, <3>1, MessageTypes, SentType
      <3>4. q \in Range(pendingTaskRequests) => removeFirst(pendingTaskRequests, q) \in Seq(Request)
        BY RemoveFirstRange DEF TypeOK
      <3> HIDE DEF q
      <3>5. /\ pendingTaskRequests' \in Seq(Request)
            /\ tasks' \in [Offer -> Request \cup {NoRequest}]
            /\ startTask' \in [Request -> {"idle", "requested", "started", "done", "error"}]
            /\ toRunner' \in [Runner -> Seq(ToRunnerMessage)]
        BY <3>1, <3>2, <3>3, <3>4 DEF createTask, TypeOK
      <3> QED BY <1>3, <2>1, <3>2, <3>5 DEF TaskAccepted, TypeOK
    <2> QED BY <2>2, <2>3
  <1>4. ASSUME NEW r \in Runner, NEW o \in ofRunner(Offer, r), TaskRejected(r, o) PROVE TypeOK'
    BY <1>4, TakeType DEF TaskRejected, acceptFails, TypeOK
  <1>5. ASSUME NEW r \in Runner, NEW o \in ofRunner(Offer, r), TaskDeferred(r, o) PROVE TypeOK'
    <2> DEFINE reqs == IF runnerAcceptRejects[o] = NoRequest THEN pendingTaskRequests
                       ELSE Append(pendingTaskRequests, runnerAcceptRejects[o])
    <2>1. reqs \in Seq(Request)
      BY <1>r, AppendProperties DEF TypeOK
    <2>2. acceptFails(o, reqs)
      BY <1>5 DEF TaskDeferred
    <2>3. toBroker' \in [Runner -> Seq(ToBrokerMessage)]
      BY <1>5, TakeType DEF TaskDeferred
    <2> HIDE DEF reqs
    <2> QED BY <1>5, <2>1, <2>2, <2>3 DEF TaskDeferred, acceptFails, TypeOK
  <1>6. ASSUME NEW r \in Runner, NEW o \in ofRunner(Offer, r),
               NEW kind \in {"taskdone", "taskerror"}, TaskEnded(r, o, kind)
        PROVE  TypeOK'
    <2>1. toBroker' \in [Runner -> Seq(ToBrokerMessage)]
      BY <1>6, TakeType DEF TaskEnded
    <2> QED BY <1>6, <1>r, <2>1 DEF TaskEnded, settleResult, TypeOK
  <1>7. ASSUME NEW r \in Runner, StartTaskOffers(r) PROVE TypeOK'
    <2>1. toRunner' \in [Runner -> Seq(ToRunnerMessage)]
      BY <1>7, TakeType DEF StartTaskOffers
    <2> QED BY <1>7, <2>1 DEF StartTaskOffers, TypeOK, RunnerState
  <1>8. ASSUME NEW r \in Runner, NEW o \in ofRunner(Offer, r), OfferAccepted(r, o) PROVE TypeOK'
    <2>1. toRunner' \in [Runner -> Seq(ToRunnerMessage)]
      BY <1>8, TakeType DEF OfferAccepted
    <2>2. /\ message("taskaccepted", o) \in ToBrokerMessage
          /\ message("taskrejected", o) \in ToBrokerMessage
      BY <1>r, MessageTypes
    <2>3. toBroker' \in [Runner -> Seq(ToBrokerMessage)]
      <3>1. PICK m \in ToBrokerMessage : toBroker' = [toBroker EXCEPT ![r] = Append(@, m)]
        BY <1>8, <2>2 DEF OfferAccepted
      <3> QED BY <3>1, AppendType
    <2>4. openOffers' \in SUBSET Offer
      BY <1>8 DEF OfferAccepted, TypeOK
    <2>5. runningTasks' \in [Offer -> TaskStatus \cup {"none"}]
      BY <1>8, <1>r DEF OfferAccepted, TypeOK, TaskStatus
    <2> QED BY <1>8, <2>1, <2>3, <2>4, <2>5 DEF OfferAccepted, TypeOK
  <1>9. ASSUME NEW r \in Runner, NEW o \in ofRunner(Offer, r), LauncherDefers(r, o) PROVE TypeOK'
    <2>1. toRunner' \in [Runner -> Seq(ToRunnerMessage)]
      BY <1>9, TakeType DEF LauncherDefers
    <2>2. message("taskdeferred", o) \in ToBrokerMessage
      BY <1>r, MessageTypes
    <2>3. toBroker' \in [Runner -> Seq(ToBrokerMessage)]
      BY <1>9, <2>2, AppendType DEF LauncherDefers
    <2> QED BY <1>9, <2>1, <2>3 DEF LauncherDefers, TypeOK, RunnerState
  <1>10. ASSUME NEW r \in Runner, NEW o \in ofRunner(Offer, r), ReceivedSettings(r, o)
         PROVE  TypeOK'
    <2>1. toRunner' \in [Runner -> Seq(ToRunnerMessage)]
      BY <1>10, TakeType DEF ReceivedSettings
    <2> QED BY <1>10, <2>1 DEF ReceivedSettings, TypeOK, TaskStatus
  <1>11. ASSUME NEW r \in Runner, NEW o \in ofRunner(Offer, r), TaskCancelled(r, o) PROVE TypeOK'
    <2>1. toRunner' \in [Runner -> Seq(ToRunnerMessage)]
      BY <1>11, TakeType DEF TaskCancelled
    <2>2. CASE finishTask(o, <<>>)
      BY <1>11, <1>e, <1>r, <2>1, <2>2, FinishType DEF TaskCancelled, TypeOK
    <2>3. CASE ~finishTask(o, <<>>)
      BY <1>11, <2>1, <2>3 DEF TaskCancelled, TypeOK, TaskStatus
    <2> QED BY <2>2, <2>3
  <1>12. ASSUME NEW r \in Runner, Connect(r) PROVE TypeOK'
    <2>1. [type |-> "runnerregistered"] \in ToRunnerMessage
      BY DEF ToRunnerMessage
    <2>2. <<[type |-> "runnerregistered"]>> \in Seq(ToRunnerMessage)
      BY <1>e, <2>1
    <2>3. toRunner' \in [Runner -> Seq(ToRunnerMessage)]
      BY <1>12, <2>2 DEF Connect, TypeOK
    <2>4. losses' \in 0 .. MaxLosses
      BY <1>12, ConstantsAssumption DEF Connect, TypeOK
    <2> QED BY <1>12, <2>3, <2>4 DEF Connect, TypeOK, RunnerState
  <1>13. ASSUME NEW r \in Runner, DeregisterRunner(r) PROVE TypeOK'
    <2>1. toBroker' \in [Runner -> Seq(ToBrokerMessage)]
      BY <1>13, <1>e DEF DeregisterRunner, TypeOK
    <2>2. pendingTaskOffers' \in Seq(Offer)
      BY <1>13, <1>p DEF DeregisterRunner
    <2> QED BY <1>13, <2>1, <2>2 DEF DeregisterRunner, TypeOK
  <1>14. ASSUME NEW r \in Runner, OfferInterval(r) PROVE TypeOK'
    <2>1. PICK stale \in SUBSET ofRunner(openOffers, r) : sendOffers(r, stale, Held, <<>>)
      BY <1>14 DEF OfferInterval
    <2>2. PICK new, ms : OffersSent(new, ms, r, stale, Held, <<>>)
      BY <1>e, <2>1, SendEffect DEF Held
    <2> QED BY <1>14, <2>2 DEF OffersSent, OfferInterval, TypeOK
  <1>15. ASSUME NEW r \in Runner, Stop(r) PROVE TypeOK'
    <2>1. losses' \in 0 .. MaxLosses
      BY <1>15, ConstantsAssumption DEF Stop, TypeOK
    <2> QED BY <1>15, <2>1 DEF Stop, TypeOK, RunnerState
  <1>16. ASSUME NEW r \in Runner, StopDone(r) PROVE TypeOK'
    BY <1>16, GoneType DEF StopDone, TypeOK
  <1>17. ASSUME NEW r \in Runner, Crash(r) PROVE TypeOK'
    <2>1. losses' \in 0 .. MaxLosses
      BY <1>17, ConstantsAssumption DEF Crash, TypeOK
    <2> QED BY <1>17, <2>1, GoneType DEF Crash, TypeOK
  <1>18. ASSUME NEW o \in Offer, OfferLapses(o) PROVE TypeOK'
    BY <1>18, <1>p DEF OfferLapses, TypeOK
  <1>19. ASSUME NEW o \in Offer, AcceptTimeout(o) PROVE TypeOK'
    <2>1. slowAccepts' \in 0 .. MaxSlowAccepts
      BY <1>19, ConstantsAssumption DEF AcceptTimeout, TypeOK
    <2> QED BY <1>19, <2>1 DEF AcceptTimeout, acceptFails, TypeOK
  <1>20. ASSUME NEW o \in Offer, TaskTimeout(o) PROVE TypeOK'
    <2>1. /\ tasks' \in [Offer -> Request \cup {NoRequest}]
          /\ startTask' \in [Request -> {"idle", "requested", "started", "done", "error"}]
      BY <1>20 DEF TaskTimeout, settleResult, TypeOK
    <2>2. o[1] \in Runner /\ sent(o[1], <<message("taskcancel", o)>>) \in [Runner -> Seq(ToRunnerMessage)]
      BY <1>e, MessageTypes, OfferFacts, SentType
    <2>3. CASE InternalMode
      BY <1>20, <2>1, <2>2, <2>3, GoneType DEF TaskTimeout, TypeOK
    <2>4. CASE ~InternalMode
      BY <1>20, <2>1, <2>2, <2>4 DEF TaskTimeout, TypeOK
    <2> QED BY <2>3, <2>4
  <1>21. ASSUME NEW o \in Offer, TaskTimedOut(o) PROVE TypeOK'
    <2>1. <<message("taskerror", o)>> \in Seq(ToBrokerMessage)
      BY <1>e, MessageTypes
    <2>2. CASE finishTask(o, <<message("taskerror", o)>>)
      BY <1>21, <2>1, <2>2, FinishType DEF TaskTimedOut, TypeOK
    <2>3. CASE ~finishTask(o, <<message("taskerror", o)>>)
      BY <1>21, <2>3 DEF TaskTimedOut, TypeOK, TaskStatus
    <2> QED BY <2>2, <2>3
  <1>22. ASSUME NEW o \in Offer, Ends(o) PROVE TypeOK'
    <2>1. PICK kind \in {"taskdone", "taskerror"} : ExecutionEnds(o, kind)
      BY <1>22 DEF Ends
    <2>2. <<message(kind, o)>> \in Seq(ToBrokerMessage)
      BY <1>e, MessageTypes
    <2>3. PICK done \in {<<message(kind, o)>>, <<>>} : finishTask(o, done)
      BY <2>1 DEF ExecutionEnds
    <2>4. done \in Seq(ToBrokerMessage)
      BY <1>e, <2>2
    <2> QED BY <2>1, <2>3, <2>4, FinishType DEF ExecutionEnds, TypeOK
  <1>23. ASSUME UNCHANGED vars PROVE TypeOK'
    BY <1>23 DEF vars, TypeOK
  <1> QED
    BY <1>1, <1>2, <1>3, <1>4, <1>5, <1>6, <1>7, <1>8, <1>9, <1>10, <1>11, <1>12, <1>13,
       <1>14,
       <1>15, <1>16, <1>17, <1>18, <1>19, <1>20, <1>21, <1>22, <1>23
    DEF Next, RunnerMessage, BrokerMessage

(***************************************************************************)
(* Every variable keeps its type: what the broker, the requester and the   *)
(* runners store is a request, an offer or a known status, channels hold   *)
(* only messages of the protocol, and no bound is passed.                  *)
(***************************************************************************)
THEOREM TypeCorrect == Spec => []TypeOK
  BY InitType, TypeStep, PTL DEF Spec

-----------------------------------------------------------------------------
(* Requests and tasks *)

(* A request that a runner was asked to take is marked, pending and awaited, *)
(* and no other runner was asked.                                            *)
AttemptIsMarked ==
    \A o \in Offer : runnerAcceptRejects[o] # NoRequest =>
        /\ runnerAcceptRejects[o] \in acceptInProgress
        /\ runnerAcceptRejects[o] \in Range(pendingTaskRequests)
        /\ startTask[runnerAcceptRejects[o]] = "requested"
        /\ \A p \in Offer : runnerAcceptRejects[p] = runnerAcceptRejects[o] => p = o

(* A pending request that is not marked is awaited, so that the second     *)
(* entry of a deferred request is not matched once the first became a task.*)
FreeIsRequested ==
    \A q \in Request :
        q \in Range(pendingTaskRequests) \ acceptInProgress => startTask[q] = "requested"

(* The call of a task was told about it, and has no other task. *)
TaskIsStarted ==
    \A o \in Offer : tasks[o] # NoRequest =>
        /\ startTask[tasks[o]] = "started"
        /\ \A p \in Offer : tasks[p] = tasks[o] => p = o

RequestInv == AttemptIsMarked /\ FreeIsRequested /\ TaskIsStarted

requestVars == <<pendingTaskRequests, acceptInProgress, runnerAcceptRejects, tasks, startTask>>

(* settleTasks with requests that are all awaited or marked. *)
LEMMA RequestSettles ==
    ASSUME TypeOK, RequestInv, NEW offs \in Seq(Offer), NEW reqs \in Seq(Request),
           NEW taken \in SUBSET Offer, Settled(taken, offs, reqs),
           Range(pendingTaskRequests) \subseteq Range(reqs),
           tasks' = tasks,
           \A q \in Request : startTask'[q] = startTask[q] \/ startTask[q] = "idle",
           \A q \in Range(reqs) \ acceptInProgress : startTask'[q] = "requested"
    PROVE  RequestInv'
  <1>t. /\ runnerAcceptRejects \in [Offer -> Request \cup {NoRequest}]
        /\ tasks \in [Offer -> Request \cup {NoRequest}]
        /\ NoRequest \notin Request /\ Range(reqs) \subseteq Request
    BY ConstantsAssumption, RangeOfSeq DEF TypeOK
  <1>s. /\ pendingTaskRequests' = reqs
        /\ acceptInProgress \subseteq acceptInProgress'
        /\ \A o \in Offer \ taken : runnerAcceptRejects'[o] = runnerAcceptRejects[o]
        /\ \A o \in taken : /\ runnerAcceptRejects'[o] \in Range(reqs) \ acceptInProgress
                            /\ runnerAcceptRejects'[o] \in acceptInProgress'
        /\ \A o, p \in taken : runnerAcceptRejects'[o] = runnerAcceptRejects'[p] => o = p
    BY DEF Settled
  <1>1. ASSUME NEW o \in Offer, runnerAcceptRejects'[o] # NoRequest
        PROVE  /\ runnerAcceptRejects'[o] \in acceptInProgress'
               /\ runnerAcceptRejects'[o] \in Range(pendingTaskRequests')
               /\ startTask'[runnerAcceptRejects'[o]] = "requested"
               /\ \A p \in Offer : runnerAcceptRejects'[p] = runnerAcceptRejects'[o] => p = o
    <2>1. \A p \in Offer \ taken : runnerAcceptRejects[p] # NoRequest =>
              runnerAcceptRejects'[p] \in acceptInProgress
      BY <1>s DEF RequestInv, AttemptIsMarked
    <2>2. CASE o \in taken
      BY <1>s, <1>1, <2>1, <2>2
    <2>3. CASE o \notin taken
      <3>1. /\ runnerAcceptRejects'[o] = runnerAcceptRejects[o]
            /\ runnerAcceptRejects[o] \in Request
            /\ runnerAcceptRejects[o] \in acceptInProgress
            /\ runnerAcceptRejects[o] \in Range(pendingTaskRequests)
            /\ startTask[runnerAcceptRejects[o]] = "requested"
            /\ \A p \in Offer : runnerAcceptRejects[p] = runnerAcceptRejects[o] => p = o
        BY <1>t, <1>s, <1>1, <2>3 DEF RequestInv, AttemptIsMarked
      <3>2. startTask'[runnerAcceptRejects[o]] = "requested"
        BY <3>1
      <3> QED BY <1>s, <3>1, <3>2
    <2> QED BY <2>2, <2>3
  <1>2. FreeIsRequested'
    BY <1>s DEF FreeIsRequested
  <1>3. TaskIsStarted'
    BY <1>t DEF RequestInv, TaskIsStarted
  <1> QED BY <1>1, <1>2, <1>3 DEF RequestInv, AttemptIsMarked

(* A failed acceptance frees its request, which is still pending. *)
LEMMA RequestIsFreed ==
    ASSUME TypeOK, RequestInv, NEW o \in Offer, NEW reqs, acceptFails(o, reqs),
           Range(reqs) = Range(pendingTaskRequests), UNCHANGED <<tasks, startTask>>
    PROVE  RequestInv'
  <1>1. AttemptIsMarked'
    BY DEF TypeOK, RequestInv, AttemptIsMarked, acceptFails
  <1>2. FreeIsRequested'
    <2>1. \A q \in Request : q = runnerAcceptRejects[o] => startTask[q] = "requested"
      BY ConstantsAssumption DEF RequestInv, AttemptIsMarked
    <2>2. /\ Range(pendingTaskRequests') = Range(pendingTaskRequests) /\ startTask' = startTask
          /\ acceptInProgress' = acceptInProgress \ {runnerAcceptRejects[o]}
      BY DEF acceptFails
    <2> QED BY <2>1, <2>2 DEF RequestInv, FreeIsRequested
  <1>3. TaskIsStarted'
    BY DEF RequestInv, TaskIsStarted
  <1> QED BY <1>1, <1>2, <1>3 DEF RequestInv

(* The end of a task settles its call, which is neither pending nor asked. *)
LEMMA RequestIsSettled ==
    ASSUME TypeOK, RequestInv, NEW o \in Offer, NEW result, settleResult(o, result),
           UNCHANGED <<pendingTaskRequests, acceptInProgress, runnerAcceptRejects>>
    PROVE  RequestInv'
  <1>t. /\ runnerAcceptRejects \in [Offer -> Request \cup {NoRequest}]
        /\ tasks \in [Offer -> Request \cup {NoRequest}]
        /\ startTask \in [Request -> {"idle", "requested", "started", "done", "error"}]
        /\ NoRequest \notin Request
    BY ConstantsAssumption DEF TypeOK
  <1>s. /\ tasks' = [tasks EXCEPT ![o] = NoRequest]
        /\ startTask' = IF tasks[o] = NoRequest THEN startTask
                        ELSE [startTask EXCEPT ![tasks[o]] = result]
    BY DEF settleResult
  <1>1. \A q \in Request : startTask[q] # "started" => startTask'[q] = startTask[q]
    BY <1>t, <1>s DEF RequestInv, TaskIsStarted
  <1>2. AttemptIsMarked'
    BY <1>t, <1>1 DEF RequestInv, AttemptIsMarked
  <1>3. FreeIsRequested'
    BY <1>1 DEF RequestInv, FreeIsRequested
  <1>4. TaskIsStarted'
    <2> SUFFICES ASSUME NEW p \in Offer, tasks'[p] # NoRequest
                 PROVE  /\ startTask'[tasks'[p]] = "started"
                        /\ \A x \in Offer : tasks'[x] = tasks'[p] => x = p
      BY DEF TaskIsStarted
    <2>1. p # o /\ tasks'[p] = tasks[p] /\ tasks[p] \in Request
      BY <1>t, <1>s
    <2>2. startTask[tasks[p]] = "started" /\ \A x \in Offer : tasks[x] = tasks[p] => x = p
      BY <2>1 DEF RequestInv, TaskIsStarted
    <2>3. \A x \in Offer : tasks'[x] = tasks'[p] => x = p
      BY <1>t, <1>s, <2>1, <2>2
    <2>4. startTask'[tasks[p]] = startTask[tasks[p]]
      BY <1>t, <1>s, <2>1, <2>2
    <2> QED BY <2>1, <2>2, <2>3, <2>4
  <1> QED BY <1>2, <1>3, <1>4 DEF RequestInv

(* A runner that accepts in time gets a task for its request. *)
LEMMA AcceptEffect ==
    ASSUME TypeOK, RequestInv, NEW r \in Runner, NEW o \in Offer, TaskAccepted(r, o),
           runnerAcceptRejects[o] # NoRequest
    PROVE  LET q == runnerAcceptRejects[o]
           IN  /\ q \in Request
               /\ runnerAcceptRejects' = [runnerAcceptRejects EXCEPT ![o] = NoRequest]
               /\ tasks' = [tasks EXCEPT ![o] = q]
               /\ startTask' = [startTask EXCEPT ![q] = "started"]
               /\ pendingTaskRequests' = removeFirst(pendingTaskRequests, q)
               /\ toRunner' = sent(r, <<message("tasksettings", o)>>)
  BY DEF TypeOK, RequestInv, AttemptIsMarked, TaskAccepted, createTask

(* Every step keeps the invariant of the requests. *)
LEMMA RequestStep == TypeOK /\ RequestInv /\ [Next]_vars => RequestInv'
  <1> SUFFICES ASSUME TypeOK, RequestInv, [Next]_vars PROVE RequestInv'
    OBVIOUS
  <1> USE DEF brokerVars, runnerVars, bounds
  <1>t. /\ runnerAcceptRejects \in [Offer -> Request \cup {NoRequest}]
        /\ tasks \in [Offer -> Request \cup {NoRequest}]
        /\ startTask \in [Request -> {"idle", "requested", "started", "done", "error"}]
        /\ pendingTaskRequests \in Seq(Request) /\ pendingTaskOffers \in Seq(Offer)
        /\ Range(pendingTaskRequests) \subseteq Request
        /\ NoRequest \notin Request
    BY ConstantsAssumption, RangeOfSeq DEF TypeOK
  <1>r. \A r \in Runner : \A o \in ofRunner(Offer, r) : o \in Offer /\ o[1] = r
    BY DEF ofRunner
  <1>u. ASSUME UNCHANGED requestVars PROVE RequestInv'
    BY <1>u DEF requestVars, RequestInv, AttemptIsMarked, FreeIsRequested, TaskIsStarted
  <1>1. ASSUME NEW q \in Request, StartTask(q) PROVE RequestInv'
    <2> DEFINE reqs == Append(pendingTaskRequests, q)
    <2>1. reqs \in Seq(Request) /\ Range(reqs) = Range(pendingTaskRequests) \cup {q}
      BY <1>t, AppendRange
    <2> HIDE DEF reqs
    <2>2. settleTasks(pendingTaskOffers, reqs) /\ tasks' = tasks
      BY <1>1 DEF StartTask, reqs
    <2>3. PICK taken \in SUBSET Offer : Settled(taken, pendingTaskOffers, reqs)
      BY <1>t, <2>1, <2>2, SettleEffect
    <2>4. /\ startTask[q] = "idle" /\ startTask'[q] = "requested"
          /\ \A p \in Request : p # q => startTask'[p] = startTask[p]
      BY <1>t, <1>1 DEF StartTask
    <2>5. \A p \in Range(reqs) \ acceptInProgress : startTask'[p] = "requested"
      BY <1>t, <2>1, <2>4 DEF RequestInv, FreeIsRequested
    <2>6. \A p \in Request : startTask'[p] = startTask[p] \/ startTask[p] = "idle"
      BY <2>4
    <2> QED BY <1>t, <2>1, <2>2, <2>3, <2>5, <2>6, RequestSettles
  <1>2. ASSUME NEW r \in Runner, NEW o \in ofRunner(Offer, r), TaskOffered(r, o) PROVE RequestInv'
    <2> DEFINE offs == Append(pendingTaskOffers, o)
    <2>1. offs \in Seq(Offer)
      BY <1>t, <1>r, AppendRange
    <2> HIDE DEF offs
    <2>2. settleTasks(offs, pendingTaskRequests) /\ tasks' = tasks /\ startTask' = startTask
      BY <1>2 DEF TaskOffered, offs
    <2>3. PICK taken \in SUBSET Offer : Settled(taken, offs, pendingTaskRequests)
      BY <1>t, <2>1, <2>2, SettleEffect
    <2>4. \A p \in Range(pendingTaskRequests) \ acceptInProgress : startTask'[p] = "requested"
      BY <1>t, <2>2 DEF RequestInv, FreeIsRequested
    <2> QED BY <1>t, <2>1, <2>2, <2>3, <2>4, RequestSettles
  <1>3. ASSUME NEW r \in Runner, NEW o \in ofRunner(Offer, r), TaskAccepted(r, o) PROVE RequestInv'
    <2>1. CASE runnerAcceptRejects[o] = NoRequest
      BY <1>u, <1>3, <2>1 DEF TaskAccepted, requestVars
    <2>2. CASE runnerAcceptRejects[o] # NoRequest
      <3> DEFINE q == runnerAcceptRejects[o]
      <3>1. /\ q \in Request /\ o \in Offer
            /\ runnerAcceptRejects' = [runnerAcceptRejects EXCEPT ![o] = NoRequest]
            /\ tasks' = [tasks EXCEPT ![o] = q]
            /\ startTask' = [startTask EXCEPT ![q] = "started"]
            /\ pendingTaskRequests' = removeFirst(pendingTaskRequests, q)
            /\ acceptInProgress' = acceptInProgress
        BY <1>r, <1>3, <2>2, AcceptEffect DEF TaskAccepted
      <3>2. /\ q \in acceptInProgress /\ q \in Range(pendingTaskRequests)
            /\ startTask[q] = "requested"
            /\ \A p \in Offer : runnerAcceptRejects[p] = q => p = o
        BY <2>2, <3>1 DEF RequestInv, AttemptIsMarked
      <3> HIDE DEF q
      <3>3. /\ Range(pendingTaskRequests) \ {q} \subseteq Range(pendingTaskRequests')
            /\ Range(pendingTaskRequests') \subseteq Range(pendingTaskRequests)
        BY <1>t, <3>1, <3>2, RemoveFirstRange
      <3>4. /\ startTask'[q] = "started"
            /\ \A p \in Request : p # q => startTask'[p] = startTask[p]
        BY <1>t, <3>1
      <3>5. AttemptIsMarked'
        <4> SUFFICES ASSUME NEW p \in Offer, runnerAcceptRejects'[p] # NoRequest
                     PROVE  /\ runnerAcceptRejects'[p] \in acceptInProgress'
                            /\ runnerAcceptRejects'[p] \in Range(pendingTaskRequests')
                            /\ startTask'[runnerAcceptRejects'[p]] = "requested"
                            /\ \A x \in Offer :
                                  runnerAcceptRejects'[x] = runnerAcceptRejects'[p] => x = p
          BY DEF AttemptIsMarked
        <4>1. /\ p # o /\ runnerAcceptRejects'[p] = runnerAcceptRejects[p]
              /\ runnerAcceptRejects[p] \in Request
          BY <1>t, <3>1
        <4>2. runnerAcceptRejects[p] # q
          BY <3>2, <4>1
        <4>3. /\ runnerAcceptRejects[p] \in acceptInProgress
              /\ runnerAcceptRejects[p] \in Range(pendingTaskRequests)
              /\ startTask[runnerAcceptRejects[p]] = "requested"
              /\ \A x \in Offer : runnerAcceptRejects[x] = runnerAcceptRejects[p] => x = p
          BY <1>t, <4>1 DEF RequestInv, AttemptIsMarked
        <4>4. \A x \in Offer : runnerAcceptRejects'[x] = runnerAcceptRejects'[p] => x = p
          BY <1>t, <3>1, <4>1, <4>3
        <4> QED BY <3>1, <3>3, <3>4, <4>1, <4>2, <4>3, <4>4
      <3>6. FreeIsRequested'
        BY <3>1, <3>2, <3>3, <3>4 DEF RequestInv, FreeIsRequested
      <3>7. TaskIsStarted'
        <4>1. \A p \in Offer : tasks[p] # q
          BY <1>t, <3>1, <3>2 DEF RequestInv, TaskIsStarted
        <4> QED BY <1>t, <3>1, <3>4, <4>1 DEF RequestInv, TaskIsStarted
      <3> QED BY <3>5, <3>6, <3>7 DEF RequestInv
    <2> QED BY <2>1, <2>2
  <1>4. ASSUME NEW r \in Runner, NEW o \in ofRunner(Offer, r), TaskRejected(r, o) PROVE RequestInv'
    BY <1>r, <1>4, RequestIsFreed DEF TaskRejected
  <1>5. ASSUME NEW r \in Runner, NEW o \in ofRunner(Offer, r), TaskDeferred(r, o) PROVE RequestInv'
    <2> DEFINE q == runnerAcceptRejects[o]
               reqs == IF q = NoRequest THEN pendingTaskRequests ELSE Append(pendingTaskRequests, q)
    <2>1. Range(reqs) = Range(pendingTaskRequests)
      <3>1. CASE q = NoRequest
        BY <3>1
      <3>2. CASE q # NoRequest
        <4>1. q \in Request /\ q \in Range(pendingTaskRequests)
          BY <1>t, <1>r, <3>2 DEF RequestInv, AttemptIsMarked
        <4>2. Range(Append(pendingTaskRequests, q)) = Range(pendingTaskRequests) \cup {q}
          BY <1>t, <4>1, AppendRange
        <4> QED BY <3>2, <4>1, <4>2
      <3> QED BY <3>1, <3>2
    <2>2. acceptFails(o, reqs) /\ UNCHANGED <<tasks, startTask>> /\ o \in Offer
      BY <1>r, <1>5 DEF TaskDeferred
    <2> HIDE DEF reqs
    <2> QED BY <2>1, <2>2, RequestIsFreed
  <1>6. ASSUME NEW r \in Runner, NEW o \in ofRunner(Offer, r),
               NEW kind \in {"taskdone", "taskerror"}, TaskEnded(r, o, kind)
        PROVE  RequestInv'
    <2>1. PICK result : settleResult(o, result)
      BY <1>6 DEF TaskEnded
    <2> QED BY <1>r, <1>6, <2>1, RequestIsSettled DEF TaskEnded
  <1>7. ASSUME NEW r \in Runner, BrokerMessage(r) PROVE RequestInv'
    BY <1>u, <1>7 DEF BrokerMessage, StartTaskOffers, OfferAccepted, LauncherDefers,
                      ReceivedSettings, TaskCancelled, requestVars
  <1>8. ASSUME NEW r \in Runner, DeregisterRunner(r) PROVE RequestInv'
    <2>1. /\ tasks' = [o \in Offer |-> IF o[1] = r THEN NoRequest ELSE tasks[o]]
          /\ startTask' = [q \in Request |-> IF \E o \in Offer : o[1] = r /\ tasks[o] = q
                                             THEN "error" ELSE startTask[q]]
          /\ UNCHANGED <<pendingTaskRequests, acceptInProgress, runnerAcceptRejects>>
      BY <1>8 DEF DeregisterRunner
    <2>2. \A q \in Request : startTask[q] # "started" => startTask'[q] = startTask[q]
      BY <1>t, <2>1 DEF RequestInv, TaskIsStarted
    <2>3. AttemptIsMarked'
      BY <1>t, <2>1, <2>2 DEF RequestInv, AttemptIsMarked
    <2>4. FreeIsRequested'
      BY <2>1, <2>2 DEF RequestInv, FreeIsRequested
    <2>5. TaskIsStarted'
      <3> SUFFICES ASSUME NEW p \in Offer, tasks'[p] # NoRequest
                   PROVE  /\ startTask'[tasks'[p]] = "started"
                          /\ \A x \in Offer : tasks'[x] = tasks'[p] => x = p
        BY DEF TaskIsStarted
      <3>1. p[1] # r /\ tasks'[p] = tasks[p] /\ tasks[p] \in Request
        BY <1>t, <2>1
      <3>2. startTask[tasks[p]] = "started" /\ \A x \in Offer : tasks[x] = tasks[p] => x = p
        BY <3>1 DEF RequestInv, TaskIsStarted
      <3>3. ~\E x \in Offer : x[1] = r /\ tasks[x] = tasks[p]
        BY <3>1, <3>2
      <3>4. startTask'[tasks[p]] = startTask[tasks[p]]
        BY <2>1, <3>1, <3>3
      <3>5. \A x \in Offer : tasks'[x] = tasks'[p] => x = p
        BY <1>t, <2>1, <3>1, <3>2
      <3> QED BY <3>1, <3>2, <3>4, <3>5
    <2> QED BY <2>3, <2>4, <2>5 DEF RequestInv
  <1>9. ASSUME NEW r \in Runner,
               Connect(r) \/ OfferInterval(r) \/ Stop(r) \/ StopDone(r) \/ Crash(r)
        PROVE  RequestInv'
    BY <1>u, <1>9 DEF Connect, OfferInterval, Stop, StopDone, Crash, requestVars
  <1>10. ASSUME NEW o \in Offer, OfferLapses(o) \/ TaskTimedOut(o) \/ Ends(o) PROVE RequestInv'
    BY <1>u, <1>10 DEF OfferLapses, TaskTimedOut, Ends, ExecutionEnds, requestVars
  <1>11. ASSUME NEW o \in Offer, AcceptTimeout(o) PROVE RequestInv'
    BY <1>11, RequestIsFreed DEF AcceptTimeout
  <1>12. ASSUME NEW o \in Offer, TaskTimeout(o) PROVE RequestInv'
    BY <1>12, RequestIsSettled DEF TaskTimeout
  <1>13. ASSUME UNCHANGED vars PROVE RequestInv'
    BY <1>u, <1>13 DEF vars, requestVars
  <1> QED
    BY <1>1, <1>2, <1>3, <1>4, <1>5, <1>6, <1>7, <1>8, <1>9, <1>10, <1>11, <1>12, <1>13
    DEF Next, RunnerMessage

(* At the start there are no requests. *)
LEMMA InitRequest == Init => RequestInv
  BY EmptyRange DEF Init, RequestInv, AttemptIsMarked, FreeIsRequested, TaskIsStarted

(* The invariant of the requests holds. *)
LEMMA RequestsHold == Spec => [](TypeOK /\ RequestInv)
  <1>1. Init => TypeOK /\ RequestInv
    BY InitType, InitRequest
  <1>2. (TypeOK /\ RequestInv) /\ [Next]_vars => (TypeOK /\ RequestInv)'
    BY TypeStep, RequestStep
  <1> QED BY <1>1, <1>2, PTL DEF Spec

(***************************************************************************)
(* acceptOffer always finds the request of a task that a runner accepts,   *)
(* and a requester that awaits it, also when a request was deferred and is *)
(* listed twice.                                                           *)
(***************************************************************************)
THEOREM AcceptFindsRequest == Spec => []RequestIsFound
  <1>1. TypeOK /\ RequestInv => RequestIsFound
    BY DEF RequestInv, AttemptIsMarked, RequestIsFound
  <1> QED BY <1>1, RequestsHold, PTL

(***************************************************************************)
(* Whatever times out, is rejected, deferred or answered late, a request   *)
(* is with one runner at a time and never two tasks.                       *)
(***************************************************************************)
THEOREM RequestTriedOnce == Spec => []OneAttemptPerRequest
  <1>1. TypeOK /\ RequestInv => OneAttemptPerRequest
    <2> SUFFICES ASSUME TypeOK, RequestInv, NEW o \in Offer, NEW p \in Offer, NEW q \in Request,
                        q \in {runnerAcceptRejects[o], tasks[o]},
                        q \in {runnerAcceptRejects[p], tasks[p]}
                 PROVE  o = p /\ ~(runnerAcceptRejects[o] = q /\ tasks[o] = q)
      BY DEF OneAttemptPerRequest
    <2>1. q # NoRequest
      BY ConstantsAssumption
    <2>2. \A x \in Offer : runnerAcceptRejects[x] = q => startTask[q] = "requested"
      BY <2>1 DEF RequestInv, AttemptIsMarked
    <2>3. \A x \in Offer : tasks[x] = q => startTask[q] = "started"
      BY <2>1 DEF RequestInv, TaskIsStarted
    <2>4. runnerAcceptRejects[o] = q /\ runnerAcceptRejects[p] = q => o = p
      BY <2>1 DEF RequestInv, AttemptIsMarked
    <2>5. tasks[o] = q /\ tasks[p] = q => o = p
      BY <2>1 DEF RequestInv, TaskIsStarted
    <2> QED BY <2>2, <2>3, <2>4, <2>5
  <1> QED BY <1>1, RequestsHold, PTL

(* A step leaves the result of a call that has one. *)
LEMMA ResultStays ==
    ASSUME TypeOK, RequestInv, [Next]_vars, NEW q \in Request, startTask[q] \in {"done", "error"}
    PROVE  startTask'[q] = startTask[q]
  <1> USE DEF brokerVars, runnerVars, bounds
  <1>t. /\ runnerAcceptRejects \in [Offer -> Request \cup {NoRequest}]
        /\ tasks \in [Offer -> Request \cup {NoRequest}]
        /\ startTask \in [Request -> {"idle", "requested", "started", "done", "error"}]
    BY DEF TypeOK
  <1>r. \A r \in Runner : \A o \in ofRunner(Offer, r) : o \in Offer
    BY DEF ofRunner
  <1>1. ASSUME NEW o \in Offer, NEW result, settleResult(o, result)
        PROVE  startTask'[q] = startTask[q]
    <2>1. tasks[o] # NoRequest => startTask[tasks[o]] = "started" /\ tasks[o] \in Request
      BY <1>t DEF RequestInv, TaskIsStarted
    <2> QED BY <1>t, <1>1, <2>1 DEF settleResult
  <1>2. ASSUME NEW p \in Request, StartTask(p) PROVE startTask'[q] = startTask[q]
    BY <1>t, <1>2 DEF StartTask
  <1>3. ASSUME NEW r \in Runner, NEW o \in ofRunner(Offer, r), TaskAccepted(r, o)
        PROVE  startTask'[q] = startTask[q]
    <2>1. CASE runnerAcceptRejects[o] = NoRequest
      BY <1>3, <2>1 DEF TaskAccepted
    <2>2. CASE runnerAcceptRejects[o] # NoRequest
      <3>1. startTask[runnerAcceptRejects[o]] = "requested"
        BY <1>r, <2>2 DEF RequestInv, AttemptIsMarked
      <3>2. startTask' = [startTask EXCEPT ![runnerAcceptRejects[o]] = "started"]
        BY <1>r, <1>3, <2>2, AcceptEffect
      <3> QED BY <1>t, <3>1, <3>2
    <2> QED BY <2>1, <2>2
  <1>4. ASSUME NEW r \in Runner, NEW o \in ofRunner(Offer, r),
               \/ TaskOffered(r, o) \/ TaskRejected(r, o) \/ TaskDeferred(r, o)
        PROVE  startTask'[q] = startTask[q]
    BY <1>4 DEF TaskOffered, TaskRejected, TaskDeferred
  <1>5. ASSUME NEW r \in Runner, NEW o \in ofRunner(Offer, r),
               NEW kind \in {"taskdone", "taskerror"}, TaskEnded(r, o, kind)
        PROVE  startTask'[q] = startTask[q]
    BY <1>r, <1>1, <1>5 DEF TaskEnded
  <1>6. ASSUME NEW r \in Runner, DeregisterRunner(r) PROVE startTask'[q] = startTask[q]
    <2>1. ~\E o \in Offer : o[1] = r /\ tasks[o] = q
      BY ConstantsAssumption DEF RequestInv, TaskIsStarted
    <2> QED BY <1>6, <2>1 DEF DeregisterRunner
  <1>7. ASSUME NEW r \in Runner,
               \/ BrokerMessage(r) \/ Connect(r) \/ OfferInterval(r)
               \/ Stop(r) \/ StopDone(r) \/ Crash(r)
        PROVE  startTask'[q] = startTask[q]
    BY <1>7
       DEF BrokerMessage, StartTaskOffers, OfferAccepted, LauncherDefers,
           ReceivedSettings,
                TaskCancelled, Connect, OfferInterval, Stop, StopDone, Crash
  <1>8. ASSUME NEW o \in Offer,
               OfferLapses(o) \/ AcceptTimeout(o) \/ TaskTimedOut(o) \/ Ends(o)
        PROVE  startTask'[q] = startTask[q]
    BY <1>8 DEF OfferLapses, AcceptTimeout, TaskTimedOut, Ends, ExecutionEnds
  <1>9. ASSUME NEW o \in Offer, TaskTimeout(o) PROVE startTask'[q] = startTask[q]
    BY <1>1, <1>9 DEF TaskTimeout
  <1>10. ASSUME UNCHANGED vars PROVE startTask'[q] = startTask[q]
    BY <1>10 DEF vars
  <1> QED BY <1>2, <1>3, <1>4, <1>5, <1>6, <1>7, <1>8, <1>9, <1>10 DEF Next, RunnerMessage

(***************************************************************************)
(* The first of a result, a timeout and a disconnect settles a call, and   *)
(* no later one reaches the requester.                                     *)
(***************************************************************************)
THEOREM ResultStaysForGood == Spec => ResultIsFinal
  <1>1. TypeOK /\ RequestInv /\ [Next]_vars =>
          [\A q \in Request : startTask[q] \in {"done", "error"} => startTask'[q] = startTask[q]]_vars
    BY ResultStays
  <1> QED BY <1>1, RequestsHold, PTL DEF Spec, ResultIsFinal

-----------------------------------------------------------------------------
(* Runners that are gone *)

(* A runner process that is down holds nothing and gets no messages. *)
DownIsEmpty(r) ==
    runner[r] = "down" => /\ toRunner[r] = <<>>
                          /\ \A o \in ofRunner(Offer, r) : runningTasks[o] = "none"

(* A runner that the broker does not know is down, and nothing of it left. *)
UnknownIsDown(r) ==
    r \notin knownRunners => /\ runner[r] = "down" /\ toBroker[r] = <<>>
                             /\ \A o \in ofRunner(Offer, r) : tasks[o] = NoRequest

RunnerInv == \A r \in Runner : DownIsEmpty(r) /\ UnknownIsDown(r)

(* What is sent to a runner that is down does not reach it. *)
LEMMA SentToLive ==
    ASSUME TypeOK, NEW r \in Runner, NEW ms
    PROVE  /\ runner[r] = "down" => sent(r, ms)[r] = toRunner[r]
           /\ runner[r] # "down" => sent(r, ms)[r] = toRunner[r] \o ms
           /\ \A x \in Runner : x # r => sent(r, ms)[x] = toRunner[x]
  BY DEF TypeOK, sent

(* The end of a runner process keeps the invariant of the runners. *)
LEMMA RunnerLeaves ==
    ASSUME TypeOK, RunnerInv, NEW r \in Runner, gone(r), toRunner' = [toRunner EXCEPT ![r] = <<>>],
           UNCHANGED <<knownRunners, toBroker>>,
           \A o \in Offer : tasks'[o] = tasks[o] \/ tasks'[o] = NoRequest
    PROVE  RunnerInv'
  <1> SUFFICES ASSUME NEW x \in Runner PROVE DownIsEmpty(x)' /\ UnknownIsDown(x)'
    BY DEF RunnerInv
  <1>1. DownIsEmpty(x) /\ UnknownIsDown(x)
    BY DEF RunnerInv
  <1>2. \A o \in ofRunner(Offer, x) : o \in Offer /\ o[1] = x
    BY DEF ofRunner
  <1> QED BY <1>1, <1>2 DEF TypeOK, gone, DownIsEmpty, UnknownIsDown

(* A runner that holds a task is up and known, and stays so when the task  *)
(* ends.                                                                   *)
LEMMA RunnerFinishes ==
    ASSUME TypeOK, RunnerInv, NEW o \in Offer, NEW done \in Seq(ToBrokerMessage),
           finishTask(o, done), runningTasks[o] # "none",
           \A x \in Runner : toRunner[x] = <<>> => toRunner'[x] = <<>>,
           UNCHANGED <<knownRunners, tasks, runner>>
    PROVE  RunnerInv'
  <1> SUFFICES ASSUME NEW x \in Runner PROVE DownIsEmpty(x)' /\ UnknownIsDown(x)'
    BY DEF RunnerInv
  <1>1. /\ DownIsEmpty(x) /\ UnknownIsDown(x) /\ o[1] \in Runner
        /\ DownIsEmpty(o[1]) /\ UnknownIsDown(o[1])
    BY OfferFacts DEF RunnerInv
  <1>2. o[1] \in knownRunners
    BY <1>1 DEF DownIsEmpty, UnknownIsDown, ofRunner
  <1>3. runningTasks' = [runningTasks EXCEPT ![o] = "none"]
    BY DEF finishTask
  <1>4. x # o[1] => toBroker'[x] = toBroker[x]
    <2>1. PICK stale \in SUBSET ofRunner(openOffers, o[1]) : \E new, ms :
             OffersSent(new, ms, o[1], stale, Held \ {o}, done)
      BY FinishType
    <2>2. \E c : toBroker' = [toBroker EXCEPT ![o[1]] = c]
      BY <2>1 DEF OffersSent
    <2> QED BY <2>2 DEF TypeOK
  <1>5. DownIsEmpty(x)'
    BY <1>1, <1>3 DEF DownIsEmpty, TypeOK, ofRunner
  <1>6. UnknownIsDown(x)'
    BY <1>1, <1>2, <1>4 DEF UnknownIsDown, ofRunner
  <1> QED BY <1>5, <1>6

(* Every step keeps the invariant of the runners. *)
LEMMA RunnerStep == TypeOK /\ RequestInv /\ RunnerInv /\ [Next]_vars => RunnerInv'
  <1> SUFFICES ASSUME TypeOK, RequestInv, RunnerInv, [Next]_vars PROVE RunnerInv'
    OBVIOUS
  <1> USE DEF brokerVars, runnerVars, bounds
  <1>t. /\ toRunner \in [Runner -> Seq(ToRunnerMessage)]
        /\ toBroker \in [Runner -> Seq(ToBrokerMessage)]
        /\ runner \in [Runner -> RunnerState]
        /\ runningTasks \in [Offer -> TaskStatus \cup {"none"}]
        /\ tasks \in [Offer -> Request \cup {NoRequest}]
    BY DEF TypeOK
  <1>e. /\ <<>> \in Seq(ToBrokerMessage)
        /\ \A m \in ToBrokerMessage : <<m>> \in Seq(ToBrokerMessage)
    BY EmptySeq
  <1>r. \A r \in Runner : \A o \in ofRunner(Offer, r) : o \in Offer /\ o[1] = r
    BY DEF ofRunner
  <1>i. \A r \in Runner : DownIsEmpty(r) /\ UnknownIsDown(r)
    BY DEF RunnerInv
  <1>s. ASSUME NEW offs, NEW reqs, NEW taken \in SUBSET Offer, Settled(taken, offs, reqs),
               UNCHANGED <<knownRunners, tasks, runnerVars>>,
               \A x \in Runner : toBroker[x] = <<>> => toBroker'[x] = <<>>
        PROVE  RunnerInv'
    <2> SUFFICES ASSUME NEW x \in Runner PROVE DownIsEmpty(x)' /\ UnknownIsDown(x)'
      BY DEF RunnerInv
    <2>1. runner[x] = "down" => toRunner'[x] = toRunner[x]
      BY <1>s, SentToLive DEF Settled
    <2> QED BY <1>i, <1>s, <2>1 DEF DownIsEmpty, UnknownIsDown
  <1>1. ASSUME NEW q \in Request, StartTask(q) PROVE RunnerInv'
    <2>1. Append(pendingTaskRequests, q) \in Seq(Request) /\ pendingTaskOffers \in Seq(Offer)
      BY AppendProperties DEF TypeOK
    <2>2. PICK taken \in SUBSET Offer :
              Settled(taken, pendingTaskOffers, Append(pendingTaskRequests, q))
      BY <1>1, <2>1, SettleEffect DEF StartTask
    <2> QED BY <1>s, <1>1, <2>2 DEF StartTask
  <1>2. ASSUME NEW r \in Runner, NEW o \in ofRunner(Offer, r), TaskOffered(r, o) PROVE RunnerInv'
    <2>1. Append(pendingTaskOffers, o) \in Seq(Offer) /\ pendingTaskRequests \in Seq(Request)
      BY <1>r, AppendProperties DEF TypeOK
    <2>2. PICK taken \in SUBSET Offer :
              Settled(taken, Append(pendingTaskOffers, o), pendingTaskRequests)
      BY <1>2, <2>1, SettleEffect DEF TaskOffered
    <2>3. \A x \in Runner : toBroker[x] = <<>> => toBroker'[x] = <<>>
      BY <1>t, <1>2 DEF TaskOffered, receive
    <2> QED BY <1>s, <1>2, <2>2, <2>3 DEF TaskOffered
  <1>3. ASSUME NEW r \in Runner, NEW o \in ofRunner(Offer, r), TaskAccepted(r, o) PROVE RunnerInv'
    <2> SUFFICES ASSUME NEW x \in Runner PROVE DownIsEmpty(x)' /\ UnknownIsDown(x)'
      BY DEF RunnerInv
    <2>0. \/ UNCHANGED <<tasks, toRunner>>
          \/ \E q, m : tasks' = [tasks EXCEPT ![o] = q] /\ toRunner' = sent(r, m)
      <3>1. CASE runnerAcceptRejects[o] = NoRequest
        BY <1>3, <3>1 DEF TaskAccepted
      <3>2. CASE runnerAcceptRejects[o] # NoRequest
        <4> DEFINE q == runnerAcceptRejects[o]
                   m == <<message("tasksettings", o)>>
        <4>1. tasks' = [tasks EXCEPT ![o] = q] /\ toRunner' = sent(r, m)
          BY <1>r, <1>3, <3>2, AcceptEffect
        <4> HIDE DEF q, m
        <4> QED BY <4>1
      <3> QED BY <3>1, <3>2
    <2>1. /\ r \in knownRunners /\ toBroker[x] = <<>> => toBroker'[x] = <<>>
          /\ UNCHANGED <<knownRunners, runnerVars>>
      BY <1>t, <1>3 DEF TaskAccepted, receive
    <2>2. runner[x] = "down" => toRunner'[x] = toRunner[x]
      <3>1. \A m : runner[x] = "down" => sent(r, m)[x] = toRunner[x]
        BY SentToLive
      <3> QED BY <2>0, <3>1
    <2>3. \A p \in Offer : p # o => tasks'[p] = tasks[p]
      BY <1>t, <2>0
    <2>4. DownIsEmpty(x)'
      BY <1>i, <2>1, <2>2 DEF DownIsEmpty
    <2>5. UnknownIsDown(x)'
      BY <1>i, <1>r, <1>3, <2>1, <2>3 DEF UnknownIsDown, TaskAccepted, receive
    <2> QED BY <2>4, <2>5
  <1>4. ASSUME NEW r \in Runner, NEW o \in ofRunner(Offer, r),
               \/ TaskRejected(r, o) \/ TaskDeferred(r, o)
               \/ \E kind \in {"taskdone", "taskerror"} : TaskEnded(r, o, kind)
        PROVE  RunnerInv'
    <2> SUFFICES ASSUME NEW x \in Runner PROVE DownIsEmpty(x)' /\ UnknownIsDown(x)'
      BY DEF RunnerInv
    <2>1. /\ toBroker[x] = <<>> => toBroker'[x] = <<>>
          /\ UNCHANGED <<knownRunners, runnerVars, toRunner>>
      BY <1>t, <1>4 DEF TaskRejected, TaskDeferred, TaskEnded, receive
    <2>2. \A p \in Offer : tasks'[p] = tasks[p] \/ tasks'[p] = NoRequest
      BY <1>t, <1>4 DEF TaskRejected, TaskDeferred, TaskEnded, settleResult
    <2> QED BY <1>i, <1>r, <2>1, <2>2 DEF DownIsEmpty, UnknownIsDown
  <1>m. ASSUME NEW r \in Runner, take(r), UNCHANGED <<knownRunners, tasks>>,
               \A x \in Runner : x # r => runner'[x] = runner[x] /\ toBroker'[x] = toBroker[x],
               runner'[r] # "down",
               \A o \in Offer : o[1] # r => runningTasks'[o] = runningTasks[o]
        PROVE  RunnerInv'
    <2> SUFFICES ASSUME NEW x \in Runner PROVE DownIsEmpty(x)' /\ UnknownIsDown(x)'
      BY DEF RunnerInv
    <2>1. r \in knownRunners
      BY <1>i, <1>m DEF take, DownIsEmpty, UnknownIsDown
    <2>2. x # r => toRunner'[x] = toRunner[x]
      BY <1>t, <1>m DEF take
    <2> QED BY <1>i, <1>m, <1>r, <2>1, <2>2 DEF DownIsEmpty, UnknownIsDown
  <1>d. ASSUME NEW r \in Runner, take(r) PROVE runner[r] # "down"
    BY <1>i, <1>d DEF take, DownIsEmpty
  <1>5. ASSUME NEW r \in Runner, StartTaskOffers(r) PROVE RunnerInv'
    <2>1. take(r) /\ runner[r] # "down"
      BY <1>d, <1>5 DEF StartTaskOffers
    <2> QED BY <1>t, <1>5, <1>m, <2>1 DEF StartTaskOffers
  <1>6. ASSUME NEW r \in Runner, NEW o \in ofRunner(Offer, r),
               OfferAccepted(r, o) \/ LauncherDefers(r, o) \/ ReceivedSettings(r, o)
        PROVE  RunnerInv'
    <2>1. take(r) /\ runner[r] # "down"
      BY <1>d, <1>6 DEF OfferAccepted, LauncherDefers, ReceivedSettings
    <2>2. /\ \A x \in Runner : x # r => runner'[x] = runner[x] /\ toBroker'[x] = toBroker[x]
          /\ UNCHANGED <<knownRunners, tasks>> /\ runner'[r] # "down"
      BY <1>t, <1>6, <2>1 DEF OfferAccepted, LauncherDefers, ReceivedSettings
    <2>3. \A p \in Offer : p[1] # r => runningTasks'[p] = runningTasks[p]
      BY <1>t, <1>r, <1>6 DEF OfferAccepted, LauncherDefers, ReceivedSettings
    <2> QED BY <1>m, <2>1, <2>2, <2>3
  <1>7. ASSUME NEW r \in Runner, NEW o \in ofRunner(Offer, r), TaskCancelled(r, o) PROVE RunnerInv'
    <2>1. take(r) /\ runner[r] # "down" /\ UNCHANGED <<knownRunners, tasks, runner>>
      BY <1>d, <1>7 DEF TaskCancelled
    <2>2. CASE runningTasks[o] = "waitingForSettings"
      <3>1. \A x \in Runner : toRunner[x] = <<>> => toRunner'[x] = <<>>
        BY <1>t, <2>1 DEF take
      <3> QED BY <1>e, <1>r, <1>7, <2>1, <2>2, <3>1, RunnerFinishes DEF TaskCancelled
    <2>3. CASE runningTasks[o] # "waitingForSettings"
      <3>1. o \in Offer /\ o[1] = r
        BY <1>r
      <3>2. /\ \E s : runningTasks' = [runningTasks EXCEPT ![o] = s]
            /\ toBroker' = toBroker
        BY <1>7, <2>3 DEF TaskCancelled
      <3>3. \A p \in Offer : p[1] # r => runningTasks'[p] = runningTasks[p]
        BY <1>t, <3>1, <3>2
      <3> QED BY <1>m, <2>1, <3>2, <3>3
    <2> QED BY <2>2, <2>3
  <1>8. ASSUME NEW r \in Runner, Connect(r) PROVE RunnerInv'
    <2> SUFFICES ASSUME NEW x \in Runner PROVE DownIsEmpty(x)' /\ UnknownIsDown(x)'
      BY DEF RunnerInv
    <2>1. x # r => toRunner'[x] = toRunner[x] /\ runner'[x] = runner[x]
      BY <1>t, <1>8 DEF Connect
    <2>2. /\ knownRunners' = knownRunners \cup {r} /\ runner'[r] = "connected"
          /\ UNCHANGED <<tasks, runningTasks, toBroker>>
      BY <1>t, <1>8 DEF Connect
    <2> QED BY <1>i, <2>1, <2>2 DEF DownIsEmpty, UnknownIsDown
  <1>9. ASSUME NEW r \in Runner, DeregisterRunner(r) PROVE RunnerInv'
    <2> SUFFICES ASSUME NEW x \in Runner PROVE DownIsEmpty(x)' /\ UnknownIsDown(x)'
      BY DEF RunnerInv
    <2> QED BY <1>t, <1>i, <1>r, <1>9 DEF DeregisterRunner, DownIsEmpty, UnknownIsDown
  <1>10. ASSUME NEW r \in Runner, OfferInterval(r) PROVE RunnerInv'
    <2>1. PICK stale \in SUBSET ofRunner(openOffers, r) : sendOffers(r, stale, Held, <<>>)
      BY <1>10 DEF OfferInterval
    <2>2. PICK new, ms : OffersSent(new, ms, r, stale, Held, <<>>)
      BY <1>e, <2>1, SendEffect DEF Held
    <2>3. \A x \in Runner : x # r => toBroker'[x] = toBroker[x]
      BY <1>t, <2>2 DEF OffersSent
    <2>4. r \in knownRunners
      BY <1>i, <1>10 DEF OfferInterval, UnknownIsDown
    <2> SUFFICES ASSUME NEW x \in Runner PROVE DownIsEmpty(x)' /\ UnknownIsDown(x)'
      BY DEF RunnerInv
    <2> QED BY <1>i, <1>10, <2>3, <2>4 DEF OfferInterval, DownIsEmpty, UnknownIsDown
  <1>11. ASSUME NEW r \in Runner, Stop(r) PROVE RunnerInv'
    <2> SUFFICES ASSUME NEW x \in Runner PROVE DownIsEmpty(x)' /\ UnknownIsDown(x)'
      BY DEF RunnerInv
    <2> QED BY <1>t, <1>i, <1>11 DEF Stop, DownIsEmpty, UnknownIsDown
  <1>12. ASSUME NEW r \in Runner, StopDone(r) \/ Crash(r) PROVE RunnerInv'
    BY <1>12, RunnerLeaves DEF StopDone, Crash
  <1>13. ASSUME NEW o \in Offer, OfferLapses(o) \/ AcceptTimeout(o) PROVE RunnerInv'
    BY <1>13 DEF OfferLapses, AcceptTimeout, RunnerInv, DownIsEmpty, UnknownIsDown
  <1>14. ASSUME NEW o \in Offer, TaskTimeout(o) PROVE RunnerInv'
    <2>1. \A p \in Offer : tasks'[p] = tasks[p] \/ tasks'[p] = NoRequest
      BY <1>t, <1>14 DEF TaskTimeout, settleResult
    <2>2. o[1] \in Runner
      BY OfferFacts
    <2>3. CASE InternalMode
      BY <1>14, <2>1, <2>2, <2>3, RunnerLeaves DEF TaskTimeout
    <2>4. CASE ~InternalMode
      <3> SUFFICES ASSUME NEW x \in Runner PROVE DownIsEmpty(x)' /\ UnknownIsDown(x)'
        BY DEF RunnerInv
      <3>1. runner[x] = "down" => toRunner'[x] = toRunner[x]
        BY <1>14, <2>2, <2>4, SentToLive DEF TaskTimeout
      <3>2. UNCHANGED <<knownRunners, runnerVars, toBroker>>
        BY <1>14, <2>4 DEF TaskTimeout
      <3> QED BY <1>i, <1>r, <2>1, <3>1, <3>2 DEF DownIsEmpty, UnknownIsDown
    <2> QED BY <2>3, <2>4
  <1>15. ASSUME NEW o \in Offer, NEW done \in Seq(ToBrokerMessage), finishTask(o, done),
                runningTasks[o] # "none", UNCHANGED <<knownRunners, tasks, runner, toRunner>>
         PROVE  RunnerInv'
    BY <1>15, RunnerFinishes
  <1>16. ASSUME NEW o \in Offer, TaskTimedOut(o) PROVE RunnerInv'
    <2>1. message("taskerror", o) \in ToBrokerMessage
      BY MessageTypes
    <2>2. CASE runningTasks[o] = "waitingForSettings"
      BY <1>e, <1>15, <1>16, <2>1, <2>2 DEF TaskTimedOut
    <2>3. CASE runningTasks[o] # "waitingForSettings"
      <3> SUFFICES ASSUME NEW x \in Runner PROVE DownIsEmpty(x)' /\ UnknownIsDown(x)'
        BY DEF RunnerInv
      <3>1. /\ runningTasks[o] = "running" /\ UNCHANGED <<knownRunners, tasks, runner, toRunner, toBroker>>
            /\ \A p \in Offer : runningTasks[p] = "none" => runningTasks'[p] = "none"
        BY <1>t, <1>16, <2>3 DEF TaskTimedOut
      <3> QED BY <1>i, <1>r, <3>1 DEF DownIsEmpty, UnknownIsDown
    <2> QED BY <2>2, <2>3
  <1>17. ASSUME NEW o \in Offer, Ends(o) PROVE RunnerInv'
    <2>1. PICK kind \in {"taskdone", "taskerror"} : ExecutionEnds(o, kind)
      BY <1>17 DEF Ends
    <2>2. <<message(kind, o)>> \in Seq(ToBrokerMessage)
      BY <1>e, MessageTypes
    <2>3. PICK done \in {<<message(kind, o)>>, <<>>} : finishTask(o, done)
      BY <2>1 DEF ExecutionEnds
    <2>4. runningTasks[o] # "none" /\ UNCHANGED <<knownRunners, tasks, runner, toRunner>>
      BY <2>1 DEF ExecutionEnds
    <2> QED BY <1>e, <1>15, <2>2, <2>3, <2>4
  <1>18. ASSUME UNCHANGED vars PROVE RunnerInv'
    BY <1>18 DEF vars, RunnerInv, DownIsEmpty, UnknownIsDown
  <1> QED
    BY <1>1, <1>2, <1>3, <1>4, <1>5, <1>6, <1>7, <1>8, <1>9, <1>10, <1>11, <1>12, <1>13,
       <1>14,
       <1>16, <1>17, <1>18
    DEF Next, RunnerMessage, BrokerMessage

-----------------------------------------------------------------------------
(* Channels to the broker *)

(* The messages that end task o. *)
results(o) == {message("taskdone", o), message("taskerror", o)}

Once(s, m) == \A i, j \in 1 .. Len(s) : s[i] = m /\ s[j] = m => i = j

(* Every acceptance of o in s is followed by the end of its task. *)
EndFollows(s, o) ==
    \A i \in 1 .. Len(s) : s[i] = message("taskaccepted", o) =>
        \E j \in 1 .. Len(s) : i < j /\ s[j] \in results(o)

(* Channel t says nothing new of offer o beside the end of its task. *)
ChannelStays(s, t, o) ==
    /\ message("taskoffer", o) \in Range(t) => message("taskoffer", o) \in Range(s)
    /\ message("taskaccepted", o) \in Range(t) => message("taskaccepted", o) \in Range(s)
    /\ Once(t, message("taskoffer", o))
    /\ EndFollows(s, o) => EndFollows(t, o)

(* A message of a sequence has a place. *)
LEMMA PlaceOfMessage ==
    ASSUME NEW s \in Seq(ToBrokerMessage), NEW m
    PROVE  m \in Range(s) <=> \E i \in 1 .. Len(s) : s[i] = m
  BY RangeEquality

(* An empty channel says nothing. *)
LEMMA EmptyStays ==
    ASSUME NEW s, NEW o
    PROVE  ChannelStays(s, <<>>, o) /\ EndFollows(<<>>, o)
  BY EmptyRange DEF ChannelStays, Once, EndFollows

(* The broker takes a message. *)
LEMMA TailStays ==
    ASSUME NEW s \in Seq(ToBrokerMessage), s # <<>>, NEW o, Once(s, message("taskoffer", o))
    PROVE  /\ ChannelStays(s, Tail(s), o)
           /\ Head(s) = message("taskoffer", o) => message("taskoffer", o) \notin Range(Tail(s))
           /\ Head(s) = message("taskaccepted", o) /\ EndFollows(s, o) =>
                 \E m \in results(o) : m \in Range(Tail(s))
  <1> DEFINE u == Tail(s)
             n == Len(s)
  <1>1. /\ u \in Seq(ToBrokerMessage) /\ Head(s) = s[1] /\ n \in Nat \ {0} /\ Len(u) = n - 1
        /\ \A i \in 1 .. n - 1 : u[i] = s[i + 1]
        /\ Range(s) = Range(u) \cup {Head(s)}
    BY TailRange
  <1> HIDE DEF u, n
  <1>2. \A m : m \in Range(u) <=> \E i \in 1 .. n - 1 : u[i] = m
    BY <1>1, PlaceOfMessage
  <1>3. \A i \in 1 .. n - 1 : i + 1 \in 1 .. n
    BY <1>1
  <1>4. \A i, j \in 1 .. n : s[i] = message("taskoffer", o) /\ s[j] = message("taskoffer", o) => i = j
    BY DEF Once, n
  <1>5. Once(u, message("taskoffer", o))
    <2> SUFFICES ASSUME NEW i \in 1 .. n - 1, NEW j \in 1 .. n - 1,
                        u[i] = message("taskoffer", o), u[j] = message("taskoffer", o)
                 PROVE  i = j
      BY <1>1 DEF Once
    <2>1. i + 1 = j + 1
      BY <1>1, <1>3, <1>4
    <2> QED BY <2>1
  <1>6. Head(s) = message("taskoffer", o) => message("taskoffer", o) \notin Range(u)
    <2> SUFFICES ASSUME Head(s) = message("taskoffer", o), NEW i \in 1 .. n - 1,
                        u[i] = message("taskoffer", o)
                 PROVE  FALSE
      BY <1>2
    <2>1. 1 \in 1 .. n /\ i + 1 \in 1 .. n
      BY <1>1, <1>3
    <2>2. 1 = i + 1
      BY <1>1, <1>4, <2>1
    <2> QED BY <2>2
  <1>7. ASSUME EndFollows(s, o) PROVE EndFollows(u, o)
    <2> SUFFICES ASSUME NEW i \in 1 .. n - 1, u[i] = message("taskaccepted", o)
                 PROVE  \E j \in 1 .. n - 1 : i < j /\ u[j] \in results(o)
      BY <1>1 DEF EndFollows
    <2>1. s[i + 1] = message("taskaccepted", o) /\ i + 1 \in 1 .. n
      BY <1>1, <1>3
    <2>2. PICK j \in 1 .. n : i + 1 < j /\ s[j] \in results(o)
      BY <1>7, <2>1 DEF EndFollows, n
    <2>3. j - 1 \in 1 .. n - 1 /\ i < j - 1 /\ (j - 1) + 1 = j
      BY <1>1, <2>2
    <2>4. u[j - 1] = s[j]
      BY <1>1, <2>3
    <2> QED BY <2>2, <2>3, <2>4
  <1>8. ASSUME Head(s) = message("taskaccepted", o), EndFollows(s, o)
        PROVE  \E m \in results(o) : m \in Range(u)
    <2>1. 1 \in 1 .. n
      BY <1>1
    <2>2. PICK j \in 1 .. n : 1 < j /\ s[j] \in results(o)
      BY <1>1, <1>8, <2>1 DEF EndFollows, n
    <2>3. j - 1 \in 1 .. n - 1 /\ (j - 1) + 1 = j
      BY <1>1, <2>2
    <2>4. u[j - 1] = s[j]
      BY <1>1, <2>3
    <2> QED BY <1>2, <2>2, <2>3, <2>4
  <1>9. ChannelStays(s, u, o)
    BY <1>1, <1>5, <1>7 DEF ChannelStays
  <1> QED BY <1>6, <1>8, <1>9 DEF u

(* A runner sends messages. *)
LEMMA ConcatStays ==
    ASSUME NEW s \in Seq(ToBrokerMessage), NEW t \in Seq(ToBrokerMessage), NEW o
    PROVE  /\ s \o t \in Seq(ToBrokerMessage)
           /\ Range(s \o t) = Range(s) \cup Range(t)
           /\ Once(s, message("taskoffer", o)) /\ message("taskoffer", o) \notin Range(t) =>
                 Once(s \o t, message("taskoffer", o))
           /\ Once(t, message("taskoffer", o)) /\ message("taskoffer", o) \notin Range(s) =>
                 Once(s \o t, message("taskoffer", o))
           /\ EndFollows(s, o) /\ message("taskaccepted", o) \notin Range(t) =>
                 EndFollows(s \o t, o)
           /\ (\E m \in results(o) : m \in Range(t)) /\ message("taskaccepted", o) \notin Range(t) =>
                 EndFollows(s \o t, o)
  <1> DEFINE u == s \o t
             n == Len(s)
             k == Len(t)
  <1>1. /\ u \in Seq(ToBrokerMessage) /\ n \in Nat /\ k \in Nat /\ Len(u) = n + k
        /\ \A i \in 1 .. n + k : u[i] = IF i <= n THEN s[i] ELSE t[i - n]
        /\ Range(u) = Range(s) \cup Range(t)
    BY ConcatProperties, LenProperties, RangeConcatenation
  <1>2. /\ \A m : m \in Range(s) <=> \E i \in 1 .. n : s[i] = m
        /\ \A m : m \in Range(t) <=> \E i \in 1 .. k : t[i] = m
    BY PlaceOfMessage
  <1> HIDE DEF u, n, k
  <1>3. \A i \in 1 .. n + k : \/ i \in 1 .. n /\ u[i] = s[i]
                              \/ i - n \in 1 .. k /\ u[i] = t[i - n] /\ i > n
    BY <1>1
  <1>4. ASSUME NEW m, Once(s, m), m \notin Range(t) PROVE Once(u, m)
    <2> SUFFICES ASSUME NEW i \in 1 .. n + k, NEW j \in 1 .. n + k, u[i] = m, u[j] = m
                 PROVE  i = j
      BY <1>1 DEF Once
    <2>1. i \in 1 .. n /\ s[i] = m /\ j \in 1 .. n /\ s[j] = m
      BY <1>2, <1>3, <1>4
    <2> QED BY <1>4, <2>1 DEF Once, n
  <1>5. ASSUME NEW m, Once(t, m), m \notin Range(s) PROVE Once(u, m)
    <2> SUFFICES ASSUME NEW i \in 1 .. n + k, NEW j \in 1 .. n + k, u[i] = m, u[j] = m
                 PROVE  i = j
      BY <1>1 DEF Once
    <2>1. i - n \in 1 .. k /\ t[i - n] = m /\ j - n \in 1 .. k /\ t[j - n] = m
      BY <1>2, <1>3, <1>5
    <2>2. i - n = j - n
      BY <1>5, <2>1 DEF Once, k
    <2> QED BY <1>1, <2>2
  <1>6. ASSUME message("taskaccepted", o) \notin Range(t), NEW i \in 1 .. n + k,
               u[i] = message("taskaccepted", o)
        PROVE  i \in 1 .. n /\ s[i] = message("taskaccepted", o)
    BY <1>2, <1>3, <1>6
  <1>7. ASSUME EndFollows(s, o), message("taskaccepted", o) \notin Range(t) PROVE EndFollows(u, o)
    <2> SUFFICES ASSUME NEW i \in 1 .. n + k, u[i] = message("taskaccepted", o)
                 PROVE  \E j \in 1 .. n + k : i < j /\ u[j] \in results(o)
      BY <1>1 DEF EndFollows
    <2>1. i \in 1 .. n /\ s[i] = message("taskaccepted", o)
      BY <1>6, <1>7
    <2>2. PICK j \in 1 .. n : i < j /\ s[j] \in results(o)
      BY <1>7, <2>1 DEF EndFollows, n
    <2>3. j \in 1 .. n + k /\ u[j] = s[j]
      BY <1>1
    <2> QED BY <2>2, <2>3
  <1>8. ASSUME NEW m \in results(o), m \in Range(t), message("taskaccepted", o) \notin Range(t)
        PROVE  EndFollows(u, o)
    <2> SUFFICES ASSUME NEW i \in 1 .. n + k, u[i] = message("taskaccepted", o)
                 PROVE  \E j \in 1 .. n + k : i < j /\ u[j] \in results(o)
      BY <1>1 DEF EndFollows
    <2>1. i \in 1 .. n
      BY <1>6, <1>8
    <2>2. PICK j \in 1 .. k : t[j] = m
      BY <1>2, <1>8
    <2>3. n + j \in 1 .. n + k /\ i < n + j /\ u[n + j] = t[j]
      BY <1>1, <2>1
    <2> QED BY <2>2, <2>3
  <1> QED BY <1>1, <1>4, <1>5, <1>7, <1>8 DEF u

-----------------------------------------------------------------------------
(* Offers and the tasks that come of them *)

(* The broker has the offer, or will get it. *)
Announced(o) ==
    o \in Range(pendingTaskOffers) \/ message("taskoffer", o) \in Range(toBroker[o[1]])

(* The runner was told to cancel the task. *)
Cancelled(o) ==
    \/ message("taskcancel", o) \in Range(toRunner[o[1]])
    \/ runningTasks[o] = "aborting:cancelled"

(* An offer that nobody took yet has left no trace. *)
NameIsNew(o) ==
    Announced(o) =>
        /\ runnerAcceptRejects[o] = NoRequest /\ tasks[o] = NoRequest /\ ~Cancelled(o)
        /\ message("taskofferaccept", o) \notin Range(toRunner[o[1]])
        /\ message("taskaccepted", o) \notin Range(toBroker[o[1]])

(* An offer reaches the broker once. *)
AnnouncedOnce(o) ==
    /\ Once(toBroker[o[1]], message("taskoffer", o))
    /\ message("taskoffer", o) \in Range(toBroker[o[1]]) => o \notin Range(pendingTaskOffers)

(* An offer that is being accepted is no task yet. *)
AttemptIsNew(o) ==
    runnerAcceptRejects[o] # NoRequest => tasks[o] = NoRequest /\ ~Cancelled(o)

(* The broker has forgotten a task that it had canceled. *)
CancelledIsGone(o) == Cancelled(o) => tasks[o] = NoRequest

(* The end of the task is on its way, behind the acceptance that it needs. *)
EndIsKnown(o) ==
    /\ tasks[o] # NoRequest => \E m \in results(o) : m \in Range(toBroker[o[1]])
    /\ runnerAcceptRejects[o] # NoRequest => EndFollows(toBroker[o[1]], o)

(* A runner that is up and does not hold a task has told its end. *)
TaskHasEnd(o) == runner[o[1]] # "down" /\ runningTasks[o] = "none" => EndIsKnown(o)

OfferInv(o) ==
    NameIsNew(o) /\ AnnouncedOnce(o) /\ AttemptIsNew(o) /\ CancelledIsGone(o) /\ TaskHasEnd(o)

(* A step that brings nothing new of offer o but the end of its task. *)
LEMMA OfferStays ==
    ASSUME NEW o \in Offer, OfferInv(o),
           runnerAcceptRejects'[o] \in {runnerAcceptRejects[o], NoRequest},
           tasks'[o] \in {tasks[o], NoRequest},
           o \in Range(pendingTaskOffers') =>
              \/ o \in Range(pendingTaskOffers)
              \/ Announced(o) /\ message("taskoffer", o) \notin Range(toBroker'[o[1]]),
           \A k \in {"taskcancel", "taskofferaccept"} :
              message(k, o) \in Range(toRunner'[o[1]]) => message(k, o) \in Range(toRunner[o[1]]),
           runningTasks'[o] = "aborting:cancelled" => Cancelled(o),
           ChannelStays(toBroker[o[1]], toBroker'[o[1]], o),
           runner'[o[1]] # "down" /\ runningTasks'[o] = "none" =>
              \/ EndIsKnown(o)'
              \/ /\ runner[o[1]] # "down" /\ runningTasks[o] = "none"
                 /\ tasks'[o] # NoRequest => \A m \in results(o) :
                        m \in Range(toBroker[o[1]]) => m \in Range(toBroker'[o[1]])
    PROVE  OfferInv(o)'
  <1>1. Announced(o)' => Announced(o)
    BY DEF Announced, ChannelStays
  <1>2. Cancelled(o)' => Cancelled(o)
    BY DEF Cancelled
  <1>3. NameIsNew(o)'
    BY <1>1, <1>2 DEF OfferInv, NameIsNew, ChannelStays
  <1>4. AnnouncedOnce(o)'
    BY DEF OfferInv, AnnouncedOnce, ChannelStays
  <1>5. AttemptIsNew(o)' /\ CancelledIsGone(o)'
    BY <1>2 DEF OfferInv, AttemptIsNew, CancelledIsGone
  <1>6. TaskHasEnd(o)'
    BY DEF OfferInv, TaskHasEnd, EndIsKnown, ChannelStays
  <1> QED BY <1>3, <1>4, <1>5, <1>6 DEF OfferInv

(* A channel that is left alone. *)
LEMMA SameStays ==
    ASSUME NEW o \in Offer, OfferInv(o)
    PROVE  ChannelStays(toBroker[o[1]], toBroker[o[1]], o)
  BY DEF OfferInv, AnnouncedOnce, ChannelStays

(* A name that is not in use has left no trace. *)
LEMMA UnusedName ==
    ASSUME TypeOK, NEW r \in Runner, NEW o \in ofRunner(Offer, r) \ inUse(r)
    PROVE  /\ o \in Offer /\ o[1] = r /\ o \notin openOffers /\ runningTasks[o] = "none"
           /\ o \notin Range(pendingTaskOffers)
           /\ runnerAcceptRejects[o] = NoRequest /\ tasks[o] = NoRequest
           /\ \A k \in {"taskofferaccept", "taskcancel"} : message(k, o) \notin Range(toRunner[r])
           /\ \A k : message(k, o) \notin Range(toBroker[r])
  <1>1. o \in Offer /\ o[1] = r
    BY DEF ofRunner
  <1>2. /\ o \notin openOffers /\ runningTasks[o] = "none" /\ o \notin Range(pendingTaskOffers)
        /\ runnerAcceptRejects[o] = NoRequest /\ tasks[o] = NoRequest
    BY <1>1 DEF inUse, Held
  <1>3. /\ \A i \in 1 .. Len(toRunner[r]) :
              toRunner[r][i].type # "runnerregistered" => toRunner[r][i].offer # o
        /\ \A i \in 1 .. Len(toBroker[r]) : toBroker[r][i].offer # o
    BY DEF inUse
  <1>4. /\ Range(toRunner[r]) = {toRunner[r][i] : i \in 1 .. Len(toRunner[r])}
        /\ Range(toBroker[r]) = {toBroker[r][i] : i \in 1 .. Len(toBroker[r])}
    BY RangeEquality DEF TypeOK
  <1>5. \A k : message(k, o).type = k /\ message(k, o).offer = o
    BY DEF message
  <1> QED BY <1>1, <1>2, <1>3, <1>4, <1>5

(* New offers, after the end of task x if x is not held any more. *)
LEMMA OfferSends ==
    ASSUME TypeOK, NEW r \in Runner, NEW x \in Offer, NEW p \in Offer, OfferInv(p),
           NEW new, NEW ms, NEW stale, NEW held, NEW done \in Seq(ToBrokerMessage),
           OffersSent(new, ms, r, stale, held, done), Range(done) \subseteq results(x),
           UNCHANGED <<runnerAcceptRejects, tasks, pendingTaskOffers, runner>>,
           \A k \in {"taskcancel", "taskofferaccept"} :
              message(k, p) \in Range(toRunner'[p[1]]) => message(k, p) \in Range(toRunner[p[1]]),
           runningTasks'[p] \in {runningTasks[p], "none"},
           runningTasks'[p] # runningTasks[p] =>
              x[1] = r /\ p = x /\ (Cancelled(x) \/ \E m \in results(x) : m \in Range(done))
    PROVE  OfferInv(p)'
  <1>s. /\ new \subseteq ofRunner(Offer, r) \ inUse(r)
        /\ toBroker' = [toBroker EXCEPT ![r] = (@ \o done) \o ms]
        /\ ms \in Seq(ToBrokerMessage)
        /\ Range(ms) \subseteq {message("taskoffer", o) : o \in new}
        /\ \A i, j \in 1 .. Len(ms) : ms[i] = ms[j] => i = j
    BY DEF OffersSent
  <1>t. toBroker \in [Runner -> Seq(ToBrokerMessage)] /\ p[1] \in Runner
    BY OfferFacts DEF TypeOK
  <1> DEFINE s == toBroker[r]
             t == s \o done
             offer == message("taskoffer", p)
             accepted == message("taskaccepted", p)
  <1>1. /\ offer \notin Range(done) /\ accepted \notin Range(done) /\ accepted \notin Range(ms)
        /\ \A m \in results(p) : m \notin Range(ms)
        /\ offer \in Range(ms) => p \in new
    BY <1>s, MessagesDiffer DEF results
  <1>2. Once(ms, offer)
    BY <1>s DEF Once
  <1>3. s \in Seq(ToBrokerMessage) /\ t \in Seq(ToBrokerMessage) /\ t \o ms \in Seq(ToBrokerMessage)
        /\ Range(t) = Range(s) \cup Range(done)
        /\ Range(t \o ms) = Range(s) \cup Range(done) \cup Range(ms)
    <2>1. s \in Seq(ToBrokerMessage)
      BY <1>t
    <2>2. t \in Seq(ToBrokerMessage) /\ Range(t) = Range(s) \cup Range(done)
      BY <2>1, ConcatStays
    <2> HIDE DEF t
    <2>3. t \o ms \in Seq(ToBrokerMessage) /\ Range(t \o ms) = Range(t) \cup Range(ms)
      BY <1>s, <2>2, ConcatStays
    <2> QED BY <2>1, <2>2, <2>3
  <1>4. p[1] # r => toBroker'[p[1]] = toBroker[p[1]]
    BY <1>s, <1>t
  <1>5. p[1] = r => toBroker'[p[1]] = t \o ms
    BY <1>s, <1>t
  <1>6. CASE p \in new
    <2>1. /\ p[1] = r /\ runningTasks[p] = "none" /\ p \notin Range(pendingTaskOffers)
          /\ runnerAcceptRejects[p] = NoRequest /\ tasks[p] = NoRequest
          /\ \A k \in {"taskofferaccept", "taskcancel"} : message(k, p) \notin Range(toRunner[r])
          /\ \A k : message(k, p) \notin Range(s)
      BY <1>s, <1>6, UnusedName
    <2>2. offer \notin Range(t) /\ accepted \notin Range(t \o ms)
      BY <1>1, <1>3, <2>1
    <2>3. Once(t \o ms, offer)
      <3> HIDE DEF t, offer
      <3> QED BY <1>s, <1>2, <1>3, <2>2, ConcatStays DEF offer
    <2>4. ~Cancelled(p)'
      BY <2>1 DEF Cancelled
    <2>5. NameIsNew(p)'
      BY <1>5, <2>1, <2>2, <2>4 DEF NameIsNew
    <2>6. AnnouncedOnce(p)'
      BY <1>5, <2>1, <2>3 DEF AnnouncedOnce
    <2> QED BY <2>1, <2>4, <2>5, <2>6
            DEF OfferInv, AttemptIsNew, CancelledIsGone, TaskHasEnd, EndIsKnown
  <1>7. CASE p \notin new
    <2>1. ChannelStays(toBroker[p[1]], toBroker'[p[1]], p)
      <3>1. CASE p[1] # r
        BY <1>4, <3>1, SameStays
      <3>2. CASE p[1] = r
        <4>1. offer \notin Range(ms) /\ Once(s, offer)
          BY <1>1, <1>7, <3>2 DEF OfferInv, AnnouncedOnce
        <4>2. Once(t, offer) /\ (EndFollows(s, p) => EndFollows(t, p))
          BY <1>1, <1>3, <4>1, ConcatStays
        <4>3. Once(t \o ms, offer) /\ (EndFollows(t, p) => EndFollows(t \o ms, p))
          <5> HIDE DEF t
          <5> QED BY <1>s, <1>1, <1>3, <4>1, <4>2, ConcatStays
        <4> QED BY <1>1, <1>3, <1>5, <3>2, <4>1, <4>2, <4>3 DEF ChannelStays
      <3> QED BY <3>1, <3>2
    <2>2. Range(toBroker[p[1]]) \subseteq Range(toBroker'[p[1]])
      BY <1>3, <1>4, <1>5
    <2>3. CASE runningTasks'[p] = runningTasks[p]
      <3>1. runningTasks'[p] = "aborting:cancelled" => Cancelled(p)
        BY <2>3 DEF Cancelled
      <3> QED BY <2>1, <2>2, <2>3, <3>1, OfferStays
    <2>4. CASE runningTasks'[p] # runningTasks[p]
      <3>1. p = x /\ p[1] = r /\ runningTasks'[p] = "none"
        BY <2>4
      <3>2. EndIsKnown(p)'
        <4>1. CASE Cancelled(p)
          BY <4>1 DEF OfferInv, AttemptIsNew, CancelledIsGone, EndIsKnown
        <4>2. CASE ~Cancelled(p)
          <5>1. PICK m \in results(p) : m \in Range(done)
            BY <2>4, <3>1, <4>2
          <5>2. EndFollows(t, p)
            BY <1>1, <1>3, <5>1, ConcatStays
          <5>3. EndFollows(t \o ms, p)
            <6> HIDE DEF t
            <6> QED BY <1>s, <1>1, <1>3, <5>2, ConcatStays
          <5> QED BY <1>3, <1>5, <3>1, <5>1, <5>3 DEF EndIsKnown
        <4> QED BY <4>1, <4>2
      <3>3. runningTasks'[p] = "aborting:cancelled" => Cancelled(p)
        BY <3>1
      <3> QED BY <2>1, <3>1, <3>2, <3>3, OfferStays
    <2> QED BY <2>3, <2>4
  <1> QED BY <1>6, <1>7

(* What is in the channels to the runners after a message was sent. *)
LEMMA SentRange ==
    ASSUME TypeOK, NEW r \in Runner, NEW ms \in Seq(ToRunnerMessage), NEW x \in Runner
    PROVE  /\ Range(sent(r, ms)[x]) \subseteq Range(toRunner[x]) \cup Range(ms)
           /\ x # r => sent(r, ms)[x] = toRunner[x]
  <1>1. Range(toRunner[r] \o ms) = Range(toRunner[r]) \cup Range(ms)
    BY RangeConcatenation DEF TypeOK
  <1> QED BY <1>1 DEF TypeOK, sent

(* What is in the channels to the runners after a message was taken. *)
LEMMA TakeRange ==
    ASSUME TypeOK, NEW r \in Runner, take(r), NEW x \in Runner
    PROVE  /\ Range(toRunner'[x]) \subseteq Range(toRunner[x])
           /\ Head(toRunner[r]) \in Range(toRunner[r])
  <1>1. toRunner \in [Runner -> Seq(ToRunnerMessage)]
    BY DEF TypeOK
  <1>2. toRunner[r] # <<>> /\ toRunner' = [toRunner EXCEPT ![r] = Tail(@)]
    BY DEF take
  <1>3. Range(toRunner[r]) = Range(Tail(toRunner[r])) \cup {Head(toRunner[r])}
    <2>1. toRunner[r] \in Seq(ToRunnerMessage)
      BY <1>1
    <2> QED BY <1>2, <2>1, TailRange
  <1> QED BY <1>1, <1>2, <1>3

(* The broker takes a message: what the rest says of an offer. *)
LEMMA ReceiveStays ==
    ASSUME TypeOK, NEW r \in Runner, NEW k, NEW o, receive(r, k, o), NEW p \in Offer, OfferInv(p)
    PROVE  /\ ChannelStays(toBroker[p[1]], toBroker'[p[1]], p)
           /\ message(k, o) \notin results(p) \/ p[1] # r =>
                \A m \in results(p) : m \in Range(toBroker[p[1]]) => m \in Range(toBroker'[p[1]])
           /\ message(k, o) \in Range(toBroker[r])
           /\ k = "taskoffer" /\ o = p /\ p[1] = r =>
                message("taskoffer", p) \notin Range(toBroker'[p[1]])
           /\ k = "taskaccepted" /\ o = p /\ p[1] = r /\ EndFollows(toBroker[r], p) =>
                \E m \in results(p) : m \in Range(toBroker'[r])
  <1>1. toBroker \in [Runner -> Seq(ToBrokerMessage)] /\ p[1] \in Runner
    BY OfferFacts DEF TypeOK
  <1>2. /\ toBroker[r] # <<>> /\ Head(toBroker[r]) = message(k, o)
        /\ toBroker' = [toBroker EXCEPT ![r] = Tail(@)]
    BY DEF receive
  <1>3. toBroker[r] \in Seq(ToBrokerMessage)
    BY <1>1
  <1>4. Range(toBroker[r]) = Range(Tail(toBroker[r])) \cup {message(k, o)}
    BY <1>2, <1>3, TailRange
  <1>5. CASE p[1] # r
    <2>1. toBroker'[p[1]] = toBroker[p[1]]
      BY <1>1, <1>2, <1>5
    <2> QED BY <1>4, <1>5, <2>1, SameStays
  <1>6. CASE p[1] = r
    <2>1. toBroker'[p[1]] = Tail(toBroker[r])
      BY <1>1, <1>2, <1>6
    <2>2. Once(toBroker[r], message("taskoffer", p))
      BY <1>6 DEF OfferInv, AnnouncedOnce
    <2>3. /\ ChannelStays(toBroker[r], Tail(toBroker[r]), p)
          /\ k = "taskoffer" /\ o = p => message("taskoffer", p) \notin Range(Tail(toBroker[r]))
          /\ k = "taskaccepted" /\ o = p /\ EndFollows(toBroker[r], p) =>
                \E m \in results(p) : m \in Range(Tail(toBroker[r]))
      BY <1>2, <1>3, <2>2, TailStays
    <2> QED BY <1>4, <1>6, <2>1, <2>3
  <1> QED BY <1>5, <1>6

(* settleTasks takes an offer, or leaves it as it is. *)
LEMMA OfferSettles ==
    ASSUME TypeOK, TypeOK', NEW p \in Offer, OfferInv(p), NEW offs, NEW reqs,
           NEW taken \in SUBSET Offer, Settled(taken, offs, reqs),
           UNCHANGED <<tasks, runnerVars>>,
           ChannelStays(toBroker[p[1]], toBroker'[p[1]], p),
           \A m \in results(p) : m \in Range(toBroker[p[1]]) => m \in Range(toBroker'[p[1]]),
           p \in Range(offs) => Announced(p) /\ message("taskoffer", p) \notin Range(toBroker'[p[1]])
    PROVE  OfferInv(p)'
  <1> USE DEF runnerVars
  <1>s. /\ taken \subseteq Range(offs) /\ Range(pendingTaskOffers') = Range(offs) \ taken
        /\ \A o \in Offer \ taken : runnerAcceptRejects'[o] = runnerAcceptRejects[o]
        /\ \A r \in Runner : \E ms \in Seq(ToRunnerMessage) :
              /\ toRunner'[r] = sent(r, ms)[r]
              /\ Range(ms) \subseteq {message("taskofferaccept", o) : o \in {x \in taken : x[1] = r}}
    BY DEF Settled
  <1>1. p[1] \in Runner
    BY OfferFacts
  <1>2. PICK ms \in Seq(ToRunnerMessage) :
            /\ toRunner'[p[1]] = sent(p[1], ms)[p[1]]
            /\ Range(ms) \subseteq {message("taskofferaccept", o) : o \in {x \in taken : x[1] = p[1]}}
    BY <1>s, <1>1
  <1>3. Range(toRunner'[p[1]]) \subseteq Range(toRunner[p[1]]) \cup Range(ms)
    BY <1>1, <1>2, SentRange
  <1>4. message("taskcancel", p) \notin Range(ms)
    BY <1>2, MessagesDiffer
  <1>5. p \notin taken => message("taskofferaccept", p) \notin Range(ms)
    BY <1>2, MessagesDiffer
  <1>6. Cancelled(p)' => Cancelled(p)
    BY <1>3, <1>4 DEF Cancelled
  <1>7. CASE p \notin taken
    <2>1. runnerAcceptRejects'[p] = runnerAcceptRejects[p]
      BY <1>s, <1>7
    <2>2. \A k \in {"taskcancel", "taskofferaccept"} :
             message(k, p) \in Range(toRunner'[p[1]]) => message(k, p) \in Range(toRunner[p[1]])
      BY <1>3, <1>4, <1>5, <1>7
    <2>3. p \in Range(pendingTaskOffers') =>
             Announced(p) /\ message("taskoffer", p) \notin Range(toBroker'[p[1]])
      BY <1>s
    <2>4. runningTasks'[p] = "aborting:cancelled" => Cancelled(p)
      BY DEF Cancelled
    <2> QED BY <2>1, <2>2, <2>3, <2>4, OfferStays
  <1>8. CASE p \in taken
    <2>1. Announced(p) /\ message("taskoffer", p) \notin Range(toBroker'[p[1]])
      BY <1>s, <1>8
    <2>2. /\ tasks[p] = NoRequest /\ ~Cancelled(p)
          /\ message("taskaccepted", p) \notin Range(toBroker[p[1]])
      BY <2>1 DEF OfferInv, NameIsNew
    <2>3. ~Announced(p)' /\ ~Cancelled(p)' /\ tasks'[p] = NoRequest
      BY <1>s, <1>6, <1>8, <2>1, <2>2 DEF Announced
    <2>4. message("taskaccepted", p) \notin Range(toBroker'[p[1]])
      BY <2>2 DEF ChannelStays
    <2>5. EndFollows(toBroker'[p[1]], p)
      <3>1. toBroker'[p[1]] \in Seq(ToBrokerMessage)
        BY <1>1 DEF TypeOK
      <3> QED BY <2>4, <3>1, PlaceOfMessage DEF EndFollows
    <2>6. AnnouncedOnce(p)'
      BY <2>1 DEF AnnouncedOnce, ChannelStays
    <2> QED BY <2>3, <2>5, <2>6
            DEF OfferInv, NameIsNew, AttemptIsNew, CancelledIsGone, TaskHasEnd, EndIsKnown
  <1> QED BY <1>7, <1>8

(* Every step keeps the invariant of the offers. *)
LEMMA OfferStep ==
    ASSUME TypeOK, TypeOK', RequestInv, RunnerInv, \A o \in Offer : OfferInv(o), [Next]_vars,
           NEW p \in Offer
    PROVE  OfferInv(p)'
  <1> USE DEF brokerVars, runnerVars, bounds
  <1>t. /\ runnerAcceptRejects \in [Offer -> Request \cup {NoRequest}]
        /\ tasks \in [Offer -> Request \cup {NoRequest}]
        /\ runningTasks \in [Offer -> TaskStatus \cup {"none"}]
        /\ runner \in [Runner -> RunnerState]
        /\ toRunner \in [Runner -> Seq(ToRunnerMessage)]
        /\ toBroker \in [Runner -> Seq(ToBrokerMessage)]
        /\ pendingTaskRequests \in Seq(Request) /\ pendingTaskOffers \in Seq(Offer)
    BY DEF TypeOK
  <1>e. /\ <<>> \in Seq(ToBrokerMessage) /\ <<>> \in Seq(ToRunnerMessage)
        /\ \A m \in ToBrokerMessage : <<m>> \in Seq(ToBrokerMessage) /\ Range(<<m>>) = {m}
        /\ \A m \in ToRunnerMessage : <<m>> \in Seq(ToRunnerMessage) /\ Range(<<m>>) = {m}
        /\ Range(<<>>) = {}
    BY EmptySeq, EmptyRange DEF Range
  <1>r. \A r \in Runner : \A o \in ofRunner(Offer, r) : o \in Offer /\ o[1] = r
    BY DEF ofRunner
  <1>p. p[1] \in Runner /\ OfferInv(p) /\ DownIsEmpty(p[1]) /\ UnknownIsDown(p[1])
    BY OfferFacts DEF RunnerInv
  <1>c. runningTasks[p] = "aborting:cancelled" => Cancelled(p)
    BY DEF Cancelled
  <1>k. ChannelStays(toBroker[p[1]], toBroker[p[1]], p)
    BY SameStays
  <1>1. ASSUME NEW q \in Request, StartTask(q) PROVE OfferInv(p)'
    <2>1. Append(pendingTaskRequests, q) \in Seq(Request)
      BY <1>t, AppendProperties
    <2>2. PICK taken \in SUBSET Offer :
              Settled(taken, pendingTaskOffers, Append(pendingTaskRequests, q))
      BY <1>1, <1>t, <2>1, SettleEffect DEF StartTask
    <2>3. UNCHANGED <<tasks, runnerVars, toBroker>>
      BY <1>1 DEF StartTask
    <2>4. p \in Range(pendingTaskOffers) =>
             Announced(p) /\ message("taskoffer", p) \notin Range(toBroker[p[1]])
      BY <1>p DEF OfferInv, AnnouncedOnce, Announced
    <2> QED BY <1>p, <1>k, <2>2, <2>3, <2>4, OfferSettles
  <1>2. ASSUME NEW r \in Runner, NEW o \in ofRunner(Offer, r), TaskOffered(r, o) PROVE OfferInv(p)'
    <2>0. o \in Offer /\ o[1] = r /\ receive(r, "taskoffer", o)
      BY <1>2, <1>r DEF TaskOffered
    <2>1. /\ Append(pendingTaskOffers, o) \in Seq(Offer)
          /\ Range(Append(pendingTaskOffers, o)) = Range(pendingTaskOffers) \cup {o}
      BY <1>t, <2>0, AppendRange
    <2>2. PICK taken \in SUBSET Offer :
              Settled(taken, Append(pendingTaskOffers, o), pendingTaskRequests)
      BY <1>2, <1>t, <2>1, SettleEffect DEF TaskOffered
    <2>3. UNCHANGED <<tasks, runnerVars>>
      BY <1>2 DEF TaskOffered
    <2>4. /\ ChannelStays(toBroker[p[1]], toBroker'[p[1]], p)
          /\ message("taskoffer", o) \notin results(p) =>
                \A m \in results(p) : m \in Range(toBroker[p[1]]) => m \in Range(toBroker'[p[1]])
          /\ message("taskoffer", o) \in Range(toBroker[r])
          /\ o = p => message("taskoffer", p) \notin Range(toBroker'[p[1]])
      BY <1>p, <2>0, ReceiveStays
    <2>5. message("taskoffer", o) \notin results(p)
      BY MessagesDiffer DEF results
    <2>6. ASSUME p \in Range(Append(pendingTaskOffers, o))
          PROVE  Announced(p) /\ message("taskoffer", p) \notin Range(toBroker'[p[1]])
      <3>1. CASE p = o
        BY <2>0, <2>4, <3>1 DEF Announced
      <3>2. CASE p # o
        <4>1. p \in Range(pendingTaskOffers)
          BY <2>1, <2>6, <3>2
        <4> QED BY <1>p, <2>4, <4>1 DEF Announced, OfferInv, AnnouncedOnce, ChannelStays
      <3> QED BY <3>1, <3>2
    <2> QED BY <1>p, <2>2, <2>3, <2>4, <2>5, <2>6, OfferSettles
  <1>3. ASSUME NEW r \in Runner, NEW o \in ofRunner(Offer, r), TaskAccepted(r, o)
        PROVE  OfferInv(p)'
    <2>0. o \in Offer /\ o[1] = r /\ receive(r, "taskaccepted", o)
      BY <1>3, <1>r DEF TaskAccepted
    <2>1. /\ UNCHANGED <<pendingTaskOffers, runnerVars>>
          /\ runningTasks'[p] = runningTasks[p] /\ runner'[p[1]] = runner[p[1]]
      BY <1>3 DEF TaskAccepted
    <2>2. message("taskaccepted", o) \notin results(p)
      BY MessagesDiffer DEF results
    <2>3. /\ ChannelStays(toBroker[p[1]], toBroker'[p[1]], p)
          /\ \A m \in results(p) : m \in Range(toBroker[p[1]]) => m \in Range(toBroker'[p[1]])
          /\ message("taskaccepted", o) \in Range(toBroker[r])
          /\ o = p /\ EndFollows(toBroker[r], p) =>
                \E m \in results(p) : m \in Range(toBroker'[r])
      BY <1>p, <2>0, <2>2, ReceiveStays
    <2>4. CASE runnerAcceptRejects[o] = NoRequest
      <3>1. UNCHANGED <<runnerAcceptRejects, tasks, toRunner>>
        BY <1>3, <2>4 DEF TaskAccepted
      <3> QED BY <1>p, <1>c, <2>1, <2>3, <3>1, OfferStays
    <2>5. CASE runnerAcceptRejects[o] # NoRequest
      <3> DEFINE q == runnerAcceptRejects[o]
      <3>1. /\ q \in Request
            /\ runnerAcceptRejects' = [runnerAcceptRejects EXCEPT ![o] = NoRequest]
            /\ tasks' = [tasks EXCEPT ![o] = q]
            /\ toRunner' = sent(r, <<message("tasksettings", o)>>)
        BY <1>3, <2>0, <2>5, AcceptEffect
      <3>2. Range(toRunner'[p[1]]) \subseteq Range(toRunner[p[1]]) \cup {message("tasksettings", o)}
        <4> DEFINE m == message("tasksettings", o)
        <4>1. m \in ToRunnerMessage
          BY <2>0, MessageTypes
        <4>2. toRunner' = sent(r, <<m>>)
          BY <3>1
        <4> HIDE DEF m
        <4>3. <<m>> \in Seq(ToRunnerMessage) /\ Range(<<m>>) = {m}
          BY <1>e, <4>1
        <4>4. Range(sent(r, <<m>>)[p[1]]) \subseteq Range(toRunner[p[1]]) \cup Range(<<m>>)
          BY <1>p, <4>3, SentRange
        <4>5. Range(toRunner'[p[1]]) \subseteq Range(toRunner[p[1]]) \cup {m}
          BY <4>2, <4>3, <4>4
        <4> QED BY <4>5 DEF m
      <3>3. \A k \in {"taskcancel", "taskofferaccept"} :
               message(k, p) \in Range(toRunner'[p[1]]) => message(k, p) \in Range(toRunner[p[1]])
        BY <3>2, MessagesDiffer
      <3>4. CASE p # o
        <4>1. runnerAcceptRejects'[p] = runnerAcceptRejects[p] /\ tasks'[p] = tasks[p]
          BY <1>t, <3>1, <3>4
        <4> QED BY <1>p, <1>c, <2>1, <2>3, <3>3, <4>1, OfferStays
      <3>5. CASE p = o
        <4>1. ~Cancelled(p) /\ ~Announced(p)
          BY <1>p, <2>5, <3>5 DEF OfferInv, AttemptIsNew, NameIsNew
        <4>2. ~Cancelled(p)' /\ ~Announced(p)'
          BY <2>1, <2>3, <3>3, <4>1 DEF Cancelled, Announced, ChannelStays
        <4>3. AnnouncedOnce(p)'
          BY <4>2, <2>3 DEF Announced, AnnouncedOnce, ChannelStays
        <4>4. runnerAcceptRejects'[p] = NoRequest
          BY <1>t, <3>1, <3>5
        <4>5. TaskHasEnd(p)'
          <5>1. runner[p[1]] # "down" /\ runningTasks[p] = "none" => EndFollows(toBroker[p[1]], p)
            BY <1>p, <2>5, <3>5 DEF OfferInv, TaskHasEnd, EndIsKnown
          <5> QED BY <2>0, <2>1, <2>3, <3>5, <4>4, <5>1 DEF TaskHasEnd, EndIsKnown
        <4> QED BY <4>2, <4>3, <4>4, <4>5
                   DEF OfferInv, NameIsNew, AttemptIsNew, CancelledIsGone
      <3> QED BY <3>4, <3>5
    <2> QED BY <2>4, <2>5
  <1>j. ASSUME NEW r \in Runner, NEW o \in ofRunner(Offer, r),
               NEW k \in {"taskrejected", "taskdeferred"}, receive(r, k, o),
               \E reqs : acceptFails(o, reqs),
               UNCHANGED <<pendingTaskOffers, tasks, runnerVars, toRunner>>
        PROVE  OfferInv(p)'
    <2>1. runnerAcceptRejects' = [runnerAcceptRejects EXCEPT ![o] = NoRequest]
      BY <1>j DEF acceptFails
    <2>2. message(k, o) \notin results(p)
      BY MessagesDiffer DEF results
    <2>3. /\ ChannelStays(toBroker[p[1]], toBroker'[p[1]], p)
          /\ \A m \in results(p) : m \in Range(toBroker[p[1]]) => m \in Range(toBroker'[p[1]])
      BY <1>p, <1>j, <2>2, ReceiveStays
    <2>4. runnerAcceptRejects'[p] \in {runnerAcceptRejects[p], NoRequest}
      BY <1>t, <2>1
    <2> QED BY <1>p, <1>c, <1>j, <2>3, <2>4, OfferStays
  <1>4. ASSUME NEW r \in Runner, NEW o \in ofRunner(Offer, r), TaskRejected(r, o)
        PROVE  OfferInv(p)'
    BY <1>4, <1>j DEF TaskRejected
  <1>22. ASSUME NEW r \in Runner, NEW o \in ofRunner(Offer, r), TaskDeferred(r, o)
         PROVE  OfferInv(p)'
    BY <1>22, <1>j DEF TaskDeferred
  <1>5. ASSUME NEW r \in Runner, NEW o \in ofRunner(Offer, r),
               NEW kind \in {"taskdone", "taskerror"}, TaskEnded(r, o, kind)
        PROVE  OfferInv(p)'
    <2>1. /\ UNCHANGED <<pendingTaskOffers, runnerAcceptRejects, runnerVars, toRunner>>
          /\ receive(r, kind, o) /\ tasks' = [tasks EXCEPT ![o] = NoRequest]
      BY <1>5 DEF TaskEnded, settleResult
    <2>2. /\ ChannelStays(toBroker[p[1]], toBroker'[p[1]], p)
          /\ message(kind, o) \notin results(p) =>
                \A m \in results(p) : m \in Range(toBroker[p[1]]) => m \in Range(toBroker'[p[1]])
      BY <1>p, <2>1, ReceiveStays
    <2>3. p # o => message(kind, o) \notin results(p)
      BY MessagesDiffer DEF results
    <2>4. tasks'[p] \in {tasks[p], NoRequest} /\ (tasks'[p] # NoRequest => p # o)
      BY <1>t, <2>1
    <2> QED BY <1>p, <1>c, <2>1, <2>2, <2>3, <2>4, OfferStays
  <1>6. ASSUME NEW r \in Runner, StartTaskOffers(r) PROVE OfferInv(p)'
    <2>1. /\ UNCHANGED <<brokerVars, runningTasks, toBroker>> /\ take(r)
          /\ runner'[p[1]] # "down" => runner[p[1]] # "down"
      BY <1>t, <1>p, <1>6 DEF StartTaskOffers
    <2>2. Range(toRunner'[p[1]]) \subseteq Range(toRunner[p[1]])
      BY <1>p, <2>1, TakeRange
    <2> QED BY <1>p, <1>c, <1>k, <2>1, <2>2, OfferStays
  <1>q. ASSUME NEW r \in Runner, take(r) PROVE runner[r] # "down"
    BY <1>q DEF take, RunnerInv, DownIsEmpty
  <1>a. ASSUME NEW r \in Runner, NEW m \in ToBrokerMessage,
               toBroker' = [toBroker EXCEPT ![r] = Append(@, m)], p[1] = r
        PROVE  /\ toBroker'[p[1]] = toBroker[p[1]] \o <<m>> /\ <<m>> \in Seq(ToBrokerMessage)
               /\ toBroker[p[1]] \in Seq(ToBrokerMessage) /\ Range(<<m>>) = {m}
    <2>1. Append(toBroker[r], m) = toBroker[r] \o <<m>>
      BY <1>t, AppendIsConcat
    <2> QED BY <1>t, <1>e, <1>a, <2>1
  <1>b. ASSUME NEW r \in Runner, NEW m \in ToBrokerMessage,
               toBroker' = [toBroker EXCEPT ![r] = Append(@, m)],
               m # message("taskoffer", p), m # message("taskaccepted", p)
        PROVE  /\ ChannelStays(toBroker[p[1]], toBroker'[p[1]], p)
               /\ Range(toBroker[p[1]]) \subseteq Range(toBroker'[p[1]])
    <2>1. CASE p[1] # r
      <3>1. toBroker'[p[1]] = toBroker[p[1]]
        BY <1>t, <1>b, <1>p, <2>1
      <3> QED BY <1>k, <3>1
    <2>2. CASE p[1] = r
      <3> DEFINE s == toBroker[p[1]]
      <3>1. /\ toBroker'[p[1]] = s \o <<m>> /\ <<m>> \in Seq(ToBrokerMessage)
            /\ s \in Seq(ToBrokerMessage) /\ Range(<<m>>) = {m}
        BY <1>a, <1>b, <2>2
      <3>2. Once(s, message("taskoffer", p))
        BY <1>p DEF OfferInv, AnnouncedOnce
      <3> HIDE DEF s
      <3>3. /\ Range(s \o <<m>>) = Range(s) \cup {m}
            /\ Once(s \o <<m>>, message("taskoffer", p))
            /\ EndFollows(s, p) => EndFollows(s \o <<m>>, p)
        BY <1>b, <3>1, <3>2, ConcatStays
      <3>4. ChannelStays(s, s \o <<m>>, p) /\ Range(s) \subseteq Range(s \o <<m>>)
        BY <1>b, <3>3 DEF ChannelStays
      <3> QED BY <3>1, <3>4 DEF s
    <2> QED BY <2>1, <2>2
  <1>7. ASSUME NEW r \in Runner, NEW o \in ofRunner(Offer, r), OfferAccepted(r, o)
        PROVE  OfferInv(p)'
    <2>0. /\ o \in Offer /\ o[1] = r /\ take(r) /\ Head(toRunner[r]) = message("taskofferaccept", o)
          /\ UNCHANGED <<brokerVars, runner>>
      BY <1>7, <1>r DEF OfferAccepted
    <2>1. /\ Range(toRunner'[p[1]]) \subseteq Range(toRunner[p[1]])
          /\ message("taskofferaccept", o) \in Range(toRunner[r])
      BY <1>p, <2>0, TakeRange
    <2>2. /\ message("taskaccepted", o) \in ToBrokerMessage
          /\ message("taskrejected", o) \in ToBrokerMessage
      BY <2>0, MessageTypes
    <2>3. PICK m \in {message("taskaccepted", o), message("taskrejected", o)} :
            /\ toBroker' = [toBroker EXCEPT ![r] = Append(@, m)]
            /\ \/ m = message("taskrejected", o) /\ UNCHANGED runningTasks
               \/ runningTasks' = [runningTasks EXCEPT ![o] = "waitingForSettings"]
      BY <1>7 DEF OfferAccepted
    <2>4. m # message("taskoffer", p) /\ m # message("taskoffer", o) /\ m \notin results(p)
          /\ (p # o => m # message("taskaccepted", p))
      BY MessagesDiffer DEF results
    <2>5. CASE m # message("taskaccepted", p)
      <3>1. /\ ChannelStays(toBroker[p[1]], toBroker'[p[1]], p)
            /\ Range(toBroker[p[1]]) \subseteq Range(toBroker'[p[1]])
        BY <1>b, <2>2, <2>3, <2>4, <2>5
      <3>2. runningTasks'[p] \in {runningTasks[p], "waitingForSettings"}
        BY <1>t, <2>3
      <3>3. runningTasks'[p] = "aborting:cancelled" => Cancelled(p)
        BY <1>c, <3>2
      <3>4. runningTasks'[p] = "none" => runningTasks[p] = "none"
        BY <3>2
      <3> QED BY <1>p, <2>0, <2>1, <3>1, <3>3, <3>4, OfferStays
    <2>6. CASE m = message("taskaccepted", p)
      <3>1. p = o /\ runningTasks'[p] = "waitingForSettings"
        <4>1. p = o
          BY <2>4, <2>6
        <4> QED BY <1>t, <2>3, <2>6, <4>1, MessagesDiffer
      <3>2. ~Announced(p)
        BY <1>p, <2>0, <2>1, <3>1 DEF OfferInv, NameIsNew
      <3> DEFINE s == toBroker[p[1]]
      <3>3. /\ toBroker'[p[1]] = s \o <<m>> /\ <<m>> \in Seq(ToBrokerMessage)
            /\ s \in Seq(ToBrokerMessage) /\ Range(<<m>>) = {m}
        BY <1>a, <2>0, <2>2, <2>3, <3>1
      <3>4. Once(s, message("taskoffer", p)) /\ message("taskoffer", p) \notin Range(s)
        BY <1>p, <3>2 DEF OfferInv, AnnouncedOnce, Announced
      <3>5. /\ Range(s \o <<m>>) = Range(s) \cup {m}
            /\ Once(s \o <<m>>, message("taskoffer", p))
        <4> HIDE DEF s
        <4> QED BY <2>4, <3>3, <3>4, ConcatStays
      <3>6. message("taskoffer", p) \notin Range(toBroker'[p[1]])
        BY <2>4, <3>3, <3>4, <3>5
      <3>7. ~Announced(p)' /\ AnnouncedOnce(p)'
        BY <2>0, <3>2, <3>3, <3>5, <3>6 DEF Announced, AnnouncedOnce
      <3>8. Cancelled(p)' => Cancelled(p)
        BY <2>1, <3>1 DEF Cancelled
      <3> QED BY <1>p, <2>0, <3>1, <3>7, <3>8
              DEF OfferInv, NameIsNew, AttemptIsNew, CancelledIsGone, TaskHasEnd
    <2> QED BY <2>5, <2>6
  <1>8. ASSUME NEW r \in Runner, NEW o \in ofRunner(Offer, r), LauncherDefers(r, o)
        PROVE  OfferInv(p)'
    <2>0. /\ o \in Offer /\ take(r) /\ runner[r] # "down"
          /\ UNCHANGED <<brokerVars, runningTasks>>
          /\ runner' = [runner EXCEPT ![r] = "stopping"]
          /\ toBroker' = [toBroker EXCEPT ![r] = Append(@, message("taskdeferred", o))]
      BY <1>8, <1>q, <1>r DEF LauncherDefers
    <2>1. Range(toRunner'[p[1]]) \subseteq Range(toRunner[p[1]])
      BY <1>p, <2>0, TakeRange
    <2>2. /\ message("taskdeferred", o) \in ToBrokerMessage
          /\ message("taskdeferred", o) # message("taskoffer", p)
          /\ message("taskdeferred", o) # message("taskaccepted", p)
      BY <2>0, MessageTypes, MessagesDiffer
    <2>3. /\ ChannelStays(toBroker[p[1]], toBroker'[p[1]], p)
          /\ Range(toBroker[p[1]]) \subseteq Range(toBroker'[p[1]])
      BY <1>b, <2>0, <2>2
    <2>4. runner'[p[1]] # "down" => runner[p[1]] # "down"
      BY <1>t, <1>p, <2>0
    <2> QED BY <1>p, <1>c, <2>0, <2>1, <2>3, <2>4, OfferStays
  <1>9. ASSUME NEW r \in Runner, NEW o \in ofRunner(Offer, r), ReceivedSettings(r, o)
        PROVE  OfferInv(p)'
    <2>1. /\ take(r) /\ UNCHANGED <<brokerVars, runner, toBroker>>
          /\ runningTasks' = [runningTasks EXCEPT ![o] =
                                IF @ = "waitingForSettings" THEN "running" ELSE @]
      BY <1>9 DEF ReceivedSettings
    <2>2. Range(toRunner'[p[1]]) \subseteq Range(toRunner[p[1]])
      BY <1>p, <2>1, TakeRange
    <2>3. runningTasks'[p] = runningTasks[p] \/ runningTasks'[p] = "running"
      BY <1>t, <2>1
    <2>4. /\ runningTasks'[p] = "aborting:cancelled" => Cancelled(p)
          /\ runningTasks'[p] = "none" => runningTasks[p] = "none"
      BY <1>c, <2>3
    <2> QED BY <1>p, <1>k, <2>1, <2>2, <2>4, OfferStays
  <1>f. ASSUME NEW o \in Offer, NEW done \in Seq(ToBrokerMessage), finishTask(o, done),
               Range(done) \subseteq results(o), runningTasks[o] # "none",
               Cancelled(o) \/ \E m \in results(o) : m \in Range(done),
               UNCHANGED <<brokerVars, runner>>,
               Range(toRunner'[p[1]]) \subseteq Range(toRunner[p[1]])
        PROVE  OfferInv(p)'
    <2>1. PICK stale \in SUBSET ofRunner(openOffers, o[1]) : \E new, ms :
             OffersSent(new, ms, o[1], stale, Held \ {o}, done)
      BY <1>f, FinishType
    <2>2. PICK new, ms : OffersSent(new, ms, o[1], stale, Held \ {o}, done)
      BY <2>1
    <2>3. runningTasks'[p] = IF p = o THEN "none" ELSE runningTasks[p]
      BY <1>f, <1>t DEF finishTask
    <2>4. o[1] \in Runner
      BY OfferFacts
    <2>5. \A k \in {"taskcancel", "taskofferaccept"} :
             message(k, p) \in Range(toRunner'[p[1]]) => message(k, p) \in Range(toRunner[p[1]])
      BY <1>f
    <2>6. /\ runningTasks'[p] \in {runningTasks[p], "none"}
          /\ runningTasks'[p] # runningTasks[p] =>
                p = o /\ (Cancelled(o) \/ \E m \in results(o) : m \in Range(done))
      BY <1>f, <2>3
    <2> QED BY <1>p, <1>f, <2>2, <2>4, <2>5, <2>6, OfferSends
  <1>10. ASSUME NEW r \in Runner, NEW o \in ofRunner(Offer, r), TaskCancelled(r, o)
         PROVE  OfferInv(p)'
    <2>0. /\ o \in Offer /\ o[1] = r /\ take(r) /\ Head(toRunner[r]) = message("taskcancel", o)
          /\ UNCHANGED <<brokerVars, runner>>
      BY <1>10, <1>r DEF TaskCancelled
    <2>1. /\ Range(toRunner'[p[1]]) \subseteq Range(toRunner[p[1]])
          /\ message("taskcancel", o) \in Range(toRunner[r])
      BY <1>p, <2>0, TakeRange
    <2>2. Cancelled(o)
      BY <2>0, <2>1 DEF Cancelled
    <2>3. CASE runningTasks[o] = "waitingForSettings"
      <3>1. finishTask(o, <<>>)
        BY <1>10, <2>3 DEF TaskCancelled
      <3> QED BY <1>e, <1>f, <2>0, <2>1, <2>2, <2>3, <3>1
    <2>4. CASE runningTasks[o] # "waitingForSettings"
      <3>1. /\ runningTasks' = [runningTasks EXCEPT ![o] =
                                  IF @ = "running" THEN "aborting:cancelled" ELSE @]
            /\ UNCHANGED toBroker
        BY <1>10, <2>4 DEF TaskCancelled
      <3>2. \/ runningTasks'[p] = runningTasks[p]
            \/ p = o /\ runningTasks'[p] = "aborting:cancelled"
        BY <1>t, <3>1
      <3>3. /\ runningTasks'[p] = "aborting:cancelled" => Cancelled(p)
            /\ runningTasks'[p] = "none" => runningTasks[p] = "none"
        BY <1>c, <2>2, <3>2
      <3> QED BY <1>p, <1>k, <2>0, <2>1, <3>1, <3>3, OfferStays
    <2> QED BY <2>3, <2>4
  <1>11. ASSUME NEW r \in Runner, Connect(r) PROVE OfferInv(p)'
    <2>1. /\ r \notin knownRunners /\ runner' = [runner EXCEPT ![r] = "connected"]
          /\ toRunner' = [toRunner EXCEPT ![r] = <<[type |-> "runnerregistered"]>>]
          /\ UNCHANGED <<pendingTaskOffers, runnerAcceptRejects, tasks, runningTasks, toBroker>>
      BY <1>11 DEF Connect
    <2>2. \A k \in {"taskcancel", "taskofferaccept"} :
             message(k, p) \in Range(toRunner'[p[1]]) => message(k, p) \in Range(toRunner[p[1]])
      <3>1. [type |-> "runnerregistered"] \in ToRunnerMessage
        BY DEF ToRunnerMessage
      <3>2. Range(<<[type |-> "runnerregistered"]>>) = {[type |-> "runnerregistered"]}
        BY <1>e, <3>1
      <3>3. \A k \in {"taskcancel", "taskofferaccept"} : message(k, p) # [type |-> "runnerregistered"]
        <4>1. \A k : message(k, p).type = k /\ [type |-> "runnerregistered"].type = "runnerregistered"
          BY DEF message
        <4> QED BY <4>1
      <3> QED BY <1>t, <1>p, <2>1, <3>2, <3>3
    <2>3. CASE p[1] = r
      <3>1. toBroker'[p[1]] = <<>> /\ tasks'[p] = NoRequest
        BY <1>p, <2>1, <2>3 DEF UnknownIsDown, ofRunner
      <3>2. EndIsKnown(p)'
        BY <3>1, EmptyStays DEF EndIsKnown
      <3> QED BY <1>p, <1>c, <1>k, <2>1, <2>2, <3>2, OfferStays
    <2>4. CASE p[1] # r
      <3>1. runner'[p[1]] = runner[p[1]]
        BY <1>t, <1>p, <2>1, <2>4
      <3> QED BY <1>p, <1>c, <1>k, <2>1, <2>2, <3>1, OfferStays
    <2> QED BY <2>3, <2>4
  <1>12. ASSUME NEW r \in Runner, DeregisterRunner(r) PROVE OfferInv(p)'
    <2>1. /\ runner[r] = "down" /\ UNCHANGED <<runnerAcceptRejects, runnerVars, toRunner>>
          /\ pendingTaskOffers' = only(pendingTaskOffers, {o \in Offer : o[1] # r})
          /\ tasks' = [o \in Offer |-> IF o[1] = r THEN NoRequest ELSE tasks[o]]
          /\ toBroker' = [toBroker EXCEPT ![r] = <<>>]
      BY <1>12 DEF DeregisterRunner
    <2>2. Range(pendingTaskOffers') \subseteq Range(pendingTaskOffers)
      BY <1>t, <2>1, OnlyRange
    <2>3. tasks'[p] \in {tasks[p], NoRequest}
      BY <1>t, <2>1
    <2>4. CASE p[1] = r
      <3>1. toBroker'[p[1]] = <<>> /\ runner'[p[1]] = "down"
        BY <1>t, <1>p, <2>1, <2>4
      <3>2. ChannelStays(toBroker[p[1]], toBroker'[p[1]], p)
        BY <3>1, EmptyStays
      <3> QED BY <1>p, <1>c, <2>1, <2>2, <2>3, <3>1, <3>2, OfferStays
    <2>5. CASE p[1] # r
      <3>1. toBroker'[p[1]] = toBroker[p[1]]
        BY <1>t, <1>p, <2>1, <2>5
      <3> QED BY <1>p, <1>c, <1>k, <2>1, <2>2, <2>3, <3>1, OfferStays
    <2> QED BY <2>4, <2>5
  <1>13. ASSUME NEW r \in Runner, OfferInterval(r) PROVE OfferInv(p)'
    <2>1. PICK stale \in SUBSET ofRunner(openOffers, r) : sendOffers(r, stale, Held, <<>>)
      BY <1>13 DEF OfferInterval
    <2>2. PICK new, ms : OffersSent(new, ms, r, stale, Held, <<>>)
      BY <1>e, <2>1, SendEffect DEF Held
    <2>3. UNCHANGED <<brokerVars, runner, runningTasks, toRunner>>
      BY <1>13 DEF OfferInterval
    <2> QED BY <1>p, <1>e, <2>2, <2>3, OfferSends
  <1>14. ASSUME NEW r \in Runner, Stop(r) PROVE OfferInv(p)'
    <2>1. /\ UNCHANGED <<brokerVars, runningTasks, toRunner, toBroker>>
          /\ runner'[p[1]] # "down" => runner[p[1]] # "down"
      BY <1>14, <1>t, <1>p DEF Stop
    <2> QED BY <1>p, <1>c, <1>k, <2>1, OfferStays
  <1>g. ASSUME NEW r \in Runner, gone(r), toRunner' = [toRunner EXCEPT ![r] = <<>>],
               UNCHANGED <<pendingTaskOffers, runnerAcceptRejects, toBroker>>,
               tasks'[p] \in {tasks[p], NoRequest}
        PROVE  OfferInv(p)'
    <2>1. /\ Range(toRunner'[p[1]]) \subseteq Range(toRunner[p[1]])
          /\ runningTasks'[p] \in {runningTasks[p], "none"}
          /\ \/ runner'[p[1]] = "down"
             \/ runner'[p[1]] = runner[p[1]] /\ runningTasks'[p] = runningTasks[p]
      BY <1>t, <1>e, <1>p, <1>g DEF gone
    <2>2. runningTasks'[p] = "aborting:cancelled" => Cancelled(p)
      BY <1>c, <2>1
    <2> QED BY <1>p, <1>k, <1>g, <2>1, <2>2, OfferStays
  <1>15. ASSUME NEW r \in Runner, StopDone(r) \/ Crash(r) PROVE OfferInv(p)'
    BY <1>g, <1>15 DEF StopDone, Crash
  <1>16. ASSUME NEW o \in Offer, OfferLapses(o) PROVE OfferInv(p)'
    <2>1. /\ UNCHANGED <<runnerAcceptRejects, tasks, runnerVars, toRunner, toBroker>>
          /\ pendingTaskOffers' = only(pendingTaskOffers, Offer \ {o})
      BY <1>16 DEF OfferLapses
    <2>2. Range(pendingTaskOffers') \subseteq Range(pendingTaskOffers)
      BY <1>t, <2>1, OnlyRange
    <2> QED BY <1>p, <1>c, <1>k, <2>1, <2>2, OfferStays
  <1>17. ASSUME NEW o \in Offer, AcceptTimeout(o) PROVE OfferInv(p)'
    <2>1. /\ UNCHANGED <<pendingTaskOffers, tasks, runnerVars, toRunner, toBroker>>
          /\ runnerAcceptRejects'[p] \in {runnerAcceptRejects[p], NoRequest}
      BY <1>t, <1>17 DEF AcceptTimeout, acceptFails
    <2> QED BY <1>p, <1>c, <1>k, <2>1, OfferStays
  <1>18. ASSUME NEW o \in Offer, TaskTimeout(o) PROVE OfferInv(p)'
    <2>1. /\ tasks[o] # NoRequest /\ tasks' = [tasks EXCEPT ![o] = NoRequest]
          /\ UNCHANGED <<pendingTaskOffers, runnerAcceptRejects, toBroker>>
      BY <1>18 DEF TaskTimeout, settleResult
    <2>2. o[1] \in Runner /\ tasks'[p] \in {tasks[p], NoRequest}
      BY <1>t, <2>1, OfferFacts
    <2>3. CASE InternalMode
      BY <1>g, <1>18, <2>1, <2>2, <2>3 DEF TaskTimeout
    <2>4. CASE ~InternalMode
      <3>1. UNCHANGED runnerVars /\ toRunner' = sent(o[1], <<message("taskcancel", o)>>)
        BY <1>18, <2>4 DEF TaskTimeout
      <3>2. Range(toRunner'[p[1]]) \subseteq Range(toRunner[p[1]]) \cup {message("taskcancel", o)}
        <4> DEFINE m == message("taskcancel", o)
        <4>1. m \in ToRunnerMessage
          BY MessageTypes
        <4>2. toRunner' = sent(o[1], <<m>>)
          BY <3>1
        <4> HIDE DEF m
        <4>3. <<m>> \in Seq(ToRunnerMessage) /\ Range(<<m>>) = {m}
          BY <1>e, <4>1
        <4>4. Range(sent(o[1], <<m>>)[p[1]]) \subseteq Range(toRunner[p[1]]) \cup Range(<<m>>)
          BY <1>p, <2>2, <4>3, SentRange
        <4>5. Range(toRunner'[p[1]]) \subseteq Range(toRunner[p[1]]) \cup {m}
          BY <4>2, <4>3, <4>4
        <4> QED BY <4>5 DEF m
      <3>3. CASE p # o
        <4>1. \A k \in {"taskcancel", "taskofferaccept"} :
                 message(k, p) \in Range(toRunner'[p[1]]) => message(k, p) \in Range(toRunner[p[1]])
          BY <3>2, <3>3, MessagesDiffer
        <4> QED BY <1>p, <1>c, <1>k, <2>1, <2>2, <3>1, <4>1, OfferStays
      <3>4. CASE p = o
        <4>1. runnerAcceptRejects[p] = NoRequest /\ ~Announced(p) /\ tasks'[p] = NoRequest
          BY <1>t, <1>p, <2>1, <3>4 DEF OfferInv, AttemptIsNew, NameIsNew
        <4>2. ~Announced(p)' /\ AnnouncedOnce(p)'
          BY <1>p, <2>1, <4>1 DEF Announced, AnnouncedOnce, OfferInv
        <4> QED BY <2>1, <4>1, <4>2
                DEF OfferInv, NameIsNew, AttemptIsNew, CancelledIsGone, TaskHasEnd, EndIsKnown
      <3> QED BY <3>3, <3>4
    <2> QED BY <2>3, <2>4
  <1>19. ASSUME NEW o \in Offer, TaskTimedOut(o) PROVE OfferInv(p)'
    <2> DEFINE m == message("taskerror", o)
    <2>1. m \in ToBrokerMessage /\ m \in results(o)
      BY MessageTypes DEF results
    <2>2. UNCHANGED <<brokerVars, runner, toRunner>>
      BY <1>19 DEF TaskTimedOut
    <2>3. CASE runningTasks[o] = "waitingForSettings"
      <3>1. finishTask(o, <<m>>)
        BY <1>19, <2>3 DEF TaskTimedOut
      <3> HIDE DEF m
      <3> QED BY <1>e, <1>f, <2>1, <2>2, <2>3, <3>1
    <2>4. CASE runningTasks[o] # "waitingForSettings"
      <3>1. runningTasks[o] = "running" /\ UNCHANGED toBroker
            /\ runningTasks' = [runningTasks EXCEPT ![o] = "aborting:timeout"]
        BY <1>19, <2>4 DEF TaskTimedOut
      <3>2. runningTasks'[p] = runningTasks[p] \/ runningTasks'[p] = "aborting:timeout"
        BY <1>t, <3>1
      <3>3. /\ runningTasks'[p] = "aborting:cancelled" => Cancelled(p)
            /\ runningTasks'[p] = "none" => runningTasks[p] = "none"
        BY <1>c, <3>2
      <3> QED BY <1>p, <1>k, <2>2, <3>1, <3>3, OfferStays
    <2> QED BY <2>3, <2>4
  <1>20. ASSUME NEW o \in Offer, Ends(o) PROVE OfferInv(p)'
    <2>1. PICK kind \in {"taskdone", "taskerror"} : ExecutionEnds(o, kind)
      BY <1>20 DEF Ends
    <2> DEFINE m == message(kind, o)
    <2>2. m \in ToBrokerMessage /\ m \in results(o)
      BY MessageTypes DEF results
    <2>3. UNCHANGED <<brokerVars, runner, toRunner>>
      BY <2>1 DEF ExecutionEnds
    <2>4. CASE runningTasks[o] \in {"running", "aborting:timeout"}
      <3>1. finishTask(o, <<m>>)
        BY <2>1, <2>4 DEF ExecutionEnds
      <3> HIDE DEF m
      <3>2. <<m>> \in Seq(ToBrokerMessage) /\ Range(<<m>>) = {m}
        BY <1>e, <2>2
      <3>3. Range(<<m>>) \subseteq results(o) /\ \E x \in results(o) : x \in Range(<<m>>)
        BY <2>2, <3>2
      <3>4. UNCHANGED <<brokerVars, runner>> /\ Range(toRunner'[p[1]]) \subseteq Range(toRunner[p[1]])
        BY <2>3
      <3>5. runningTasks[o] # "none"
        BY <2>4
      <3> QED BY <1>f, <3>1, <3>2, <3>3, <3>4, <3>5
    <2>5. CASE runningTasks[o] = "aborting:cancelled"
      <3>1. finishTask(o, <<>>) /\ Cancelled(o)
        BY <2>1, <2>5 DEF ExecutionEnds, Cancelled
      <3> QED BY <1>e, <1>f, <2>3, <2>5, <3>1
    <2> QED BY <2>1, <2>4, <2>5 DEF ExecutionEnds
  <1>21. ASSUME UNCHANGED vars PROVE OfferInv(p)'
    BY <1>21, <1>p, <1>c, <1>k, OfferStays DEF vars
  <1> QED
    BY <1>1, <1>2, <1>3, <1>4, <1>5, <1>6, <1>7, <1>8, <1>9, <1>10, <1>11, <1>12, <1>13,
       <1>14,
       <1>15, <1>16, <1>17, <1>18, <1>19, <1>20, <1>21, <1>22
    DEF Next, RunnerMessage, BrokerMessage

(* The initial state satisfies the invariants of the runners and offers. *)
LEMMA InitOffers == Init => RunnerInv /\ \A o \in Offer : OfferInv(o)
  <1> SUFFICES ASSUME Init PROVE RunnerInv /\ \A o \in Offer : OfferInv(o)
    OBVIOUS
  <1>1. RunnerInv
    BY DEF Init, RunnerInv, DownIsEmpty, UnknownIsDown, ofRunner
  <1>2. ASSUME NEW o \in Offer PROVE OfferInv(o)
    <2>1. o[1] \in Runner
      BY OfferFacts
    <2>2. /\ Range(pendingTaskOffers) = {} /\ Range(toBroker[o[1]]) = {} /\ Len(toBroker[o[1]]) = 0
          /\ Range(toRunner[o[1]]) = {}
      BY <2>1, EmptyRange DEF Init
    <2>3. /\ runnerAcceptRejects[o] = NoRequest /\ tasks[o] = NoRequest
          /\ runningTasks[o] = "none" /\ runner[o[1]] = "down"
      BY <2>1 DEF Init
    <2>4. ~Announced(o) /\ ~Cancelled(o)
      BY <2>2, <2>3 DEF Announced, Cancelled
    <2>5. AnnouncedOnce(o)
      BY <2>2 DEF AnnouncedOnce, Once
    <2> QED BY <2>3, <2>4, <2>5
            DEF OfferInv, NameIsNew, AttemptIsNew, CancelledIsGone, TaskHasEnd
  <1> QED BY <1>1, <1>2

BrokerInv == RequestInv /\ RunnerInv /\ \A o \in Offer : OfferInv(o)

(* The invariants hold together; each of them needs the others. *)
LEMMA BrokerHolds == Spec => [](TypeOK /\ BrokerInv)
  <1>1. Init => TypeOK /\ BrokerInv
    BY InitType, InitRequest, InitOffers DEF BrokerInv
  <1>2. (TypeOK /\ BrokerInv) /\ [Next]_vars => (TypeOK /\ BrokerInv)'
    <2> SUFFICES ASSUME TypeOK, BrokerInv, [Next]_vars PROVE TypeOK' /\ BrokerInv'
      OBVIOUS
    <2>1. RequestInv /\ RunnerInv /\ \A o \in Offer : OfferInv(o)
      BY DEF BrokerInv
    <2>2. TypeOK' /\ RequestInv' /\ RunnerInv'
      BY <2>1, TypeStep, RequestStep, RunnerStep
    <2>3. ASSUME NEW o \in Offer PROVE OfferInv(o)'
      BY <2>1, <2>2, OfferStep
    <2> QED BY <2>2, <2>3 DEF BrokerInv
  <1> QED BY <1>1, <1>2, PTL DEF Spec

(***************************************************************************)
(* The broker never waits for a task of a live runner that the runner has  *)
(* dropped: it is held, or its end is on the way, also when the broker     *)
(* learns of the acceptance only after the runner has given up on it.      *)
(***************************************************************************)
THEOREM BrokerKnowsLiveTasks == Spec => []TaskIsHeld
  <1>1. TypeOK /\ BrokerInv => TaskIsHeld
    <2> SUFFICES ASSUME TypeOK, BrokerInv, NEW o \in Offer, tasks[o] # NoRequest,
                        runner[o[1]] # "down", runningTasks[o] = "none"
                 PROVE  \E i \in 1 .. Len(toBroker[o[1]]) : toBroker[o[1]][i] \in results(o)
      BY DEF TaskIsHeld, results
    <2>1. PICK m \in results(o) : m \in Range(toBroker[o[1]])
      BY DEF BrokerInv, OfferInv, TaskHasEnd, EndIsKnown
    <2>2. toBroker[o[1]] \in Seq(ToBrokerMessage)
      BY OfferFacts DEF TypeOK
    <2> QED BY <2>1, <2>2, PlaceOfMessage
  <1> QED BY <1>1, BrokerHolds, PTL

-----------------------------------------------------------------------------
(* Calls and their tasks *)

(* A call that was told its task id has a task. *)
StartedIsKept(q) == startTask[q] = "started" => \E o \in Offer : tasks[o] = q

(* Every step keeps the tasks of the calls that run. *)
LEMMA StartedStep ==
    ASSUME TypeOK, BrokerInv, [Next]_vars, NEW q \in Request, StartedIsKept(q)
    PROVE  StartedIsKept(q)'
  <1> USE DEF brokerVars, runnerVars, bounds
  <1>t. /\ tasks \in [Offer -> Request \cup {NoRequest}] /\ NoRequest \notin Request
        /\ runnerAcceptRejects \in [Offer -> Request \cup {NoRequest}]
        /\ startTask \in [Request -> {"idle", "requested", "started", "done", "error"}]
    BY ConstantsAssumption DEF TypeOK
  <1>r. \A r \in Runner : \A o \in ofRunner(Offer, r) : o \in Offer
    BY DEF ofRunner
  <1>s. ASSUME NEW o \in Offer, NEW result \in {"done", "error"}, settleResult(o, result)
        PROVE  StartedIsKept(q)'
    <2>1. CASE tasks[o] = q
      BY <1>t, <1>s, <2>1 DEF settleResult, StartedIsKept
    <2>2. CASE tasks[o] # q
      <3>1. startTask'[q] = startTask[q]
        BY <1>t, <1>s, <2>2 DEF settleResult
      <3>2. \A x \in Offer : tasks[x] = q => tasks'[x] = q
        BY <1>t, <1>s, <2>2 DEF settleResult
      <3> QED BY <3>1, <3>2 DEF StartedIsKept
    <2> QED BY <2>1, <2>2
  <1>u. UNCHANGED <<tasks, startTask>> => StartedIsKept(q)'
    BY DEF StartedIsKept
  <1>1. ASSUME NEW c \in Request, StartTask(c) PROVE StartedIsKept(q)'
    BY <1>1, <1>t DEF StartTask, StartedIsKept
  <1>2. ASSUME NEW r \in Runner, NEW o \in ofRunner(Offer, r), TaskAccepted(r, o)
        PROVE  StartedIsKept(q)'
    <2>0. o \in Offer
      BY <1>r
    <2>1. CASE runnerAcceptRejects[o] = NoRequest
      BY <1>2, <1>u, <2>1 DEF TaskAccepted
    <2>2. CASE runnerAcceptRejects[o] # NoRequest
      <3>1. tasks[o] = NoRequest
        BY <2>0, <2>2 DEF BrokerInv, OfferInv, AttemptIsNew
      <3>2. /\ tasks' = [tasks EXCEPT ![o] = runnerAcceptRejects[o]]
            /\ startTask' = [startTask EXCEPT ![runnerAcceptRejects[o]] = "started"]
        BY <1>2, <2>0, <2>2, AcceptEffect DEF BrokerInv
      <3>3. \A x \in Offer : tasks[x] = q => tasks'[x] = q
        BY <1>t, <3>1, <3>2
      <3>4. runnerAcceptRejects[o] = q => tasks'[o] = q
        BY <1>t, <2>0, <3>2
      <3> QED BY <1>t, <2>0, <3>2, <3>3, <3>4 DEF StartedIsKept
    <2> QED BY <2>1, <2>2
  <1>3. ASSUME NEW r \in Runner, NEW o \in ofRunner(Offer, r),
               NEW kind \in {"taskdone", "taskerror"}, TaskEnded(r, o, kind)
        PROVE  StartedIsKept(q)'
    BY <1>3, <1>r, <1>s DEF TaskEnded
  <1>4. ASSUME NEW o \in Offer, TaskTimeout(o) PROVE StartedIsKept(q)'
    BY <1>4, <1>s DEF TaskTimeout
  <1>5. ASSUME NEW r \in Runner, DeregisterRunner(r) PROVE StartedIsKept(q)'
    BY <1>5, <1>t DEF DeregisterRunner, StartedIsKept
  <1>6. ASSUME NEW r \in Runner, NEW o \in ofRunner(Offer, r),
               TaskOffered(r, o) \/ TaskRejected(r, o) \/ TaskDeferred(r, o)
        PROVE  StartedIsKept(q)'
    BY <1>6, <1>u DEF TaskOffered, TaskRejected, TaskDeferred
  <1>7. ASSUME NEW r \in Runner,
               BrokerMessage(r) \/ Connect(r) \/ OfferInterval(r) \/ Stop(r) \/ StopDone(r) \/ Crash(r)
        PROVE  StartedIsKept(q)'
    BY <1>7, <1>u DEF BrokerMessage, StartTaskOffers, OfferAccepted, LauncherDefers,
       ReceivedSettings, TaskCancelled, Connect, OfferInterval, Stop, StopDone, Crash
  <1>8. ASSUME NEW o \in Offer,
               OfferLapses(o) \/ AcceptTimeout(o) \/ TaskTimedOut(o) \/ Ends(o)
        PROVE  StartedIsKept(q)'
    BY <1>8, <1>u DEF OfferLapses, AcceptTimeout, TaskTimedOut, Ends, ExecutionEnds
  <1>9. UNCHANGED vars => StartedIsKept(q)'
    BY <1>u DEF vars
  <1> QED BY <1>1, <1>2, <1>3, <1>4, <1>5, <1>6, <1>7, <1>8, <1>9 DEF Next, RunnerMessage

(***************************************************************************)
(* The requester and the broker agree on the calls that run: each has its  *)
(* task, whose end, timeout or loss will settle it, and a call that is     *)
(* settled or not yet accepted has none.                                   *)
(***************************************************************************)
THEOREM StartedCallsHaveTasks == Spec => []StartedHasTask
  <1> DEFINE Kept == \A q \in Request : StartedIsKept(q)
  <1>1. Init => Kept
    BY DEF Init, StartedIsKept
  <1>2. (TypeOK /\ BrokerInv) /\ Kept /\ [Next]_vars => Kept'
    BY StartedStep
  <1>3. TypeOK /\ BrokerInv /\ Kept => StartedHasTask
    BY ConstantsAssumption
       DEF BrokerInv, RequestInv, TaskIsStarted, StartedIsKept, StartedHasTask
  <1> HIDE DEF Kept
  <1> QED BY <1>1, <1>2, <1>3, BrokerHolds, PTL DEF Spec

-----------------------------------------------------------------------------
(* The dispatch of tasks *)

(* At the start no call is with a runner. *)
LEMMA InitDispatch == Init => TD!Init
  BY DEF Init, TD!Init

(* settleTasks puts waiting calls to free offers of their type. *)
LEMMA SettleDispatches ==
    ASSUME RequestInv', NEW offs, NEW reqs, NEW new,
           NEW taken \in SUBSET Offer, Settled(taken, offs, reqs),
           \A o \in Range(offs) : runnerAcceptRejects[o] = NoRequest /\ tasks[o] = NoRequest,
           startTask' = [c \in Request |-> IF c \in new THEN "requested" ELSE startTask[c]],
           tasks' = tasks
    PROVE  TD!Dispatch(new)
  <1>s. /\ taken \subseteq Range(offs)
        /\ runnerAcceptRejects' \in [Offer -> Request \cup {NoRequest}]
        /\ \A o \in Offer \ taken : runnerAcceptRejects'[o] = runnerAcceptRejects[o]
        /\ \A o \in taken : RequestType[runnerAcceptRejects'[o]] = OfferType(o)
    BY DEF Settled
  <1>1. ASSUME NEW o \in Offer, runnerAcceptRejects'[o] # runnerAcceptRejects[o]
        PROVE  /\ TD!IsFree(o)
               /\ startTask'[runnerAcceptRejects'[o]] = "requested"
               /\ [x \in Offer |-> OfferType(x)][o] = RequestType[runnerAcceptRejects'[o]]
               /\ \A p \in Offer \ {o} : runnerAcceptRejects'[p] # runnerAcceptRejects'[o]
    <2>1. o \in taken /\ runnerAcceptRejects[o] = NoRequest /\ tasks[o] = NoRequest
      BY <1>s, <1>1
    <2>2. /\ startTask'[runnerAcceptRejects'[o]] = "requested"
          /\ \A p \in Offer : runnerAcceptRejects'[p] = runnerAcceptRejects'[o] => p = o
      BY <1>1, <2>1 DEF RequestInv, AttemptIsMarked
    <2>3. [x \in Offer |-> OfferType(x)][o] = RequestType[runnerAcceptRejects'[o]]
      BY <1>s, <2>1
    <2> QED BY <2>1, <2>2, <2>3 DEF TD!IsFree
  <1> QED BY <1>s, <1>1 DEF TD!Dispatch

(* A failed acceptance takes the call back from the runner that was asked. *)
LEMMA FailDeclines ==
    ASSUME TypeOK, NEW o \in Offer, NEW reqs, acceptFails(o, reqs), UNCHANGED <<tasks, startTask>>
    PROVE  [TD!Next]_(TD!vars)
  <1>1. CASE runnerAcceptRejects[o] = NoRequest
    BY <1>1 DEF TypeOK, acceptFails, TD!vars
  <1>2. CASE runnerAcceptRejects[o] # NoRequest
    <2>1. TD!Decline(o)
      BY <1>2 DEF acceptFails, TD!Decline
    <2> QED BY <2>1 DEF TD!Next
  <1> QED BY <1>1, <1>2

(* The end of a task ends its call, if the broker knows the task. *)
LEMMA ResultEnds ==
    ASSUME TypeOK, RequestInv, NEW o \in Offer, NEW result \in {"done", "error"},
           settleResult(o, result), UNCHANGED runnerAcceptRejects
    PROVE  [TD!Next]_(TD!vars)
  <1>1. CASE tasks[o] = NoRequest
    BY <1>1 DEF TypeOK, settleResult, TD!vars
  <1>2. CASE tasks[o] # NoRequest
    <2>1. startTask[tasks[o]] = "started"
      BY <1>2 DEF RequestInv, TaskIsStarted
    <2>2. TD!End(o, result)
      BY <1>2, <2>1 DEF settleResult, TD!End
    <2> QED BY <2>2 DEF TD!Next
  <1> QED BY <1>1, <1>2

(* Every step of the broker is a step of the dispatch or none. *)
LEMMA DispatchStep ==
    ASSUME TypeOK, BrokerInv, BrokerInv', [Next]_vars
    PROVE  [TD!Next]_(TD!vars)
  <1> USE DEF brokerVars, runnerVars, bounds
  <1>t. /\ startTask \in [Request -> {"idle", "requested", "started", "done", "error"}]
        /\ pendingTaskRequests \in Seq(Request) /\ pendingTaskOffers \in Seq(Offer)
        /\ Range(pendingTaskOffers) \subseteq Offer
    BY RangeOfSeq DEF TypeOK
  <1>r. \A r \in Runner : \A o \in ofRunner(Offer, r) : o \in Offer /\ o[1] = r
    BY DEF ofRunner
  <1>i. RequestInv /\ RequestInv' /\ \A o \in Offer : OfferInv(o)
    BY DEF BrokerInv
  <1>n. \A o \in Offer : Announced(o) => runnerAcceptRejects[o] = NoRequest /\ tasks[o] = NoRequest
    BY <1>i DEF OfferInv, NameIsNew
  <1>u. UNCHANGED <<startTask, runnerAcceptRejects, tasks>> => UNCHANGED TD!vars
    BY DEF TD!vars
  <1>1. ASSUME NEW q \in Request, StartTask(q) PROVE TD!Next
    <2> DEFINE reqs == Append(pendingTaskRequests, q)
    <2>1. reqs \in Seq(Request)
      BY <1>t, AppendRange
    <2> HIDE DEF reqs
    <2>2. settleTasks(pendingTaskOffers, reqs) /\ tasks' = tasks
      BY <1>1 DEF StartTask, reqs
    <2>3. PICK taken \in SUBSET Offer : Settled(taken, pendingTaskOffers, reqs)
      BY <1>t, <2>1, <2>2, SettleEffect
    <2>4. startTask[q] = "idle"
          /\ startTask' = [c \in Request |-> IF c \in {q} THEN "requested" ELSE startTask[c]]
      BY <1>t, <1>1 DEF StartTask
    <2>5. \A o \in Range(pendingTaskOffers) :
             runnerAcceptRejects[o] = NoRequest /\ tasks[o] = NoRequest
      BY <1>t, <1>n DEF Announced
    <2>6. TD!Dispatch({q})
      BY <1>i, <2>2, <2>3, <2>4, <2>5, SettleDispatches
    <2> QED BY <2>4, <2>6 DEF TD!Come, TD!Next
  <1>2. ASSUME NEW r \in Runner, NEW o \in ofRunner(Offer, r), TaskOffered(r, o) PROVE TD!Next
    <2> DEFINE offs == Append(pendingTaskOffers, o)
    <2>0. o \in Offer /\ o[1] = r /\ receive(r, "taskoffer", o)
      BY <1>2, <1>r DEF TaskOffered
    <2>1. offs \in Seq(Offer) /\ Range(offs) = Range(pendingTaskOffers) \cup {o}
      BY <1>t, <2>0, AppendRange
    <2> HIDE DEF offs
    <2>2. settleTasks(offs, pendingTaskRequests) /\ tasks' = tasks /\ startTask' = startTask
      BY <1>2 DEF TaskOffered, offs
    <2>3. PICK taken \in SUBSET Offer : Settled(taken, offs, pendingTaskRequests)
      BY <1>t, <2>1, <2>2, SettleEffect
    <2>4. startTask' = [c \in Request |-> IF c \in {} THEN "requested" ELSE startTask[c]]
      BY <1>t, <2>2
    <2>5. Announced(o)
      <3>1. toBroker[r] \in Seq(ToBrokerMessage) /\ toBroker[r] # <<>>
            /\ Head(toBroker[r]) = message("taskoffer", o)
        BY <2>0 DEF TypeOK, receive
      <3>2. Head(toBroker[r]) \in Range(toBroker[r])
        BY <3>1, TailRange
      <3> QED BY <2>0, <3>1, <3>2 DEF Announced
    <2>6. \A x \in Range(offs) : runnerAcceptRejects[x] = NoRequest /\ tasks[x] = NoRequest
      BY <1>t, <1>n, <2>0, <2>1, <2>5 DEF Announced
    <2>7. TD!Dispatch({})
      BY <1>i, <2>2, <2>3, <2>4, <2>6, SettleDispatches
    <2> QED BY <2>7 DEF TD!Next
  <1>3. ASSUME NEW r \in Runner, NEW o \in ofRunner(Offer, r), TaskAccepted(r, o)
        PROVE  [TD!Next]_(TD!vars)
    <2>0. o \in Offer
      BY <1>r
    <2>1. CASE runnerAcceptRejects[o] = NoRequest
      BY <1>3, <1>u, <2>1 DEF TaskAccepted
    <2>2. CASE runnerAcceptRejects[o] # NoRequest
      <3>1. /\ runnerAcceptRejects' = [runnerAcceptRejects EXCEPT ![o] = NoRequest]
            /\ tasks' = [tasks EXCEPT ![o] = runnerAcceptRejects[o]]
            /\ startTask' = [startTask EXCEPT ![runnerAcceptRejects[o]] = "started"]
        BY <1>i, <1>3, <2>0, <2>2, AcceptEffect
      <3>2. startTask[runnerAcceptRejects[o]] = "requested"
        BY <1>i, <2>0, <2>2 DEF RequestInv, AttemptIsMarked
      <3>3. TD!Begin(o)
        BY <2>2, <3>1, <3>2 DEF TD!Begin
      <3> QED BY <2>0, <3>3 DEF TD!Next
    <2> QED BY <2>1, <2>2
  <1>4. ASSUME NEW r \in Runner, NEW o \in ofRunner(Offer, r), TaskRejected(r, o) \/ TaskDeferred(r, o)
        PROVE  [TD!Next]_(TD!vars)
    <2>1. PICK reqs : acceptFails(o, reqs)
      BY <1>4 DEF TaskRejected, TaskDeferred
    <2>2. o \in Offer /\ UNCHANGED <<tasks, startTask>>
      BY <1>4, <1>r DEF TaskRejected, TaskDeferred
    <2> QED BY <2>1, <2>2, FailDeclines
  <1>5. ASSUME NEW r \in Runner, NEW o \in ofRunner(Offer, r),
               NEW kind \in {"taskdone", "taskerror"}, TaskEnded(r, o, kind)
        PROVE  [TD!Next]_(TD!vars)
    <2>1. PICK result \in {"done", "error"} : settleResult(o, result)
      BY <1>5 DEF TaskEnded
    <2>2. o \in Offer /\ UNCHANGED runnerAcceptRejects
      BY <1>5, <1>r DEF TaskEnded
    <2> QED BY <1>i, <2>1, <2>2, ResultEnds
  <1>6. ASSUME NEW r \in Runner, DeregisterRunner(r) PROVE TD!Next
    <2> DEFINE P == ofRunner(Offer, r)
    <2>1. /\ tasks' = [o \in Offer |-> IF o[1] = r THEN NoRequest ELSE tasks[o]]
          /\ startTask' = [q \in Request |-> IF \E o \in Offer : o[1] = r /\ tasks[o] = q
                                             THEN "error" ELSE startTask[q]]
          /\ UNCHANGED runnerAcceptRejects
      BY <1>6 DEF DeregisterRunner
    <2>2. P \in SUBSET Offer /\ \A o \in Offer : o \in P <=> o[1] = r
      BY DEF ofRunner
    <2> HIDE DEF P
    <2>3. \A p \in P : tasks[p] # NoRequest => startTask[tasks[p]] = "started"
      BY <1>i, <2>2 DEF RequestInv, TaskIsStarted
    <2>4. tasks' = [p \in Offer |-> IF p \in P THEN NoRequest ELSE tasks[p]]
      BY <2>1, <2>2
    <2>5. startTask' = [c \in Request |-> IF \E p \in P : tasks[p] = c THEN "error" ELSE startTask[c]]
      <3>1. \A c : (\E o \in Offer : o[1] = r /\ tasks[o] = c) <=> \E p \in P : tasks[p] = c
        BY <2>2
      <3> QED BY <2>1, <3>1
    <2>6. TD!Lose(P)
      BY <2>1, <2>3, <2>4, <2>5 DEF TD!Lose
    <2> QED BY <2>2, <2>6 DEF TD!Next
  <1>7. ASSUME NEW o \in Offer, AcceptTimeout(o) PROVE [TD!Next]_(TD!vars)
    BY <1>7, FailDeclines DEF AcceptTimeout
  <1>8. ASSUME NEW o \in Offer, TaskTimeout(o) PROVE [TD!Next]_(TD!vars)
    BY <1>i, <1>8, ResultEnds DEF TaskTimeout
  <1>9. ASSUME NEW r \in Runner,
               BrokerMessage(r) \/ Connect(r) \/ OfferInterval(r) \/ Stop(r) \/ StopDone(r) \/ Crash(r)
        PROVE  UNCHANGED TD!vars
    BY <1>9, <1>u DEF BrokerMessage, StartTaskOffers, OfferAccepted, LauncherDefers,
       ReceivedSettings, TaskCancelled, Connect, OfferInterval, Stop, StopDone, Crash
  <1>10. ASSUME NEW o \in Offer, OfferLapses(o) \/ TaskTimedOut(o) \/ Ends(o)
         PROVE  UNCHANGED TD!vars
    BY <1>10, <1>u DEF OfferLapses, TaskTimedOut, Ends, ExecutionEnds
  <1>11. UNCHANGED vars => UNCHANGED TD!vars
    BY <1>u DEF vars
  <1> QED BY <1>1, <1>2, <1>3, <1>4, <1>5, <1>6, <1>7, <1>8, <1>9, <1>10, <1>11
          DEF Next, RunnerMessage

(***************************************************************************)
(* Broker and requester are a dispatch of tasks: every step of them, of    *)
(* the runners and of the network puts waiting calls to free runners of    *)
(* their type, takes one back, begins it, ends it or loses it with its     *)
(* runner, or is no step of the dispatch at all (settleTasks, acceptOffer, *)
(* onRunnerMessage, handleTaskTimeout, deregisterRunner).                  *)
(***************************************************************************)
THEOREM ImplementsTaskDispatch == Spec => IsTaskDispatch
  <1>1. (TypeOK /\ BrokerInv) /\ (TypeOK /\ BrokerInv)' /\ [Next]_vars => [TD!Next]_(TD!vars)
    BY DispatchStep
  <1> QED BY <1>1, InitDispatch, BrokerHolds, PTL DEF Spec, IsTaskDispatch, TD!Spec

-----------------------------------------------------------------------------
(* The slots of a runner *)

(* Offers and tasks of r that leave it within its concurrency. *)
Fits(r, offers, held) ==
    Cardinality(ofRunner(offers, r)) + Cardinality(ofRunner(held, r)) <= MaxConcurrency

(* Sets of offers are finite. *)
LEMMA OffersFinite ==
    ASSUME NEW r, NEW S \in SUBSET Offer
    PROVE  /\ IsFiniteSet(ofRunner(S, r)) /\ Cardinality(ofRunner(S, r)) \in Nat
           /\ \A T \in SUBSET S : Cardinality(ofRunner(T, r)) <= Cardinality(ofRunner(S, r))
  <1>1. ofRunner(S, r) \subseteq Offer /\ \A T \in SUBSET S : ofRunner(T, r) \subseteq ofRunner(S, r)
    BY DEF ofRunner
  <1>2. IsFiniteSet(ofRunner(S, r))
    BY <1>1, OfferFacts, FS_Subset
  <1>3. \A T \in SUBSET S : Cardinality(ofRunner(T, r)) <= Cardinality(ofRunner(S, r))
    BY <1>1, <1>2, FS_Subset
  <1> QED BY <1>2, <1>3, FS_CardinalityType

(* With fewer offers and tasks a runner still fits. *)
LEMMA FewerFit ==
    ASSUME NEW r, NEW S \in SUBSET Offer, NEW H \in SUBSET Offer, Fits(r, S, H),
           NEW T \in SUBSET S, NEW G \in SUBSET H
    PROVE  Fits(r, T, G)
  <1>1. T \in SUBSET Offer /\ G \in SUBSET Offer
    OBVIOUS
  <1> QED BY <1>1, OffersFinite, ConstantsAssumption DEF Fits

(* An offer that becomes a task takes the slot it had. *)
LEMMA TaskTakesSlot ==
    ASSUME NEW r, NEW S \in SUBSET Offer, NEW H \in SUBSET Offer, Fits(r, S, H), NEW o \in S,
           NEW G \in SUBSET (H \cup {o})
    PROVE  Fits(r, S \ {o}, G)
  <1>1. CASE o[1] = r
    <2>1. /\ ofRunner(S \ {o}, r) = ofRunner(S, r) \ {o} /\ o \in ofRunner(S, r)
          /\ ofRunner(H \cup {o}, r) = ofRunner(H, r) \cup {o}
      BY <1>1 DEF ofRunner
    <2>2. /\ IsFiniteSet(ofRunner(S, r)) /\ Cardinality(ofRunner(S, r)) \in Nat
          /\ IsFiniteSet(ofRunner(H, r)) /\ Cardinality(ofRunner(H, r)) \in Nat
      BY OffersFinite
    <2>3. Cardinality(ofRunner(S \ {o}, r)) = Cardinality(ofRunner(S, r)) - 1
      <3> DEFINE A == ofRunner(S, r)
      <3>1. IsFiniteSet(A) /\ o \in A
        BY <2>1, <2>2
      <3> HIDE DEF A
      <3>2. Cardinality(A \ {o}) = Cardinality(A) - 1
        BY <3>1, FS_RemoveElement
      <3> QED BY <2>1, <3>2 DEF A
    <2>4. Cardinality(ofRunner(H \cup {o}, r)) \in {Cardinality(ofRunner(H, r)),
                                                   Cardinality(ofRunner(H, r)) + 1}
      BY <2>1, <2>2, FS_AddElement
    <2>5. Fits(r, S \ {o}, H \cup {o})
      BY <2>2, <2>3, <2>4, ConstantsAssumption DEF Fits
    <2>6. S \ {o} \in SUBSET Offer /\ H \cup {o} \in SUBSET Offer
      OBVIOUS
    <2> QED BY <2>5, <2>6, FewerFit
  <1>2. CASE o[1] # r
    <2>1. ofRunner(S \ {o}, r) = ofRunner(S, r) /\ ofRunner(G, r) = ofRunner(G \cap H, r)
      BY <1>2 DEF ofRunner
    <2>2. Fits(r, S, G \cap H)
      BY FewerFit
    <2> QED BY <2>1, <2>2 DEF Fits
  <1> QED BY <1>1, <1>2

(* New offers take slots that are left. *)
LEMMA OffersFit ==
    ASSUME TypeOK, NEW r \in Runner, NEW x \in Runner, Fits(x, openOffers, Held),
           NEW held \in SUBSET Held, NEW done, NEW new, NEW ms,
           NEW stale \in SUBSET ofRunner(openOffers, r),
           OffersSent(new, ms, r, stale, held, done)
    PROVE  Fits(x, openOffers', held)
  <1>s. /\ new \subseteq ofRunner(Offer, r) /\ openOffers' = (openOffers \ stale) \cup new
        /\ IsFiniteSet(new)
        /\ \/ new = {}
           \/ Cardinality(new) <= MaxConcurrency - (Cardinality(ofRunner(openOffers, r) \ stale)
                                                      + Cardinality(ofRunner(held, r)))
    BY DEF OffersSent
  <1>t. openOffers \in SUBSET Offer /\ Held \in SUBSET Offer /\ held \in SUBSET Offer
    BY DEF TypeOK, Held
  <1>1. Fits(x, openOffers \ stale, held)
    BY <1>t, FewerFit
  <1>2. CASE x # r \/ new = {}
    <2>1. ofRunner(openOffers', x) = ofRunner(openOffers \ stale, x)
      BY <1>s, <1>2 DEF ofRunner
    <2> QED BY <1>1, <2>1 DEF Fits
  <1>3. CASE x = r /\ new # {}
    <2> DEFINE kept == ofRunner(openOffers, r) \ stale
    <2>1. /\ ofRunner(openOffers', r) = kept \cup new /\ kept = ofRunner(openOffers \ stale, r)
      BY <1>s DEF ofRunner
    <2>2. openOffers \ stale \in SUBSET Offer
      BY <1>t
    <2>3. IsFiniteSet(kept) /\ Cardinality(kept) \in Nat
      BY <2>1, <2>2, OffersFinite
    <2>4. Cardinality(ofRunner(held, r)) \in Nat
      BY <1>t, OffersFinite
    <2>5. Cardinality(new) <= MaxConcurrency - (Cardinality(kept) + Cardinality(ofRunner(held, r)))
      BY <1>s, <1>3
    <2> HIDE DEF kept
    <2>6. Cardinality(kept \cup new) <= Cardinality(kept) + Cardinality(new)
          /\ Cardinality(kept \cup new) \in Nat /\ Cardinality(new) \in Nat
      <3>1. Cardinality(kept \cup new) = Cardinality(kept) + Cardinality(new)
                                           - Cardinality(kept \cap new)
            /\ IsFiniteSet(kept \cup new)
        BY <1>s, <2>3, FS_Union
      <3>2. IsFiniteSet(kept \cap new)
        BY <2>3, FS_Subset
      <3>3. /\ Cardinality(kept \cap new) \in Nat /\ Cardinality(kept \cup new) \in Nat
            /\ Cardinality(new) \in Nat
        BY <1>s, <3>1, <3>2, FS_CardinalityType
      <3> QED BY <2>3, <3>1, <3>3
    <2>7. Cardinality(ofRunner(openOffers', r)) = Cardinality(kept \cup new)
      BY <2>1
    <2> QED BY <1>3, <2>3, <2>4, <2>5, <2>6, <2>7, ConstantsAssumption DEF Fits
  <1> QED BY <1>2, <1>3

(* Every step keeps the runners within their concurrency. *)
LEMMA ConcurrencyStep ==
    ASSUME TypeOK, [Next]_vars, NEW x \in Runner, Fits(x, openOffers, Held)
    PROVE  Fits(x, openOffers', Held')
  <1> USE DEF brokerVars, runnerVars, bounds
  <1>t. /\ openOffers \in SUBSET Offer /\ Held \in SUBSET Offer
        /\ runningTasks \in [Offer -> TaskStatus \cup {"none"}]
        /\ <<>> \in Seq(ToBrokerMessage)
        /\ \A m \in ToBrokerMessage : <<m>> \in Seq(ToBrokerMessage)
    BY EmptySeq DEF TypeOK, Held
  <1>h. \A o \in Offer : runningTasks[o] # "none" <=> o \in Held
    BY DEF Held
  <1>i. \A o \in Offer : runningTasks'[o] # "none" <=> o \in Held'
    BY DEF Held
  <1>j. Held' \subseteq Offer
    BY DEF Held
  <1>r. \A r \in Runner : \A o \in ofRunner(Offer, r) : o \in Offer
    BY DEF ofRunner
  <1>f. ASSUME openOffers' \subseteq openOffers,
               \A o \in Offer : runningTasks[o] = "none" => runningTasks'[o] = "none"
        PROVE  Fits(x, openOffers', Held')
    <2>1. Held' \in SUBSET Held
      BY <1>f, <1>h, <1>i, <1>j
    <2> QED BY <1>t, <1>f, <2>1, FewerFit
  <1>g. ASSUME NEW r \in Runner, gone(r) PROVE Fits(x, openOffers', Held')
    BY <1>t, <1>f, <1>g DEF gone
  <1>d. ASSUME NEW o \in Offer, NEW done \in Seq(ToBrokerMessage), finishTask(o, done)
        PROVE  Fits(x, openOffers', Held')
    <2>1. PICK stale \in SUBSET ofRunner(openOffers, o[1]) : \E new, ms :
             OffersSent(new, ms, o[1], stale, Held \ {o}, done)
      BY <1>d, FinishType
    <2>2. PICK new, ms : OffersSent(new, ms, o[1], stale, Held \ {o}, done)
      BY <2>1
    <2>3. o[1] \in Runner /\ Held \ {o} \in SUBSET Held
      BY OfferFacts
    <2>4. Fits(x, openOffers', Held \ {o})
      BY <2>2, <2>3, OffersFit
    <2>5. runningTasks' = [runningTasks EXCEPT ![o] = "none"]
      BY <1>d DEF finishTask
    <2>6. Held' = Held \ {o}
      BY <1>t, <2>5 DEF Held
    <2> QED BY <2>4, <2>6
  <1>u. UNCHANGED <<openOffers, runningTasks>> => Fits(x, openOffers', Held')
    BY <1>f
  <1>1. ASSUME NEW r \in Runner, NEW o \in ofRunner(Offer, r), OfferAccepted(r, o)
        PROVE  Fits(x, openOffers', Held')
    <2>0. o \in Offer /\ openOffers' = openOffers \ {o}
      BY <1>1, <1>r DEF OfferAccepted
    <2>1. CASE UNCHANGED runningTasks
      BY <1>f, <2>0, <2>1
    <2>2. CASE o \in openOffers /\ runningTasks' = [runningTasks EXCEPT ![o] = "waitingForSettings"]
      <3>1. Held' \in SUBSET (Held \cup {o})
        BY <1>t, <2>2 DEF Held
      <3> QED BY <1>t, <2>0, <2>2, <3>1, TaskTakesSlot
    <2> QED BY <1>1, <2>1, <2>2 DEF OfferAccepted
  <1>2. ASSUME NEW r \in Runner, NEW o \in ofRunner(Offer, r), LauncherDefers(r, o)
        PROVE  Fits(x, openOffers', Held')
    BY <1>2, <1>f DEF LauncherDefers
  <1>3. ASSUME NEW r \in Runner, NEW o \in ofRunner(Offer, r), ReceivedSettings(r, o)
        PROVE  Fits(x, openOffers', Held')
    BY <1>3, <1>t, <1>f DEF ReceivedSettings
  <1>4. ASSUME NEW r \in Runner, NEW o \in ofRunner(Offer, r), TaskCancelled(r, o)
        PROVE  Fits(x, openOffers', Held')
    <2>1. CASE finishTask(o, <<>>)
      BY <1>d, <1>r, <1>t, <2>1
    <2>2. CASE /\ runningTasks' = [runningTasks EXCEPT ![o] =
                                    IF @ = "running" THEN "aborting:cancelled" ELSE @]
               /\ UNCHANGED openOffers
      BY <1>t, <1>f, <2>2
    <2> QED BY <1>4, <2>1, <2>2 DEF TaskCancelled
  <1>5. ASSUME NEW r \in Runner, OfferInterval(r) PROVE Fits(x, openOffers', Held')
    <2>1. PICK stale \in SUBSET ofRunner(openOffers, r) : sendOffers(r, stale, Held, <<>>)
      BY <1>5 DEF OfferInterval
    <2>2. PICK new, ms : OffersSent(new, ms, r, stale, Held, <<>>)
      BY <1>t, <2>1, SendEffect
    <2>3. Fits(x, openOffers', Held)
      BY <2>2, OffersFit
    <2>4. Held' = Held
      BY <1>5 DEF OfferInterval, Held
    <2> QED BY <2>3, <2>4
  <1>6. ASSUME NEW r \in Runner, StopDone(r) \/ Crash(r) PROVE Fits(x, openOffers', Held')
    BY <1>6, <1>g DEF StopDone, Crash
  <1>7. ASSUME NEW o \in Offer, TaskTimeout(o) PROVE Fits(x, openOffers', Held')
    BY <1>7, <1>g, <1>u, OfferFacts DEF TaskTimeout
  <1>8. ASSUME NEW o \in Offer, TaskTimedOut(o) PROVE Fits(x, openOffers', Held')
    <2>1. CASE finishTask(o, <<message("taskerror", o)>>)
      BY <1>d, <1>t, <2>1, MessageTypes
    <2>2. CASE /\ runningTasks[o] = "running" /\ UNCHANGED openOffers
               /\ runningTasks' = [runningTasks EXCEPT ![o] = "aborting:timeout"]
      BY <1>t, <1>f, <2>2
    <2> QED BY <1>8, <2>1, <2>2 DEF TaskTimedOut
  <1>9. ASSUME NEW o \in Offer, Ends(o) PROVE Fits(x, openOffers', Held')
    <2>1. PICK kind \in {"taskdone", "taskerror"} : ExecutionEnds(o, kind)
      BY <1>9 DEF Ends
    <2>2. message(kind, o) \in ToBrokerMessage
      BY MessageTypes
    <2>3. <<message(kind, o)>> \in Seq(ToBrokerMessage)
      BY <1>t, <2>2
    <2> QED BY <1>d, <1>t, <2>1, <2>3 DEF ExecutionEnds
  <1>10. ASSUME NEW r \in Runner,
                RunnerMessage(r) \/ StartTaskOffers(r) \/ Connect(r) \/ DeregisterRunner(r) \/ Stop(r)
         PROVE  Fits(x, openOffers', Held')
    BY <1>10, <1>u DEF RunnerMessage, TaskOffered, TaskAccepted, TaskRejected, TaskDeferred,
       TaskEnded, StartTaskOffers, Connect, DeregisterRunner, Stop
  <1>11. ASSUME NEW o \in Offer, OfferLapses(o) \/ AcceptTimeout(o)
         PROVE  Fits(x, openOffers', Held')
    BY <1>11, <1>u DEF OfferLapses, AcceptTimeout
  <1>12. ASSUME NEW q \in Request, StartTask(q) PROVE Fits(x, openOffers', Held')
    BY <1>12, <1>u DEF StartTask
  <1>13. UNCHANGED vars => Fits(x, openOffers', Held')
    BY <1>u DEF vars
  <1> QED
    BY <1>1, <1>2, <1>3, <1>4, <1>5, <1>6, <1>7, <1>8, <1>9, <1>10, <1>11, <1>12, <1>13
    DEF Next, BrokerMessage

(***************************************************************************)
(* Offers and tasks together never exceed what a runner can execute, for   *)
(* any concurrency and any number of names: a runner that drops stale      *)
(* offers, finishes tasks late or is canceled never offers a slot twice.   *)
(***************************************************************************)
THEOREM RunnersAreNotOverloaded == Spec => []WithinConcurrency
  <1> DEFINE Within == \A x \in Runner : Fits(x, openOffers, Held)
  <1>1. Init => Within
    <2> SUFFICES ASSUME Init, NEW x \in Runner PROVE Fits(x, openOffers, Held)
      OBVIOUS
    <2>1. ofRunner(openOffers, x) = {} /\ ofRunner(Held, x) = {}
      BY DEF Init, ofRunner, Held
    <2> QED BY <2>1, FS_EmptySet, ConstantsAssumption DEF Fits
  <1>2. TypeOK /\ Within /\ [Next]_vars => Within'
    BY ConcurrencyStep DEF Fits
  <1>3. Within => WithinConcurrency
    BY DEF Fits, WithinConcurrency
  <1> HIDE DEF Within
  <1> QED BY <1>1, <1>2, <1>3, TypeCorrect, PTL DEF Spec

=============================================================================
