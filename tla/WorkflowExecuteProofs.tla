----------------------- MODULE WorkflowExecuteProofs -----------------------
(***************************************************************************)
(* Proofs about WorkflowExecute, for any workflows, with any numbers of    *)
(* nodes, outputs and runs, and for all cancellations, failures, waits,    *)
(* resumptions and retries of their executions.                            *)
(***************************************************************************)
EXTENDS WorkflowExecute, FiniteSetTheorems, SequenceTheorems, WellFoundedInduction, TLAPS

-----------------------------------------------------------------------------
(* Sequences and sets *)

(* The least member of a set of numbers is one of them. *)
LEMMA LeastIsMember ==
    ASSUME NEW S, S # {}, S \subseteq Nat
    PROVE  Min(S) \in S /\ \A x \in S : Min(S) <= x
  <1>1. PICK i \in S : \A j \in S : <<j, i>> \notin OpToRel(<, Nat)
    BY NatLessThanWellFounded, WFMin, Zenon
  <1>2. \A j \in S : ~(j < i)
    BY <1>1, Zenon DEF OpToRel
  <1>3. \E x \in S : \A y \in S : x <= y
    BY <1>2
  <1> QED BY <1>3 DEF Min

(* Some member of a set of subsets of a finite set has no other below it:  *)
(* this stands for induction.                                              *)
LEMMA SmallestSet ==
    ASSUME NEW C, IsFiniteSet(C), NEW P, P \subseteq SUBSET C, P # {}
    PROVE  \E A \in P : \A B \in P : B \subseteq A => B = A
  <1>1. IsWellFoundedOn(StrictSubsetOrdering(C), FiniteSubsetsOf(C))
    BY FS_StrictSubsetOrderingWellFounded
  <1>2. FiniteSubsetsOf(C) = SUBSET C
    BY FS_FiniteSubsetsOfFinite
  <1>3. PICK A \in P : \A B \in P : ~(<<B, A>> \in StrictSubsetOrdering(C))
    BY <1>1, <1>2, WFMin, Zenon
  <1>4. ASSUME NEW B \in P, B \subseteq A PROVE B = A
    <2>1. ~(<<B, A>> \in StrictSubsetOrdering(C))
      BY <1>3
    <2>2. A \in SUBSET C /\ B \in SUBSET C
      OBVIOUS
    <2> QED BY <1>4, <2>1, <2>2 DEF StrictSubsetOrdering
  <1> QED BY <1>4

(* The entries of a sequence with one more at its end. *)
LEMMA AppendLast ==
    ASSUME NEW S, NEW s \in Seq(S), NEW x \in S
    PROVE  /\ Append(s, x) \in Seq(S) /\ Append(s, x) # <<>>
           /\ Len(Append(s, x)) = Len(s) + 1 /\ Last(Append(s, x)) = x
  <1>1. /\ Append(s, x) \in Seq(S) /\ Len(Append(s, x)) = Len(s) + 1 /\ Len(s) \in Nat
        /\ Append(s, x)[Len(s) + 1] = x
    BY AppendProperties, LenProperties
  <1>2. Append(s, x) # <<>>
    BY <1>1, EmptySeq
  <1> QED BY <1>1, <1>2 DEF Last

-----------------------------------------------------------------------------
(* The end is reported *)

(* The run that is returned has been made. *)
made == phase \in {"reporting", "closing", "done"}

reportedBy(by) == \E k \in DOMAIN reports : reports[k].by = by

(* A report of the status that is returned, with only an abort after it. *)
ResultIsReported ==
    \E k \in DOMAIN reports : reports[k].status = result /\ onlyAbortAfter(k)

(* Who reports after whom. *)
ReportsInOrder ==
    \A j, k \in DOMAIN reports : j < k =>
        /\ reports[j].by # reports[k].by
        /\ reports[k].by # "loop"
        /\ reports[j].by = "catch" => reports[k].by = "abort"

(***************************************************************************)
(* What the reports of the end of an execution are in each phase.  The     *)
(* abort reports at once, that the execution is canceled; else nothing is  *)
(* reported before the run that is returned is made.                       *)
(***************************************************************************)
ReportInv ==
    /\ reports \in Seq(Report)
    /\ status \in {"running", "canceled"}
    /\ aborted \in BOOLEAN
    /\ aborted => status = "canceled"
    /\ aborted <=> reportedBy("abort")
    /\ \A k \in DOMAIN reports : reports[k].by = "abort" => reports[k].status = "canceled"
    /\ reportedBy("loop") => made
    /\ reportedBy("catch") => phase \in {"closing", "done"}
    /\ made => ResultIsReported
    /\ ReportsInOrder

(* One more report. *)
LEMMA OneMoreReport ==
    ASSUME reports \in Seq(Report), NEW x \in Report, reports' = Append(reports, x)
    PROVE  /\ reports' \in Seq(Report)
           /\ \A k \in DOMAIN reports : /\ k \in DOMAIN reports' /\ k < Len(reports) + 1
                                        /\ reports'[k] = reports[k]
           /\ Len(reports) + 1 \in DOMAIN reports' /\ reports'[Len(reports) + 1] = x
           /\ \A k \in DOMAIN reports' : k \in DOMAIN reports \/ k = Len(reports) + 1
           /\ \A by : reportedBy(by)' <=> reportedBy(by) \/ by = x.by
           /\ \A k \in DOMAIN reports' : ~(Len(reports) + 1 < k)
  <1>1. /\ Len(reports) \in Nat /\ DOMAIN reports = 1 .. Len(reports)
        /\ reports' \in Seq(Report) /\ Len(reports') = Len(reports) + 1
        /\ DOMAIN reports' = 1 .. Len(reports) + 1
        /\ reports'[Len(reports) + 1] = x
        /\ \A k \in 1 .. Len(reports) : reports'[k] = reports[k]
    BY AppendProperties, LenProperties
  <1>2. /\ \A k \in DOMAIN reports : /\ k \in DOMAIN reports' /\ k < Len(reports) + 1
                                     /\ reports'[k] = reports[k]
        /\ Len(reports) + 1 \in DOMAIN reports'
        /\ \A k \in DOMAIN reports' : k \in DOMAIN reports \/ k = Len(reports) + 1
        /\ \A k \in DOMAIN reports' : ~(Len(reports) + 1 < k)
    BY <1>1
  <1>3. \A by : reportedBy(by)' <=> reportedBy(by) \/ by = x.by
    BY <1>1, <1>2 DEF reportedBy
  <1> QED BY <1>1, <1>2, <1>3

(* Without an abort nothing is reported before the run is made. *)
LEMMA NothingReported ==
    ASSUME ReportInv, ~made
    PROVE  /\ \A k \in DOMAIN reports : reports[k].by = "abort"
           /\ ~aborted => DOMAIN reports = {}
  <1>1. ASSUME NEW k \in DOMAIN reports PROVE reports[k].by \in {"loop", "abort", "catch"}
    <2>1. reports[k] \in Report
      BY DEF ReportInv
    <2> QED BY <2>1 DEF Report
  <1>2. ~reportedBy("loop") /\ ~reportedBy("catch")
    BY DEF ReportInv, made
  <1> QED BY <1>1, <1>2 DEF ReportInv, reportedBy

(* The loop or the handler of rejections reports what is returned. *)
LEMMA OwnReport ==
    ASSUME ReportInv, NEW x \in Report, reports' = Append(reports, x), x.status = result',
           UNCHANGED <<status, aborted>>,
           \/ /\ x.by = "loop" /\ ~aborted /\ ~made /\ phase' = "reporting"
           \/ /\ x.by = "catch" /\ phase \notin {"closing", "done"} /\ phase' = "closing"
    PROVE  ReportInv'
  <1> PICK l : l = Len(reports) + 1
    OBVIOUS
  <1>1. /\ reports' \in Seq(Report)
        /\ \A k \in DOMAIN reports : k \in DOMAIN reports' /\ k < l /\ reports'[k] = reports[k]
        /\ l \in DOMAIN reports' /\ reports'[l] = x
        /\ \A k \in DOMAIN reports' : k \in DOMAIN reports \/ k = l
        /\ \A by : reportedBy(by)' <=> reportedBy(by) \/ by = x.by
        /\ \A k \in DOMAIN reports' : ~(l < k)
    BY OneMoreReport DEF ReportInv
  <1>2. ResultIsReported'
    BY <1>1 DEF ResultIsReported, onlyAbortAfter
  <1>3. /\ \A k \in DOMAIN reports : reports[k].by # x.by /\ reports[k].by # "catch"
        /\ x.by = "loop" => DOMAIN reports = {}
    BY NothingReported DEF ReportInv, reportedBy, made
  <1>4. ReportsInOrder'
    <2> SUFFICES ASSUME NEW j \in DOMAIN reports', NEW k \in DOMAIN reports', j < k
                 PROVE  /\ reports'[j].by # reports'[k].by
                        /\ reports'[k].by # "loop"
                        /\ reports'[j].by = "catch" => reports'[k].by = "abort"
      BY DEF ReportsInOrder
    <2>1. j \in DOMAIN reports
      BY <1>1
    <2>2. CASE k \in DOMAIN reports
      BY <1>1, <2>1, <2>2 DEF ReportInv, ReportsInOrder
    <2>3. CASE k = l
      BY <1>1, <1>3, <2>1, <2>3
    <2> QED BY <1>1, <2>2, <2>3
  <1>5. \A k \in DOMAIN reports' : reports'[k].by = "abort" => reports'[k].status = "canceled"
    BY <1>1 DEF ReportInv
  <1>6. /\ aborted' <=> reportedBy("abort")'
        /\ reportedBy("loop")' => made'
        /\ reportedBy("catch")' => phase' \in {"closing", "done"}
    BY <1>1 DEF ReportInv, made
  <1> QED BY <1>1, <1>2, <1>4, <1>5, <1>6 DEF ReportInv

(* The way out of the loop. *)
LEMMA ProcessSuccessReports ==
    ASSUME ReportInv, ~made, NEW outcome \in Result, processSuccessExecution(outcome),
           UNCHANGED <<status, aborted>>
    PROVE  ReportInv'
  <1>1. result' \in Result
    BY DEF processSuccessExecution, Result
  <1>2. CASE ~aborted
    <2> PICK x : x = [status |-> result', by |-> "loop"]
      OBVIOUS
    <2>1. x \in Report /\ x.status = result' /\ x.by = "loop"
      BY <1>1 DEF Report
    <2>2. reports' = Append(reports, x) /\ phase' = "reporting"
      BY <1>2 DEF processSuccessExecution
    <2> QED BY <1>2, <2>1, <2>2, OwnReport
  <1>3. CASE aborted
    <2>1. reports' = reports /\ phase' = "closing" /\ result' = "canceled"
      BY <1>3 DEF processSuccessExecution, ReportInv
    <2>2. ResultIsReported'
      <3>1. PICK k \in DOMAIN reports : reports[k].by = "abort" /\ reports[k].status = "canceled"
        BY <1>3 DEF ReportInv, reportedBy
      <3>2. \A j \in DOMAIN reports : reports[j].by = "abort"
        BY NothingReported
      <3> QED BY <2>1, <3>1, <3>2 DEF ResultIsReported, onlyAbortAfter
    <2> QED BY <1>3, <2>1, <2>2 DEF ReportInv, reportedBy, ReportsInOrder, made
  <1> QED BY <1>2, <1>3

(* A rejection is caught. *)
LEMMA CatchReports ==
    ASSUME ReportInv, phase \notin {"closing", "done"}, catch, UNCHANGED <<status, aborted>>
    PROVE  ReportInv'
  <1> PICK x : x = [status |-> result', by |-> "catch"]
    OBVIOUS
  <1>1. result' \in Result
    BY DEF catch, Result
  <1>2. x \in Report /\ x.status = result' /\ x.by = "catch"
    BY <1>1 DEF Report
  <1>3. reports' = Append(reports, x) /\ phase' = "closing"
    BY DEF catch
  <1> QED BY <1>2, <1>3, OwnReport

(* The abort. *)
LEMMA CancelReports ==
    ASSUME ReportInv, Cancel
    PROVE  ReportInv'
  <1> PICK x : x = [status |-> "canceled", by |-> "abort"]
    OBVIOUS
  <1>1. x \in Report /\ x.status = "canceled" /\ x.by = "abort"
    BY DEF Report, Result
  <1>2. /\ reports' = Append(reports, x) /\ status' = "canceled" /\ aborted' = TRUE /\ ~aborted
        /\ UNCHANGED <<phase, result>>
    BY DEF Cancel
  <1> PICK l : l = Len(reports) + 1
    OBVIOUS
  <1>3. /\ reports' \in Seq(Report)
        /\ \A k \in DOMAIN reports : k \in DOMAIN reports' /\ k < l /\ reports'[k] = reports[k]
        /\ l \in DOMAIN reports' /\ reports'[l] = x
        /\ \A k \in DOMAIN reports' : k \in DOMAIN reports \/ k = l
        /\ \A by : reportedBy(by)' <=> reportedBy(by) \/ by = x.by
        /\ \A k \in DOMAIN reports' : ~(l < k)
    BY <1>1, <1>2, OneMoreReport DEF ReportInv
  <1>4. ASSUME made PROVE ResultIsReported'
    <2>1. PICK k \in DOMAIN reports : reports[k].status = result /\ onlyAbortAfter(k)
      BY <1>4 DEF ReportInv, ResultIsReported
    <2>2. k \in DOMAIN reports' /\ reports'[k].status = result'
      BY <1>2, <1>3, <2>1
    <2>3. \A j \in DOMAIN reports' : j > k => reports'[j].by = "abort"
      BY <1>1, <1>3, <2>1 DEF onlyAbortAfter
    <2> QED BY <2>2, <2>3 DEF ResultIsReported, onlyAbortAfter
  <1>5. \A k \in DOMAIN reports : reports[k].by # "abort"
    BY <1>2 DEF ReportInv, reportedBy
  <1>6. ReportsInOrder'
    <2> SUFFICES ASSUME NEW j \in DOMAIN reports', NEW k \in DOMAIN reports', j < k
                 PROVE  /\ reports'[j].by # reports'[k].by
                        /\ reports'[k].by # "loop"
                        /\ reports'[j].by = "catch" => reports'[k].by = "abort"
      BY DEF ReportsInOrder
    <2>1. j \in DOMAIN reports
      BY <1>3
    <2>2. CASE k \in DOMAIN reports
      BY <1>3, <2>1, <2>2 DEF ReportInv, ReportsInOrder
    <2>3. CASE k = l
      BY <1>1, <1>3, <1>5, <2>1, <2>3
    <2> QED BY <1>3, <2>2, <2>3
  <1>7. \A k \in DOMAIN reports' : reports'[k].by = "abort" => reports'[k].status = "canceled"
    BY <1>1, <1>3, <1>5
  <1>8. /\ reportedBy("abort")'
        /\ reportedBy("loop")' => made'
        /\ reportedBy("catch")' => phase' \in {"closing", "done"}
    BY <1>1, <1>2, <1>3 DEF ReportInv, made
  <1> QED BY <1>2, <1>3, <1>4, <1>6, <1>7, <1>8 DEF ReportInv, made

(* A new instance has reported nothing. *)
LEMMA GoesOnReports ==
    ASSUME NEW start \in {"loop", "starting"}, goesOn(start)
    PROVE  ReportInv'
  <1>1. reports' = <<>> /\ <<>> \in Seq(Report) /\ DOMAIN <<>> = {}
    BY EmptySeq DEF goesOn
  <1> QED BY <1>1 DEF goesOn, ReportInv, reportedBy, ReportsInOrder, made

(* A step that neither reports nor makes the run that is returned. *)
LEMMA QuietReports ==
    ASSUME ReportInv, UNCHANGED <<aborted, reports>>, status' \in {status, "canceled"},
           \/ /\ ~made /\ ~made'
           \/ /\ phase \in {"reporting", "closing"} /\ phase' = "done" /\ result' = result
    PROVE  ReportInv'
  <1>1. /\ \A by : reportedBy(by)' <=> reportedBy(by)
        /\ ReportsInOrder'
        /\ result' = result => (ResultIsReported' <=> ResultIsReported)
    BY DEF reportedBy, ReportsInOrder, ResultIsReported, onlyAbortAfter, ReportInv
  <1>2. ~reportedBy("catch") \/ phase' \in {"closing", "done"}
    BY DEF ReportInv, made
  <1>3. made' => made /\ result' = result
    BY DEF made
  <1> QED BY <1>1, <1>2, <1>3 DEF ReportInv, made

(* Every step keeps what the reports are. *)
LEMMA ReportStep ==
    ASSUME ReportInv, [Next]_vars
    PROVE  ReportInv'
  <1>1. CASE Begin
    BY <1>1, QuietReports DEF Begin, made
  <1>2. CASE BeforeFails
    BY <1>2, CatchReports DEF BeforeFails
  <1>3. CASE TakeNode
    <2>1. /\ phase = "loop" /\ phase' \in {"loop", "node"}
          /\ UNCHANGED <<status, aborted, reports>>
      BY <1>3 DEF TakeNode
    <2> QED BY <2>1, QuietReports DEF made
  <1>4. CASE NodeReturnsNull
    BY <1>4, QuietReports DEF NodeReturnsNull, made
  <1>5. CASE NodeReturnsData
    <2>1. phase = "node" /\ phase' = "loop" /\ UNCHANGED <<status, aborted, reports>>
      BY <1>5 DEF NodeReturnsData
    <2> QED BY <2>1, QuietReports DEF made
  <1>6. CASE NodeStops
    <2> DEFINE outcome == IF runNode(executionData).kind = "wait" THEN "waiting" ELSE "error"
    <2>1. processSuccessExecution(outcome) /\ phase = "node" /\ UNCHANGED <<status, aborted>>
      BY <1>6 DEF NodeStops
    <2>2. outcome \in Result /\ ~made
      BY <2>1 DEF Result, made
    <2> HIDE DEF outcome
    <2> QED BY <2>1, <2>2, ProcessSuccessReports
  <1>7. CASE LoopEnds
    <2>1. processSuccessExecution("success") /\ phase = "loop" /\ UNCHANGED <<status, aborted>>
      BY <1>7 DEF LoopEnds
    <2>2. "success" \in Result /\ ~made
      BY <2>1 DEF Result, made
    <2> QED BY <2>1, <2>2, ProcessSuccessReports
  <1>8. CASE AfterFails
    BY <1>8, CatchReports DEF AfterFails
  <1>9. CASE Close
    BY <1>9, QuietReports DEF Close
  <1>10. CASE Cancel
    BY <1>10, CancelReports
  <1>11. CASE Timeout
    BY <1>11, QuietReports DEF Timeout, made
  <1>12. CASE Resume
    BY <1>12, GoesOnReports DEF Resume
  <1>13. CASE Retry
    BY <1>13, GoesOnReports DEF Retry
  <1>14. CASE UNCHANGED vars
    <2>1. UNCHANGED <<phase, status, aborted, result, reports>>
      BY <1>14 DEF vars
    <2> QED BY <2>1
        DEF ReportInv, reportedBy, ReportsInOrder, ResultIsReported, onlyAbortAfter, made
  <1> QED
    BY <1>1, <1>2, <1>3, <1>4, <1>5, <1>6, <1>7, <1>8, <1>9, <1>10, <1>11, <1>12, <1>13, <1>14
    DEF Next

(* ReportInv holds always. *)
LEMMA ReportInvariant == Spec => []ReportInv
  <1>1. Init => ReportInv
    <2>1. <<>> \in Seq(Report) /\ DOMAIN <<>> = {}
      BY EmptySeq
    <2> QED BY <2>1 DEF Init, ReportInv, reportedBy, ReportsInOrder, made
  <1>2. ReportInv /\ [Next]_vars => ReportInv'
    BY ReportStep
  <1> QED BY <1>1, <1>2, PTL DEF Spec

(***************************************************************************)
(* Every execution that ends has reported its end, and last, but for an    *)
(* abort, with the status of the run that it returns; the loop, the abort  *)
(* and the handler of rejections have reported once each at most, the loop *)
(* before the others: whether the execution succeeded, failed, went to     *)
(* wait, timed out or was canceled, at whatever point, and also if         *)
(* workflowExecuteBefore or the report itself failed.                      *)
(***************************************************************************)
THEOREM TheEndIsReported == Spec => []EndIsReported
  <1>1. ReportInv => EndIsReported
    BY DEF ReportInv, EndIsReported, ResultIsReported, ReportsInOrder, made
  <1> QED BY <1>1, ReportInvariant, PTL

-----------------------------------------------------------------------------
(* Nodes that wait *)

Datum == Data \cup {NoData}

(* Entries of node n that lack an input. *)
Partial(n) ==
    {x \in [1 .. Len(workflow.inputs[n]) -> Datum] :
        \E i \in 1 .. Len(workflow.inputs[n]) : x[i] = NoData}

(* What a node that waits may hold: entries at finitely many indexes. *)
EntriesOK(n, e) ==
    /\ IsFiniteSet(DOMAIN e)
    /\ DOMAIN e \subseteq Nat
    /\ e \in [DOMAIN e -> Partial(n)]

Waiter ==
    {x \in [node : Node, entries : UNION {[D -> UNION {Partial(n) : n \in Node}] : D \in SUBSET Nat}] :
        /\ EntriesOK(x.node, x.entries)
        /\ DOMAIN x.entries # {}
        /\ Len(workflow.inputs[x.node]) > 1}

(* Each node waits at one place. *)
Waiting ==
    {w \in Seq(Waiter) :
        \A k, l \in 1 .. Len(w) : w[k].node = w[l].node => k = l}

State == [stack : Seq(Item), waiting : Waiting]

Connection ==
    {c \in [output : Output, node : Node, input : Input] :
        c.input \in DOMAIN workflow.inputs[c.node]}

(* The constants, by what they are for the workflow that is executed. *)
LEMMA WorkflowFacts ==
    ASSUME workflow \in Workflow
    PROVE  /\ 1 \in Node /\ 1 \in Output /\ NoNode \notin Node
           /\ workflow.position \in [Node -> Nat]
           /\ \A n \in Node :
                 /\ workflow.inputs[n] \in Seq(SUBSET (Node \X Output))
                 /\ Len(workflow.inputs[n]) \in Nat
                 /\ DOMAIN workflow.inputs[n] = 1 .. Len(workflow.inputs[n])
                 /\ workflow.behaviour[n] \in Seq(Behaviour) /\ workflow.behaviour[n] # <<>>
  <1>1. 1 \in Node /\ 1 \in Output /\ NoNode \notin Node
    BY EngineAssumption DEF Node, Output
  <1>2. /\ workflow.inputs \in [Node -> Seq(SUBSET (Node \X Output))]
        /\ workflow.position \in [Node -> Nat]
        /\ \A n \in Node : workflow.behaviour[n] \in Seq(Behaviour) \ {<<>>}
    BY EngineAssumption
  <1>3. \A n \in Node : workflow.inputs[n] \in Seq(SUBSET (Node \X Output))
    BY <1>2
  <1>4. ASSUME NEW n \in Node
        PROVE  /\ Len(workflow.inputs[n]) \in Nat
               /\ DOMAIN workflow.inputs[n] = 1 .. Len(workflow.inputs[n])
    BY <1>3, LenProperties
  <1> QED BY <1>1, <1>2, <1>3, <1>4

(* The inputs of the nodes are finitely many numbers. *)
LEMMA InputFacts ==
    ASSUME workflow \in Workflow
    PROVE  /\ IsFiniteSet(Input) /\ Input \subseteq Nat
           /\ \A n \in Node : DOMAIN workflow.inputs[n] \subseteq Input
  <1> DEFINE S == {DOMAIN workflow.inputs[n] : n \in Node}
  <1>1. ASSUME NEW n \in Node
        PROVE  IsFiniteSet(DOMAIN workflow.inputs[n]) /\ DOMAIN workflow.inputs[n] \subseteq Nat
    <2>1. Len(workflow.inputs[n]) \in Nat /\ DOMAIN workflow.inputs[n] = 1 .. Len(workflow.inputs[n])
      BY WorkflowFacts
    <2>2. IsFiniteSet(1 .. Len(workflow.inputs[n]))
      BY <2>1, FS_Interval
    <2> QED BY <2>1, <2>2
  <1>2. IsFiniteSet(S)
    <2>1. IsFiniteSet(Node)
      BY EngineAssumption, FS_Interval DEF Node
    <2> DEFINE f == [n \in Node |-> DOMAIN workflow.inputs[n]]
    <2>2. f \in Surjection(Node, S)
      BY DEF Surjection
    <2> HIDE DEF f, S
    <2> QED BY <2>1, <2>2, FS_Surjection
  <1>3. IsFiniteSet(UNION S)
    <2>1. \A D \in S : IsFiniteSet(D)
      BY <1>1
    <2> HIDE DEF S
    <2> QED BY <1>2, <2>1, FS_UNION
  <1>4. Input = UNION S
    BY DEF Input
  <1>5. \A n \in Node : DOMAIN workflow.inputs[n] \in S
    OBVIOUS
  <1>6. \A D \in S : D \subseteq Nat
    BY <1>1
  <1> HIDE DEF S
  <1> QED BY <1>3, <1>4, <1>5, <1>6

(* A node that waits, made and taken apart. *)
LEMMA WaiterMade ==
    ASSUME NEW n \in Node, NEW e, EntriesOK(n, e), DOMAIN e # {}, Len(workflow.inputs[n]) > 1
    PROVE  [node |-> n, entries |-> e] \in Waiter
  <1> DEFINE Rows == UNION {Partial(m) : m \in Node}
  <1>1. e \in [DOMAIN e -> Rows]
    BY DEF EntriesOK
  <1>2. e \in UNION {[D -> Rows] : D \in SUBSET Nat}
    <2>1. DOMAIN e \in SUBSET Nat
      BY DEF EntriesOK
    <2> HIDE DEF Rows
    <2> QED BY <1>1, <2>1
  <1> QED BY <1>2 DEF Waiter

(* What a node that waits is: it has several inputs, and entries of them. *)
LEMMA WaiterFacts ==
    ASSUME NEW x \in Waiter
    PROVE  /\ x.node \in Node /\ x = [node |-> x.node, entries |-> x.entries]
           /\ EntriesOK(x.node, x.entries) /\ DOMAIN x.entries # {}
           /\ Len(workflow.inputs[x.node]) > 1
  BY DEF Waiter

(* The entries of a node, whether it waits or not. *)
LEMMA EntriesFacts ==
    ASSUME NEW w \in Waiting, NEW n \in Node
    PROVE  /\ EntriesOK(n, entriesOf(w, n))
           /\ \A k \in 1 .. Len(w) : w[k].node = n => entriesOf(w, n) = w[k].entries
           /\ DOMAIN entriesOf(w, n) # {} <=> \E k \in 1 .. Len(w) : w[k].node = n
  <1>1. \A k \in 1 .. Len(w) : w[k] \in Waiter
    BY ElementOfSeq DEF Waiting
  <1>2. CASE \E k \in 1 .. Len(w) : w[k].node = n
    <2> DEFINE k == CHOOSE k \in 1 .. Len(w) : w[k].node = n
    <2>1. k \in 1 .. Len(w) /\ w[k].node = n
      BY <1>2
    <2>2. entriesOf(w, n) = w[k].entries
      BY <1>2 DEF entriesOf
    <2> HIDE DEF k
    <2>3. EntriesOK(n, w[k].entries) /\ DOMAIN w[k].entries # {}
      BY <1>1, <2>1, WaiterFacts
    <2>4. \A l \in 1 .. Len(w) : w[l].node = n => l = k
      BY <2>1 DEF Waiting
    <2> QED BY <1>2, <2>1, <2>2, <2>3, <2>4
  <1>3. CASE ~\E k \in 1 .. Len(w) : w[k].node = n
    <2>1. entriesOf(w, n) = <<>>
      BY <1>3 DEF entriesOf
    <2>2. DOMAIN <<>> = {}
      OBVIOUS
    <2>3. EntriesOK(n, <<>>)
      <3>1. <<>> \in [{} -> Partial(n)]
        OBVIOUS
      <3> QED BY <2>2, <3>1, FS_EmptySet DEF EntriesOK
    <2> QED BY <1>3, <2>1, <2>2, <2>3
  <1> QED BY <1>2, <1>3

(* A sequence without one of its entries. *)
LEMMA RemoveAtFacts ==
    ASSUME NEW S, NEW s \in Seq(S), NEW k \in 1 .. Len(s)
    PROVE  /\ RemoveAt(s, k) \in Seq(S) /\ Len(s) \in Nat /\ Len(RemoveAt(s, k)) = Len(s) - 1
           /\ \A l \in 1 .. Len(s) - 1 :
                 RemoveAt(s, k)[l] = s[IF l < k THEN l ELSE l + 1]
  <1> DEFINE a == SubSeq(s, 1, k - 1)
             b == SubSeq(s, k + 1, Len(s))
  <1>l. Len(s) \in Nat /\ \A i \in 1 .. Len(s) : s[i] \in S
    BY LenProperties
  <1>1. /\ a \in Seq(S) /\ Len(a) = k - 1
        /\ \A i \in 1 .. k - 1 : a[i] = s[i]
    <2>1. 1 \in Int /\ k - 1 \in Int /\ \A i \in 1 .. k - 1 : s[i] \in S
      BY <1>l
    <2>2. /\ a \in Seq(S) /\ Len(a) = IF 1 <= k - 1 THEN (k - 1) - 1 + 1 ELSE 0
          /\ \A i \in 1 .. (k - 1) - 1 + 1 : a[i] = s[1 + i - 1]
      BY <2>1, SubSeqProperties
    <2> HIDE DEF a
    <2>3. \A i \in 1 .. k - 1 : 1 + i - 1 = i /\ i \in 1 .. (k - 1) - 1 + 1
      BY <1>l
    <2> QED BY <1>l, <2>2, <2>3
  <1>2. /\ b \in Seq(S) /\ Len(b) = Len(s) - k
        /\ \A i \in 1 .. Len(s) - k : b[i] = s[k + i]
    <2>1. k + 1 \in Int /\ Len(s) \in Int /\ \A i \in k + 1 .. Len(s) : s[i] \in S
      BY <1>l
    <2>2. /\ b \in Seq(S) /\ Len(b) = IF k + 1 <= Len(s) THEN Len(s) - (k + 1) + 1 ELSE 0
          /\ \A i \in 1 .. Len(s) - (k + 1) + 1 : b[i] = s[k + 1 + i - 1]
      BY <2>1, SubSeqProperties
    <2> HIDE DEF b
    <2>3. \A i \in 1 .. Len(s) - k : k + 1 + i - 1 = k + i /\ i \in 1 .. Len(s) - (k + 1) + 1
      BY <1>l
    <2> QED BY <1>l, <2>2, <2>3
  <1>3. RemoveAt(s, k) = a \o b
    BY DEF RemoveAt
  <1> HIDE DEF a, b
  <1>4. /\ a \o b \in Seq(S) /\ Len(a \o b) = Len(a) + Len(b)
        /\ \A i \in 1 .. Len(a) + Len(b) :
              (a \o b)[i] = IF i <= Len(a) THEN a[i] ELSE b[i - Len(a)]
    BY <1>1, <1>2, ConcatProperties
  <1>5. Len(a) + Len(b) = Len(s) - 1
    BY <1>l, <1>1, <1>2
  <1>6. ASSUME NEW l \in 1 .. Len(s) - 1
        PROVE  (a \o b)[l] = s[IF l < k THEN l ELSE l + 1]
    <2>1. CASE l < k
      <3>1. l \in 1 .. k - 1 /\ l <= Len(a) /\ l \in 1 .. Len(a) + Len(b)
        BY <1>l, <1>1, <1>5, <2>1
      <3> QED BY <1>1, <1>4, <2>1, <3>1
    <2>2. CASE ~(l < k)
      <3>1. /\ l - (k - 1) \in 1 .. Len(s) - k /\ k + (l - (k - 1)) = l + 1
            /\ ~(l <= Len(a)) /\ l \in 1 .. Len(a) + Len(b)
        BY <1>l, <1>1, <1>5, <2>2
      <3>2. (a \o b)[l] = b[l - (k - 1)]
        BY <1>1, <1>4, <3>1
      <3> QED BY <1>2, <2>2, <3>1, <3>2
    <2> QED BY <2>1, <2>2
  <1> QED BY <1>l, <1>3, <1>4, <1>5, <1>6

(* When the places change only for node n, other nodes keep their entries. *)
LEMMA OthersKeepEntries ==
    ASSUME NEW w \in Waiting, NEW v \in Waiting, NEW n \in Node,
           \A k \in 1 .. Len(w) : w[k].node # n => \E l \in 1 .. Len(v) : v[l] = w[k],
           \A l \in 1 .. Len(v) : v[l].node # n => \E k \in 1 .. Len(w) : v[l] = w[k]
    PROVE  \A m \in Node \ {n} : entriesOf(v, m) = entriesOf(w, m)
  <1> SUFFICES ASSUME NEW m \in Node \ {n} PROVE entriesOf(v, m) = entriesOf(w, m)
    OBVIOUS
  <1>1. CASE \E k \in 1 .. Len(w) : w[k].node = m
    <2>1. PICK k \in 1 .. Len(w) : w[k].node = m
      BY <1>1
    <2>2. PICK l \in 1 .. Len(v) : v[l] = w[k]
      BY <2>1
    <2>3. entriesOf(w, m) = w[k].entries /\ entriesOf(v, m) = v[l].entries
      BY <2>1, <2>2, EntriesFacts
    <2> QED BY <2>2, <2>3
  <1>2. CASE ~\E k \in 1 .. Len(w) : w[k].node = m
    <2>1. ~\E l \in 1 .. Len(v) : v[l].node = m
      BY <1>2
    <2> QED BY <1>2, <2>1 DEF entriesOf
  <1> QED BY <1>1, <1>2

(***************************************************************************)
(* withEntries gives node n the entries e, takes it out when it has none,  *)
(* and leaves all other nodes as they are.                                 *)
(***************************************************************************)
LEMMA WithEntriesFacts ==
    ASSUME NEW w \in Waiting, NEW n \in Node, NEW e, EntriesOK(n, e), Len(workflow.inputs[n]) > 1,
           DOMAIN e # {} \/ DOMAIN entriesOf(w, n) # {}
    PROVE  /\ withEntries(w, n, e) \in Waiting
           /\ DOMAIN e # {} => entriesOf(withEntries(w, n, e), n) = e
           /\ DOMAIN e = {} => DOMAIN entriesOf(withEntries(w, n, e), n) = {}
           /\ \A m \in Node \ {n} : entriesOf(withEntries(w, n, e), m) = entriesOf(w, m)
  <1> DEFINE places == {k \in 1 .. Len(w) : w[k].node = n}
             x == [node |-> n, entries |-> e]
             v == withEntries(w, n, e)
  <1>l. /\ w \in Seq(Waiter) /\ Len(w) \in Nat
        /\ \A k \in 1 .. Len(w) : w[k] \in Waiter
        /\ \A k, l \in 1 .. Len(w) : w[k].node = w[l].node => k = l
    BY LenProperties DEF Waiting
  <1>x. x.node = n /\ x.entries = e /\ (DOMAIN e # {} => x \in Waiter)
    BY WaiterMade
  <1>p. DOMAIN entriesOf(w, n) # {} <=> places # {}
    BY EntriesFacts
  <1> HIDE DEF x
  <1>1. CASE places = {}
    <2>1. v = Append(w, x) /\ x \in Waiter /\ DOMAIN e # {}
      BY <1>1, <1>p, <1>x DEF withEntries, x
    <2>2. /\ v \in Seq(Waiter) /\ Len(v) = Len(w) + 1
          /\ \A k \in 1 .. Len(w) : v[k] = w[k]
          /\ v[Len(w) + 1] = x
      BY <1>l, <2>1, AppendProperties
    <2> HIDE DEF v
    <2>3. \A k \in 1 .. Len(v) : k \in 1 .. Len(w) \/ k = Len(w) + 1
      BY <1>l, <2>2
    <2>4. \A k \in 1 .. Len(w) : k \in 1 .. Len(v) /\ w[k].node # n
      BY <1>l, <1>1, <2>2
    <2>5. v \in Waiting
      <3>1. ASSUME NEW k \in 1 .. Len(v), NEW l \in 1 .. Len(v), v[k].node = v[l].node
            PROVE  k = l
        BY <1>l, <1>x, <2>2, <2>3, <2>4, <3>1
      <3> QED BY <2>2, <3>1 DEF Waiting
    <2>6. Len(w) + 1 \in 1 .. Len(v)
      BY <1>l, <2>2
    <2>7. entriesOf(v, n) = e
      BY <1>x, <2>2, <2>5, <2>6, EntriesFacts
    <2>8. \A m \in Node \ {n} : entriesOf(v, m) = entriesOf(w, m)
      <3>1. \A l \in 1 .. Len(v) : v[l].node # n => \E k \in 1 .. Len(w) : v[l] = w[k]
        BY <1>x, <2>2, <2>3
      <3>2. \A k \in 1 .. Len(w) : w[k].node # n => \E l \in 1 .. Len(v) : v[l] = w[k]
        BY <2>2, <2>4
      <3> QED BY <2>5, <3>1, <3>2, OthersKeepEntries
    <2>9. v = withEntries(w, n, e)
      BY DEF v
    <2> QED BY <2>1, <2>5, <2>7, <2>8, <2>9
  <1>2. CASE places # {}
    <2> DEFINE k == CHOOSE k \in places : TRUE
    <2>1. k \in places
      BY <1>2
    <2>2. v = IF DOMAIN e = {} THEN RemoveAt(w, k) ELSE [w EXCEPT ![k] = x]
      BY <1>2 DEF withEntries, x
    <2> HIDE DEF k, v
    <2>3. k \in 1 .. Len(w) /\ w[k].node = n /\ \A l \in 1 .. Len(w) : w[l].node = n => l = k
      BY <1>l, <2>1
    <2>v. v = withEntries(w, n, e)
      BY DEF v
    <2>4. CASE DOMAIN e = {}
      <3>1. /\ v \in Seq(Waiter) /\ Len(v) = Len(w) - 1
            /\ \A l \in 1 .. Len(w) - 1 : v[l] = w[IF l < k THEN l ELSE l + 1]
        BY <1>l, <2>2, <2>3, <2>4, RemoveAtFacts
      <3>2. ASSUME NEW l \in 1 .. Len(v)
            PROVE  /\ (IF l < k THEN l ELSE l + 1) \in 1 .. Len(w) \ {k}
                   /\ v[l] = w[IF l < k THEN l ELSE l + 1]
        BY <1>l, <2>3, <3>1
      <3>3. \A l \in 1 .. Len(v) : v[l].node # n
        BY <2>3, <3>2
      <3>4. v \in Waiting
        <4>1. ASSUME NEW l \in 1 .. Len(v), NEW m \in 1 .. Len(v), v[l].node = v[m].node
              PROVE  l = m
          <5>1. (IF l < k THEN l ELSE l + 1) = (IF m < k THEN m ELSE m + 1)
            BY <1>l, <3>2, <4>1
          <5> QED BY <1>l, <2>3, <3>1, <5>1
        <4> QED BY <3>1, <4>1 DEF Waiting
      <3>5. DOMAIN entriesOf(v, n) = {}
        BY <3>3, <3>4, EntriesFacts
      <3>6. \A m \in Node \ {n} : entriesOf(v, m) = entriesOf(w, m)
        <4>1. \A l \in 1 .. Len(v) : v[l].node # n => \E i \in 1 .. Len(w) : v[l] = w[i]
          BY <3>2
        <4>2. ASSUME NEW i \in 1 .. Len(w), w[i].node # n
              PROVE  \E l \in 1 .. Len(v) : v[l] = w[i]
          <5>1. CASE i < k
            <6>1. i \in 1 .. Len(v)
              BY <1>l, <2>3, <3>1, <5>1
            <6> QED BY <3>2, <5>1, <6>1
          <5>2. CASE ~(i < k)
            <6>1. i - 1 \in 1 .. Len(v) /\ ~(i - 1 < k) /\ (i - 1) + 1 = i
              BY <1>l, <2>3, <3>1, <4>2, <5>2
            <6> QED BY <3>2, <6>1
          <5> QED BY <5>1, <5>2
        <4> QED BY <3>4, <4>1, <4>2, OthersKeepEntries
      <3> QED BY <2>4, <2>v, <3>4, <3>5, <3>6
    <2>5. CASE DOMAIN e # {}
      <3>1. /\ v \in Seq(Waiter) /\ Len(v) = Len(w)
            /\ \A l \in 1 .. Len(w) : v[l] = IF l = k THEN x ELSE w[l]
        BY <1>l, <1>x, <2>2, <2>3, <2>5, ExceptSeq
      <3>2. \A l \in 1 .. Len(w) : v[l].node = w[l].node
        BY <1>x, <2>3, <3>1
      <3>3. v \in Waiting
        BY <1>l, <3>1, <3>2 DEF Waiting
      <3>4. entriesOf(v, n) = e
        BY <1>x, <2>3, <3>1, <3>3, EntriesFacts
      <3>5. \A m \in Node \ {n} : entriesOf(v, m) = entriesOf(w, m)
        <4>1. \A l \in 1 .. Len(v) : v[l].node # n => \E i \in 1 .. Len(w) : v[l] = w[i]
          BY <1>x, <3>1
        <4>2. \A i \in 1 .. Len(w) : w[i].node # n => \E l \in 1 .. Len(v) : v[l] = w[i]
          BY <2>3, <3>1
        <4> QED BY <3>3, <4>1, <4>2, OthersKeepEntries
      <3> QED BY <2>5, <2>v, <3>3, <3>4, <3>5
    <2> QED BY <2>4, <2>5
  <1> QED BY <1>1, <1>2

-----------------------------------------------------------------------------
(* Adding the nodes that the outputs of a node lead to *)

(* The connections of a node are finitely many, and end at inputs. *)
LEMMA ConnectionsFacts ==
    ASSUME workflow \in Workflow, NEW n \in Node, NEW cs \in SUBSET connectionsBySourceNode(n)
    PROVE  IsFiniteSet(cs) /\ cs \subseteq Connection
  <1>1. cs \subseteq Connection
    BY DEF connectionsBySourceNode, Connection
  <1> DEFINE Triple == Output \X (Node \X Input)
             f == [c \in cs |-> <<c.output, <<c.node, c.input>>>>]
  <1>2. IsFiniteSet(Triple)
    <2>1. IsFiniteSet(Output) /\ IsFiniteSet(Node)
      BY EngineAssumption, FS_Interval DEF Output, Node
    <2>2. IsFiniteSet(Node \X Input)
      BY <2>1, InputFacts, FS_Product
    <2> QED BY <2>1, <2>2, FS_Product
  <1>3. f \in Injection(cs, Triple)
    <2>1. \A c \in cs : c.output \in Output /\ c.node \in Node /\ c.input \in Input
      BY <1>1 DEF Connection
    <2>2. f \in [cs -> Triple]
      BY <2>1
    <2>3. ASSUME NEW c \in cs, NEW d \in cs, f[c] = f[d] PROVE c = d
      <3>1. c.output = d.output /\ c.node = d.node /\ c.input = d.input
        BY <2>3
      <3> QED BY <1>1, <3>1 DEF Connection
    <2> HIDE DEF f, Triple
    <2> QED BY <2>2, <2>3 DEF Injection, IsInjective
  <1> HIDE DEF f, Triple
  <1> QED BY <1>1, <1>2, <1>3, FS_Injection

(* The order is strict. *)
LEMMA BeforeIsStrict ==
    ASSUME workflow \in Workflow
    PROVE  /\ \A c \in Connection : ~before(c, c)
           /\ \A c, d, e \in Connection : before(c, d) /\ before(d, e) => before(c, e)
  <1>1. \A c \in Connection : /\ c.output \in Nat /\ c.node \in Nat /\ c.input \in Nat
                              /\ workflow.position[c.node] \in Nat
    <2>1. Output \subseteq Nat /\ Node \subseteq Nat /\ Input \subseteq Nat
      BY EngineAssumption, InputFacts DEF Output, Node
    <2>2. \A m \in Node : workflow.position[m] \in Nat
      BY WorkflowFacts
    <2> QED BY <2>1, <2>2 DEF Connection
  <1>2. \A c \in Connection : ~before(c, c)
    BY <1>1 DEF before
  <1>3. ASSUME NEW c \in Connection, NEW d \in Connection, NEW e \in Connection,
               before(c, d), before(d, e)
        PROVE  before(c, e)
    BY <1>1, <1>3 DEF before
  <1> QED BY <1>2, <1>3

(* Of some connections one is the last. *)
LEMMA LastOfIsMember ==
    ASSUME workflow \in Workflow, NEW cs \in SUBSET Connection, IsFiniteSet(cs), cs # {}
    PROVE  lastOf(cs) \in cs
  <1> DEFINE IsLast(c, A) == c \in A /\ \A d \in A : ~before(c, d)
             P == {A \in SUBSET cs : A # {} /\ ~\E c \in A : IsLast(c, A)}
  <1>1. P = {}
    <2> SUFFICES ASSUME P # {} PROVE FALSE
      OBVIOUS
    <2>1. PICK A \in P : \A B \in P : B \subseteq A => B = A
      <3>1. P \subseteq SUBSET cs
        OBVIOUS
      <3> HIDE DEF P
      <3> QED BY <3>1, SmallestSet
    <2>2. PICK c \in A : TRUE
      OBVIOUS
    <2> DEFINE B == A \ {c}
    <2>3. c \in Connection /\ B \in SUBSET cs /\ B # A
      OBVIOUS
    <2>4. CASE B = {}
      <3>1. IsLast(c, A)
        BY <2>3, <2>4, BeforeIsStrict
      <3> QED BY <3>1
    <2>5. CASE B # {}
      <3>1. B \notin P
        <4> HIDE DEF P
        <4> QED BY <2>1, <2>3
      <3>2. PICK d \in B : IsLast(d, B)
        BY <2>3, <2>5, <3>1
      <3>3. CASE before(d, c)
        <4>1. ASSUME NEW e \in A PROVE ~before(c, e)
          <5>1. CASE e = c
            BY <2>3, <5>1, BeforeIsStrict
          <5>2. CASE e # c
            <6>1. ~before(d, e) /\ d \in Connection /\ e \in Connection
              BY <3>2, <5>2
            <6> QED BY <2>3, <3>3, <6>1, BeforeIsStrict
          <5> QED BY <5>1, <5>2
        <4> QED BY <4>1
      <3>4. CASE ~before(d, c)
        <4>1. IsLast(d, A)
          BY <3>2, <3>4
        <4> QED BY <4>1
      <3> QED BY <3>3, <3>4
    <2> QED BY <2>4, <2>5
  <1>2. \E c \in cs : \A d \in cs : ~before(c, d)
    BY <1>1
  <1> QED BY <1>2 DEF lastOf

(***************************************************************************)
(* The nodes are added one after the other: if every addition goes from    *)
(* the states that are good for the connections added before to those that *)
(* are good with one more, then addNodes ends in a good one.               *)
(***************************************************************************)
LEMMA AddNodesReaches ==
    ASSUME workflow \in Workflow, NEW n \in Node, NEW r, NEW outputs, NEW s, NEW C,
           C = {c \in connectionsBySourceNode(n) : c.output \in outputs},
           NEW Good, s \in Good[{}],
           \A A \in SUBSET C : \A c \in C \ A : \A t \in Good[A] :
              addNodeToBeExecuted(t, c, <<n, r, c.output>>) \in Good[A \cup {c}]
    PROVE  addNodes(s, n, r, outputs) \in Good[C]
  <1> DEFINE Sub(k) == {A \in SUBSET C : Cardinality(A) <= k}
             Step(f, A) == IF A = {} THEN s
                           ELSE addNodeToBeExecuted(f[A \ {lastOf(A)}], lastOf(A),
                                                    <<n, r, lastOf(A).output>>)
             Solves(f, k) == f = [A \in Sub(k) |-> Step(f, A)]
             added == CHOOSE f : f = [A \in SUBSET C |-> Step(f, A)]
  <1>c. IsFiniteSet(C) /\ C \subseteq Connection
    BY ConnectionsFacts
  <1>s. ASSUME NEW A \in SUBSET C
        PROVE  /\ IsFiniteSet(A) /\ Cardinality(A) \in Nat /\ Cardinality(A) <= Cardinality(C)
               /\ A # {} => /\ lastOf(A) \in A
                            /\ Cardinality(A \ {lastOf(A)}) = Cardinality(A) - 1
               /\ Cardinality(A) = 0 => A = {}
    <2>1. IsFiniteSet(A) /\ Cardinality(A) <= Cardinality(C)
      BY <1>c, FS_Subset
    <2>2. Cardinality(A) \in Nat /\ (Cardinality(A) = 0 => A = {})
      BY <2>1, FS_CardinalityType, FS_EmptySet
    <2>3. A # {} => lastOf(A) \in A
      BY <1>c, <2>1, LastOfIsMember
    <2>4. A # {} => Cardinality(A \ {lastOf(A)}) = Cardinality(A) - 1
      BY <2>1, <2>3, FS_RemoveElement
    <2> QED BY <2>1, <2>2, <2>3, <2>4
  <1>1. \A k \in Nat : \E f : Solves(f, k)
    <2> DEFINE P == {k \in Nat : ~\E f : Solves(f, k)}
    <2>1. SUFFICES ASSUME P # {} PROVE FALSE
      OBVIOUS
    <2>2. Min(P) \in P /\ \A k \in P : Min(P) <= k
      <3>1. P \subseteq Nat
        OBVIOUS
      <3> HIDE DEF P
      <3> QED BY <2>1, <3>1, LeastIsMember
    <2>3. PICK k \in P : k = Min(P)
      BY <2>2
    <2>4. k \in Nat /\ ~\E f : Solves(f, k)
      OBVIOUS
    <2>5. CASE k = 0
      <3> DEFINE f == [A \in Sub(0) |-> s]
      <3>1. ASSUME NEW A \in Sub(0) PROVE A = {}
        <4>1. A \in SUBSET C /\ Cardinality(A) <= 0
          OBVIOUS
        <4>2. Cardinality(A) \in Nat /\ (Cardinality(A) = 0 => A = {})
          BY <1>s, <4>1
        <4> QED BY <4>1, <4>2
      <3>2. f = [A \in Sub(0) |-> Step(f, A)]
        BY <3>1
      <3> QED BY <2>4, <2>5, <3>2
    <2>6. CASE k # 0
      <3>1. k - 1 \in Nat /\ k - 1 \notin P
        <4>1. k - 1 \in Nat /\ k - 1 < k
          BY <2>4, <2>6
        <4> HIDE DEF P
        <4> QED BY <2>2, <2>3, <2>4, <4>1
      <3>2. PICK f : Solves(f, k - 1)
        BY <3>1
      <3> DEFINE g == [A \in Sub(k) |-> IF Cardinality(A) = k THEN Step(f, A) ELSE f[A]]
      <3>3. ASSUME NEW A \in Sub(k), Cardinality(A) # k
            PROVE  A \in Sub(k - 1) /\ g[A] = Step(f, A)
        <4>1. A \in Sub(k - 1)
          <5>1. A \in SUBSET C /\ Cardinality(A) <= k
            OBVIOUS
          <5>2. Cardinality(A) \in Nat
            BY <1>s, <5>1
          <5>3. Cardinality(A) <= k - 1
            BY <2>4, <3>3, <5>1, <5>2
          <5> QED BY <5>1, <5>3
        <4>2. f[A] = Step(f, A)
          <5> HIDE DEF Step
          <5> QED BY <3>2, <4>1
        <4> HIDE DEF Step
        <4> QED BY <3>3, <4>1, <4>2
      <3>4. \A A \in Sub(k) : g[A] = Step(f, A)
        <4>1. \A A \in Sub(k) : Cardinality(A) = k => g[A] = Step(f, A)
          <5> HIDE DEF Step
          <5> QED OBVIOUS
        <4> HIDE DEF Step, g, Sub
        <4> QED BY <3>3, <4>1
      <3>5. ASSUME NEW A \in Sub(k) PROVE Step(g, A) = Step(f, A)
        <4>1. CASE A = {}
          BY <4>1
        <4>2. CASE A # {}
          <5> DEFINE B == A \ {lastOf(A)}
          <5>1. B \in Sub(k) /\ Cardinality(B) # k
            <6>1. A \in SUBSET C /\ Cardinality(A) <= k
              OBVIOUS
            <6>2. Cardinality(A) \in Nat /\ Cardinality(B) = Cardinality(A) - 1
              BY <1>s, <4>2, <6>1
            <6>3. Cardinality(B) <= k /\ Cardinality(B) # k
              BY <2>4, <6>1, <6>2
            <6> QED BY <6>1, <6>3
          <5>2. g[B] = f[B]
            <6> HIDE DEF B, Step
            <6> QED BY <5>1
          <5> HIDE DEF g
          <5> QED BY <4>2, <5>2
        <4> QED BY <4>1, <4>2
      <3>6. \A A \in Sub(k) : g[A] = Step(g, A)
        <4> HIDE DEF Step, g, Sub
        <4> QED BY <3>4, <3>5
      <3>7. g = [A \in Sub(k) |-> g[A]]
        <4> HIDE DEF Step
        <4> QED OBVIOUS
      <3>8. Solves(g, k)
        <4> HIDE DEF Step, g, Sub
        <4> QED BY <3>6, <3>7
      <3> HIDE DEF g, Solves
      <3> QED BY <2>4, <3>8
    <2> QED BY <2>5, <2>6
  <1>2. \E f : f = [A \in SUBSET C |-> Step(f, A)]
    <2>1. Cardinality(C) \in Nat /\ Sub(Cardinality(C)) = SUBSET C
      BY <1>s
    <2>2. PICK f : Solves(f, Cardinality(C))
      BY <1>1, <2>1
    <2>3. f = [A \in SUBSET C |-> Step(f, A)]
      BY <2>1, <2>2
    <2> QED BY <2>3
  <1>3. added = [A \in SUBSET C |-> Step(added, A)]
    <2> HIDE DEF Step
    <2> QED BY <1>2
  <1>4. addNodes(s, n, r, outputs) = added[C]
    BY DEF addNodes
  <1> HIDE DEF added
  <1>5. \A A \in SUBSET C : added[A] = Step(added, A)
    <2> HIDE DEF Step
    <2> QED BY <1>3
  <1> DEFINE P == {A \in SUBSET C : added[A] \notin Good[A]}
  <1>6. P = {}
    <2> SUFFICES ASSUME P # {} PROVE FALSE
      OBVIOUS
    <2>1. PICK A \in P : \A B \in P : B \subseteq A => B = A
      <3>1. P \subseteq SUBSET C
        OBVIOUS
      <3> HIDE DEF P
      <3> QED BY <1>c, <3>1, SmallestSet
    <2>2. CASE A = {}
      BY <1>5, <2>2
    <2>3. CASE A # {}
      <3> DEFINE c == lastOf(A)
                 B == A \ {c}
      <3>1. c \in A /\ A \in SUBSET C
        BY <1>s, <2>3
      <3>2. B \in SUBSET C /\ c \in C \ B /\ B \cup {c} = A /\ B \subseteq A /\ B # A
        BY <3>1
      <3>3. added[B] \in Good[B]
        <4>1. B \notin P
          <5> HIDE DEF P, B
          <5> QED BY <2>1, <3>2
        <4> QED BY <3>2, <4>1
      <3>4. added[A] = addNodeToBeExecuted(added[B], c, <<n, r, c.output>>)
        BY <1>5, <2>3, <3>1
      <3> HIDE DEF B, c
      <3>5. added[A] \in Good[A]
        BY <3>2, <3>3, <3>4
      <3> QED BY <3>5
    <2> QED BY <2>2, <2>3
  <1>7. added[C] \in Good[C]
    BY <1>6
  <1> QED BY <1>4, <1>7

-----------------------------------------------------------------------------
(* addNodeToBeExecuted, taken apart *)

(* The entries in which the input of a connection is empty. *)
lacking(s, c) ==
    {r \in DOMAIN entriesOf(s.waiting, c.node) : entriesOf(s.waiting, c.node)[r][c.input] = NoData}

(* The index of the entry that the data goes to, and what becomes of it. *)
index(s, c) ==
    IF lacking(s, c) # {} THEN Min(lacking(s, c)) ELSE Cardinality(DOMAIN entriesOf(s.waiting, c.node))

filled(s, c, data) ==
    [i \in 1 .. Len(workflow.inputs[c.node]) |->
        IF i = c.input THEN data
        ELSE IF lacking(s, c) # {} THEN entriesOf(s.waiting, c.node)[index(s, c)][i] ELSE NoData]

Incomplete(s, c, data) ==
    \E i \in 1 .. Len(workflow.inputs[c.node]) : filled(s, c, data)[i] = NoData

entriesWith(s, c, data) ==
    [k \in (DOMAIN entriesOf(s.waiting, c.node)) \cup {index(s, c)} |->
        IF k = index(s, c) THEN filled(s, c, data) ELSE entriesOf(s.waiting, c.node)[k]]

(* Removing an entry. *)
LEMMA WithoutOK ==
    ASSUME NEW n, NEW e, EntriesOK(n, e), NEW r
    PROVE  /\ EntriesOK(n, without(e, r))
           /\ DOMAIN without(e, r) = (DOMAIN e) \ {r}
           /\ \A k \in (DOMAIN e) \ {r} : without(e, r)[k] = e[k]
  <1>1. /\ DOMAIN without(e, r) = (DOMAIN e) \ {r}
        /\ \A k \in (DOMAIN e) \ {r} : without(e, r)[k] = e[k]
    BY DEF without
  <1>2. IsFiniteSet((DOMAIN e) \ {r})
    BY FS_RemoveElement DEF EntriesOK
  <1>3. without(e, r) \in [(DOMAIN e) \ {r} -> Partial(n)]
    BY DEF without, EntriesOK
  <1> QED BY <1>1, <1>2, <1>3 DEF EntriesOK

(* Where the data goes. *)
LEMMA IndexFacts ==
    ASSUME workflow \in Workflow, NEW s \in State, NEW c \in Connection, NEW data \in Data
    PROVE  /\ s.stack \in Seq(Item) /\ s.waiting \in Waiting /\ c.node \in Node
           /\ EntriesOK(c.node, entriesOf(s.waiting, c.node))
           /\ index(s, c) \in Nat
           /\ lacking(s, c) # {} => index(s, c) \in lacking(s, c)
           /\ \A i \in 1 .. Len(workflow.inputs[c.node]) : filled(s, c, data)[i] \in Datum
           /\ filled(s, c, data) \in [1 .. Len(workflow.inputs[c.node]) -> Datum]
           /\ c.input \in 1 .. Len(workflow.inputs[c.node])
           /\ filled(s, c, data)[c.input] = data
  <1> DEFINE e == entriesOf(s.waiting, c.node)
             L == Len(workflow.inputs[c.node])
  <1>1. /\ s.stack \in Seq(Item) /\ s.waiting \in Waiting /\ c.node \in Node
        /\ c.input \in 1 .. L
    BY WorkflowFacts DEF State, Connection
  <1>2. EntriesOK(c.node, e)
    BY <1>1, EntriesFacts
  <1>3. lacking(s, c) \subseteq DOMAIN e /\ lacking(s, c) \subseteq Nat
    BY <1>2 DEF lacking, EntriesOK
  <1>4. lacking(s, c) # {} => index(s, c) \in lacking(s, c)
    BY <1>3, LeastIsMember DEF index
  <1>5. index(s, c) \in Nat
    BY <1>2, <1>3, <1>4, FS_CardinalityType DEF index, EntriesOK
  <1>6. \A r \in DOMAIN e : \A i \in 1 .. L : e[r][i] \in Datum
    <2>1. \A r \in DOMAIN e : e[r] \in Partial(c.node)
      BY <1>2 DEF EntriesOK
    <2> HIDE DEF e
    <2> QED BY <2>1 DEF Partial
  <1>7. NoData \in Datum /\ data \in Datum
    BY DEF Datum
  <1>8. ASSUME NEW i \in 1 .. L PROVE filled(s, c, data)[i] \in Datum
    <2>1. filled(s, c, data)[i] =
             IF i = c.input THEN data
             ELSE IF lacking(s, c) # {} THEN e[index(s, c)][i] ELSE NoData
      BY DEF filled
    <2>2. lacking(s, c) # {} => e[index(s, c)][i] \in Datum
      BY <1>3, <1>4, <1>6
    <2> HIDE DEF e
    <2> QED BY <1>7, <2>1, <2>2
  <1>9. filled(s, c, data) \in [1 .. L -> Datum] /\ filled(s, c, data)[c.input] = data
    <2>1. filled(s, c, data) = [i \in 1 .. L |-> filled(s, c, data)[i]]
      BY DEF filled
    <2>2. filled(s, c, data)[c.input] = data
      BY <1>1 DEF filled
    <2> QED BY <1>8, <2>1, <2>2
  <1> QED BY <1>1, <1>2, <1>4, <1>5, <1>8, <1>9

(* What there is when the data leaves the entry incomplete. *)
LEMMA EntriesWithOK ==
    ASSUME workflow \in Workflow, NEW s \in State, NEW c \in Connection, NEW data \in Data,
           Incomplete(s, c, data)
    PROVE  /\ EntriesOK(c.node, entriesWith(s, c, data))
           /\ DOMAIN entriesWith(s, c, data) =
                 (DOMAIN entriesOf(s.waiting, c.node)) \cup {index(s, c)}
           /\ entriesWith(s, c, data)[index(s, c)] = filled(s, c, data)
           /\ \A k \in (DOMAIN entriesOf(s.waiting, c.node)) \ {index(s, c)} :
                 entriesWith(s, c, data)[k] = entriesOf(s.waiting, c.node)[k]
  <1> DEFINE e == entriesOf(s.waiting, c.node)
             D == (DOMAIN e) \cup {index(s, c)}
  <1>1. filled(s, c, data) \in Partial(c.node)
    BY IndexFacts DEF Partial, Incomplete
  <1>2. EntriesOK(c.node, e) /\ index(s, c) \in Nat
    BY IndexFacts
  <1>3. IsFiniteSet(D) /\ D \subseteq Nat
    BY <1>2, FS_AddElement DEF EntriesOK
  <1>4. /\ DOMAIN entriesWith(s, c, data) = D
        /\ entriesWith(s, c, data)[index(s, c)] = filled(s, c, data)
        /\ \A k \in (DOMAIN e) \ {index(s, c)} : entriesWith(s, c, data)[k] = e[k]
    BY DEF entriesWith
  <1>5. entriesWith(s, c, data) \in [D -> Partial(c.node)]
    <2>1. \A k \in DOMAIN e : e[k] \in Partial(c.node)
      BY <1>2 DEF EntriesOK
    <2>2. \A k \in D : (IF k = index(s, c) THEN filled(s, c, data) ELSE e[k]) \in Partial(c.node)
      BY <1>1, <2>1
    <2> QED BY <2>2 DEF entriesWith
  <1> QED BY <1>3, <1>4, <1>5 DEF EntriesOK

(***************************************************************************)
(* The three ways that data goes: to the stack, since the node has one     *)
(* input; to the stack, with the other data of a complete entry; or to an  *)
(* entry that stays incomplete.                                            *)
(***************************************************************************)
LEMMA AddCases ==
    ASSUME workflow \in Workflow, NEW s \in State, NEW c \in Connection, NEW data \in Data
    PROVE  LET n == c.node
               L == Len(workflow.inputs[n])
               t == addNodeToBeExecuted(s, c, data)
               e == entriesOf(s.waiting, n)
           IN  \/ /\ L = 1
                  /\ t.stack = <<[node |-> n, data |-> <<data>>]>> \o s.stack
                  /\ t.waiting = s.waiting
                  /\ t = [stack |-> t.stack, waiting |-> t.waiting]
               \/ /\ L > 1
                  /\ \A i \in 1 .. L : filled(s, c, data)[i] # NoData
                  /\ lacking(s, c) # {}
                  /\ t.stack = <<[node |-> n, data |-> filled(s, c, data)]>> \o s.stack
                  /\ t.waiting = withEntries(s.waiting, n, without(e, index(s, c)))
                  /\ t = [stack |-> t.stack, waiting |-> t.waiting]
               \/ /\ L > 1
                  /\ Incomplete(s, c, data)
                  /\ t.stack = s.stack
                  /\ t.waiting = withEntries(s.waiting, n, entriesWith(s, c, data))
                  /\ t = [stack |-> t.stack, waiting |-> t.waiting]
  <1> DEFINE n == c.node
             L == Len(workflow.inputs[n])
             e == entriesOf(s.waiting, n)
             t == addNodeToBeExecuted(s, c, data)
  <1>1. n \in Node /\ L \in Nat /\ DOMAIN workflow.inputs[n] = 1 .. L /\ c.input \in 1 .. L
    BY WorkflowFacts DEF Connection
  <1>2. Cardinality(1 .. L) = L
    BY <1>1, FS_Interval
  <1>3. t = IF L = 1
            THEN [s EXCEPT !.stack = <<[node |-> n, data |-> <<data>>]>> \o @]
            ELSE IF \A i \in 1 .. L : filled(s, c, data)[i] # NoData
            THEN [stack |-> <<[node |-> n, data |-> filled(s, c, data)]>> \o s.stack,
                  waiting |-> withEntries(s.waiting, n, without(e, index(s, c)))]
            ELSE [s EXCEPT !.waiting = withEntries(@, n, entriesWith(s, c, data))]
    BY <1>1, <1>2 DEF addNodeToBeExecuted, filled, index, lacking, entriesWith
  <1>4. /\ [s EXCEPT !.stack = <<[node |-> n, data |-> <<data>>]>> \o @] =
              [stack |-> <<[node |-> n, data |-> <<data>>]>> \o s.stack, waiting |-> s.waiting]
        /\ [s EXCEPT !.waiting = withEntries(@, n, entriesWith(s, c, data))] =
              [stack |-> s.stack, waiting |-> withEntries(s.waiting, n, entriesWith(s, c, data))]
    BY DEF State
  <1>5. ASSUME L > 1, \A i \in 1 .. L : filled(s, c, data)[i] # NoData PROVE lacking(s, c) # {}
    <2>1. PICK i \in 1 .. L : i # c.input
      <3>1. 1 \in 1 .. L /\ 2 \in 1 .. L
        BY <1>1, <1>5
      <3> QED BY <3>1
    <2>2. lacking(s, c) = {} => filled(s, c, data)[i] = NoData
      BY <2>1 DEF filled
    <2> QED BY <1>5, <2>2
  <1> HIDE DEF t, n, L, e
  <1>6. L = 1 \/ L > 1
    BY <1>1
  <1>7. CASE L = 1
    <2>1. /\ t.stack = <<[node |-> n, data |-> <<data>>]>> \o s.stack
          /\ t.waiting = s.waiting
          /\ t = [stack |-> t.stack, waiting |-> t.waiting]
      BY <1>3, <1>4, <1>7
    <2> QED BY <1>7, <2>1 DEF t, n, L
  <1>8. CASE L > 1 /\ \A i \in 1 .. L : filled(s, c, data)[i] # NoData
    <2>1. L # 1
      BY <1>1, <1>8
    <2>2. /\ t.stack = <<[node |-> n, data |-> filled(s, c, data)]>> \o s.stack
          /\ t.waiting = withEntries(s.waiting, n, without(e, index(s, c)))
          /\ t = [stack |-> t.stack, waiting |-> t.waiting]
      BY <1>3, <1>8, <2>1
    <2>3. lacking(s, c) # {}
      BY <1>5, <1>8
    <2> QED BY <1>8, <2>2, <2>3 DEF t, n, L, e
  <1>9. CASE L > 1 /\ ~\A i \in 1 .. L : filled(s, c, data)[i] # NoData
    <2>1. L # 1
      BY <1>1, <1>9
    <2>2. /\ t.stack = s.stack
          /\ t.waiting = withEntries(s.waiting, n, entriesWith(s, c, data))
          /\ t = [stack |-> t.stack, waiting |-> t.waiting]
      BY <1>3, <1>4, <1>9, <2>1
    <2>3. Incomplete(s, c, data)
      BY <1>9 DEF Incomplete, L, n
    <2> QED BY <1>9, <2>2, <2>3 DEF t, n, L
  <1> QED BY <1>6, <1>7, <1>8, <1>9

(* Putting an item on top of the stack. *)
LEMMA PushType ==
    ASSUME NEW n \in Node, NEW L \in Nat, NEW data \in [1 .. L -> Datum], NEW stack \in Seq(Item)
    PROVE  LET x == [node |-> n, data |-> data]
               t == <<x>> \o stack
           IN  /\ x \in Item /\ t \in Seq(Item) /\ t # <<>> /\ Len(t) = Len(stack) + 1
               /\ t[1] = x /\ Head(t) = x
               /\ \A k \in 1 .. Len(stack) : t[k + 1] = stack[k]
  <1> DEFINE x == [node |-> n, data |-> data]
             t == <<x>> \o stack
  <1>1. x \in Item
    <2>1. data \in Seq(Datum)
      OBVIOUS
    <2> QED BY <2>1 DEF Item, Datum
  <1> HIDE DEF x
  <1>2. <<x>> \in Seq(Item) /\ Len(<<x>>) = 1 /\ <<x>>[1] = x
    BY <1>1
  <1>3. /\ t \in Seq(Item) /\ Len(t) = 1 + Len(stack) /\ Len(stack) \in Nat
        /\ \A i \in 1 .. 1 + Len(stack) : t[i] = IF i <= 1 THEN <<x>>[i] ELSE stack[i - 1]
    BY <1>2, ConcatProperties, LenProperties
  <1> HIDE DEF t
  <1>4. t[1] = x
    BY <1>2, <1>3
  <1>5. t # <<>>
    BY <1>3, EmptySeq
  <1>6. ASSUME NEW k \in 1 .. Len(stack) PROVE t[k + 1] = stack[k]
    <2>1. k + 1 \in 1 .. 1 + Len(stack) /\ ~(k + 1 <= 1) /\ (k + 1) - 1 = k
      BY <1>3
    <2> QED BY <1>3, <2>1
  <1>7. Head(t) = x
    BY <1>3, <1>4, <1>5
  <1> QED BY <1>1, <1>3, <1>4, <1>5, <1>6, <1>7 DEF t, x

(* Adding a node gives a state again. *)
LEMMA AddType ==
    ASSUME workflow \in Workflow, NEW s \in State, NEW c \in Connection, NEW data \in Data
    PROVE  addNodeToBeExecuted(s, c, data) \in State
  <1> DEFINE n == c.node
             L == Len(workflow.inputs[n])
             e == entriesOf(s.waiting, n)
             t == addNodeToBeExecuted(s, c, data)
  <1>1. /\ s.stack \in Seq(Item) /\ s.waiting \in Waiting /\ n \in Node /\ L \in Nat
        /\ EntriesOK(n, e) /\ filled(s, c, data) \in [1 .. L -> Datum]
    BY IndexFacts, WorkflowFacts
  <1>2. CASE /\ L = 1
             /\ t.stack = <<[node |-> n, data |-> <<data>>]>> \o s.stack
             /\ t.waiting = s.waiting
             /\ t = [stack |-> t.stack, waiting |-> t.waiting]
    <2>1. <<data>> \in [1 .. L -> Datum]
      BY <1>2 DEF Datum
    <2>2. t.stack \in Seq(Item)
      <3> DEFINE d == <<data>>
      <3>1. d \in [1 .. L -> Datum] /\ t.stack = <<[node |-> n, data |-> d]>> \o s.stack
        BY <1>2, <2>1
      <3> HIDE DEF t, n, L, d
      <3> QED BY <1>1, <3>1, PushType
    <2> HIDE DEF t
    <2> QED BY <1>1, <1>2, <2>2 DEF State, t
  <1>3. CASE /\ L > 1
             /\ lacking(s, c) # {}
             /\ t.stack = <<[node |-> n, data |-> filled(s, c, data)]>> \o s.stack
             /\ t.waiting = withEntries(s.waiting, n, without(e, index(s, c)))
             /\ t = [stack |-> t.stack, waiting |-> t.waiting]
    <2>1. t.stack \in Seq(Item)
      <3> HIDE DEF t, n, L
      <3> QED BY <1>1, <1>3, PushType
    <2>2. DOMAIN e # {}
      BY <1>3 DEF lacking
    <2>3. t.waiting \in Waiting
      <3> DEFINE f == without(e, index(s, c))
      <3>1. EntriesOK(n, f)
        BY <1>1, WithoutOK
      <3>2. DOMAIN entriesOf(s.waiting, n) # {}
        BY <2>2
      <3>3. t.waiting = withEntries(s.waiting, n, f)
        BY <1>3
      <3> HIDE DEF t, e, f
      <3> QED BY <1>1, <1>3, <3>1, <3>2, <3>3, WithEntriesFacts
    <2> HIDE DEF t
    <2> QED BY <1>3, <2>1, <2>3 DEF State, t
  <1>4. CASE /\ L > 1
             /\ Incomplete(s, c, data)
             /\ t.stack = s.stack
             /\ t.waiting = withEntries(s.waiting, n, entriesWith(s, c, data))
             /\ t = [stack |-> t.stack, waiting |-> t.waiting]
    <2>1. EntriesOK(n, entriesWith(s, c, data)) /\ DOMAIN entriesWith(s, c, data) # {}
      <3>1. Incomplete(s, c, data)
        BY <1>4
      <3>2. /\ EntriesOK(c.node, entriesWith(s, c, data))
            /\ DOMAIN entriesWith(s, c, data) = (DOMAIN entriesOf(s.waiting, c.node)) \cup {index(s, c)}
        BY <3>1, EntriesWithOK
      <3> HIDE DEF t, L
      <3> QED BY <3>2
    <2>2. t.waiting \in Waiting
      <3> HIDE DEF t
      <3> QED BY <1>1, <1>4, <2>1, WithEntriesFacts
    <2> HIDE DEF t
    <2> QED BY <1>1, <1>4, <2>2 DEF State, t
  <1> HIDE DEF t
  <1> QED BY <1>2, <1>3, <1>4, AddCases DEF t

(* Adding all nodes that the outputs of a run lead to gives a state. *)
LEMMA AddNodesType ==
    ASSUME workflow \in Workflow, NEW n \in Node, NEW r \in Nat, NEW outputs \in SUBSET Output,
           NEW s \in State
    PROVE  addNodes(s, n, r, outputs) \in State
  <1> DEFINE C == {c \in connectionsBySourceNode(n) : c.output \in outputs}
             Good == [A \in SUBSET C |-> State]
  <1>1. C \subseteq Connection
    <2>1. C \in SUBSET connectionsBySourceNode(n)
      OBVIOUS
    <2> HIDE DEF C
    <2> QED BY <2>1, ConnectionsFacts
  <1>2. \A c \in C : <<n, r, c.output>> \in Data
    BY DEF Data
  <1> HIDE DEF C
  <1>3. \A A \in SUBSET C : Good[A] = State
    OBVIOUS
  <1>4. \A A \in SUBSET C : \A c \in C \ A : \A t \in Good[A] :
           addNodeToBeExecuted(t, c, <<n, r, c.output>>) \in Good[A \cup {c}]
    <2> SUFFICES ASSUME NEW A \in SUBSET C, NEW c \in C \ A, NEW t \in State
                 PROVE  addNodeToBeExecuted(t, c, <<n, r, c.output>>) \in State
      BY <1>3
    <2>1. c \in Connection /\ <<n, r, c.output>> \in Data
      BY <1>1, <1>2
    <2> QED BY <2>1, AddType
  <1> HIDE DEF Good
  <1>5. {} \in SUBSET C /\ C \in SUBSET C
    OBVIOUS
  <1>6. addNodes(s, n, r, outputs) \in Good[C]
    BY <1>3, <1>4, <1>5, AddNodesReaches DEF C
  <1> QED BY <1>3, <1>5, <1>6

(* When the stack is empty, an entry of a node that waits may go there. *)
LEMMA NextWaitingCases ==
    ASSUME workflow \in Workflow, NEW s \in State
    PROVE  \/ /\ nextWaiting(s) = s
              /\ s.stack # <<>> \/ \A k \in 1 .. Len(s.waiting) : ~mayExecute(s, k)
           \/ /\ s.stack = <<>>
              /\ \E k \in 1 .. Len(s.waiting) : \E r \in DOMAIN s.waiting[k].entries :
                    LET n == s.waiting[k].node
                        e == s.waiting[k].entries
                        t == nextWaiting(s)
                    IN  /\ mayExecute(s, k) /\ r = firstEntry(s, k)
                        /\ t.stack = <<[node |-> n, data |-> e[r]]>>
                        /\ t.waiting = withEntries(s.waiting, n, without(e, r))
                        /\ t = [stack |-> t.stack, waiting |-> t.waiting]
  <1> DEFINE ready == {k \in 1 .. Len(s.waiting) : mayExecute(s, k)}
             k == Min(ready)
             n == s.waiting[k].node
             e == s.waiting[k].entries
             r == firstEntry(s, k)
             t == nextWaiting(s)
  <1>1. CASE s.stack # <<>> \/ ready = {}
    BY <1>1 DEF nextWaiting
  <1>2. CASE s.stack = <<>> /\ ready # {}
    <2>1. s.waiting \in Seq(Waiter) /\ Len(s.waiting) \in Nat
      BY LenProperties DEF State, Waiting
    <2>2. k \in 1 .. Len(s.waiting) /\ mayExecute(s, k)
      <3>1. ready \subseteq Nat
        BY <2>1
      <3>2. k \in ready
        <4> HIDE DEF ready
        <4> QED BY <1>2, <3>1, LeastIsMember
      <3> QED BY <3>2
    <2> HIDE DEF k
    <2>3. s.waiting[k] \in Waiter
      BY <2>1, <2>2, ElementOfSeq
    <2>4. r \in DOMAIN e
      <3>1. DOMAIN e # {} /\ DOMAIN e \subseteq Nat
        BY <2>3, WaiterFacts DEF EntriesOK
      <3> QED BY <3>1, LeastIsMember DEF firstEntry
    <2>5. t = [stack |-> <<[node |-> n, data |-> e[r]]>>,
               waiting |-> withEntries(s.waiting, n, without(e, r))]
      BY <1>2 DEF nextWaiting, k
    <2>6. /\ t.stack = <<[node |-> n, data |-> e[r]]>>
          /\ t.waiting = withEntries(s.waiting, n, without(e, r))
          /\ t = [stack |-> t.stack, waiting |-> t.waiting]
      <3> HIDE DEF t, n, e, r
      <3> QED BY <2>5
    <2>7. r = firstEntry(s, k)
      OBVIOUS
    <2> HIDE DEF r
    <2> QED BY <1>2, <2>2, <2>4, <2>6, <2>7
  <1> QED BY <1>1, <1>2

(* The check for waiting nodes keeps the types. *)
LEMMA NextWaitingType ==
    ASSUME workflow \in Workflow, NEW s \in State
    PROVE  nextWaiting(s) \in State
  <1>1. CASE nextWaiting(s) = s
    BY <1>1
  <1>2. CASE nextWaiting(s) # s
    <2> DEFINE t == nextWaiting(s)
    <2>1. PICK k \in 1 .. Len(s.waiting) : \E r \in DOMAIN s.waiting[k].entries :
              LET n == s.waiting[k].node
                  e == s.waiting[k].entries
              IN  /\ t.stack = <<[node |-> n, data |-> e[r]]>>
                  /\ t.waiting = withEntries(s.waiting, n, without(e, r))
                  /\ t = [stack |-> t.stack, waiting |-> t.waiting]
      BY <1>2, NextWaitingCases
    <2> DEFINE n == s.waiting[k].node
               e == s.waiting[k].entries
    <2>2. PICK r \in DOMAIN e : /\ t.stack = <<[node |-> n, data |-> e[r]]>>
                                /\ t.waiting = withEntries(s.waiting, n, without(e, r))
                                /\ t = [stack |-> t.stack, waiting |-> t.waiting]
      BY <2>1
    <2>3. s.waiting \in Waiting /\ s.waiting[k] \in Waiter
      BY ElementOfSeq DEF State, Waiting
    <2>4. n \in Node /\ EntriesOK(n, e) /\ Len(workflow.inputs[n]) > 1
      BY <2>3, WaiterFacts
    <2>5. entriesOf(s.waiting, n) = e
      BY <2>3, <2>4, EntriesFacts
    <2>6. Len(workflow.inputs[n]) \in Nat /\ e[r] \in [1 .. Len(workflow.inputs[n]) -> Datum]
      BY <2>4, WorkflowFacts DEF EntriesOK, Partial
    <2> HIDE DEF t, n, e
    <2>7. t.stack \in Seq(Item)
      <3> DEFINE x == [node |-> n, data |-> e[r]]
      <3>1. <<>> \in Seq(Item)
        BY EmptySeq
      <3>2. x \in Item
        BY <2>4, <2>6, <3>1, PushType
      <3> HIDE DEF x
      <3>3. <<x>> \in Seq(Item)
        BY <3>2
      <3> QED BY <2>2, <3>3 DEF x
    <2>8. t.waiting \in Waiting
      <3> DEFINE f == without(e, r)
      <3>1. EntriesOK(n, f) /\ t.waiting = withEntries(s.waiting, n, f)
        BY <2>2, <2>4, WithoutOK
      <3> HIDE DEF f
      <3>2. DOMAIN entriesOf(s.waiting, n) # {}
        BY <2>5
      <3> QED BY <2>3, <2>4, <3>1, <3>2, WithEntriesFacts
    <2> QED BY <2>2, <2>7, <2>8 DEF State, t
  <1> QED BY <1>1, <1>2

-----------------------------------------------------------------------------
(* Types *)

(* The behaviour of a node in its next run. *)
nextBehaviour(item) ==
    LET behaviours == workflow.behaviour[item.node]
    IN  behaviours[Min({Len(behaviours), Len(runData[item.node]) + 1})]

(* It is one of the node. *)
LEMMA NextBehaviourFacts ==
    ASSUME workflow \in Workflow, runData \in [Node -> Seq(Run)], NEW item \in Item
    PROVE  /\ nextBehaviour(item) \in Behaviour
           /\ nextBehaviour(item) \in Range(workflow.behaviour[item.node])
  <1> DEFINE bs == workflow.behaviour[item.node]
             S == {Len(bs), Len(runData[item.node]) + 1}
             i == Min(S)
  <1>1. item.node \in Node /\ bs \in Seq(Behaviour) /\ bs # <<>>
    BY WorkflowFacts DEF Item
  <1>2. Len(bs) \in Nat \ {0} /\ Len(runData[item.node]) \in Nat /\ DOMAIN bs = 1 .. Len(bs)
    BY <1>1, LenProperties, EmptySeq
  <1>3. i \in 1 .. Len(bs)
    <2>1. S # {} /\ S \subseteq Nat \ {0}
      BY <1>2
    <2>2. Min(S) \in S /\ \A x \in S : Min(S) <= x
      <3> HIDE DEF S
      <3> QED BY <2>1, LeastIsMember
    <2>3. Len(bs) \in S /\ i = Min(S)
      OBVIOUS
    <2> HIDE DEF S, i, bs
    <2>4. i \in Nat \ {0} /\ i <= Len(bs)
      BY <2>1, <2>2, <2>3
    <2> QED BY <1>2, <2>4
  <1>4. nextBehaviour(item) = bs[i]
    BY DEF nextBehaviour
  <1>5. bs[i] \in Behaviour
    <2> HIDE DEF i, bs
    <2> QED BY <1>1, <1>3, ElementOfSeq
  <1>6. bs[i] \in Range(bs)
    BY <1>2, <1>3 DEF Range
  <1> QED BY <1>4, <1>5, <1>6

(* What runNode may do. *)
LEMMA RunNodeType ==
    ASSUME workflow \in Workflow, runData \in [Node -> Seq(Run)], NEW item \in Item
    PROVE  /\ runNode(item).kind \in {"data", "error", "null", "wait"}
           /\ runNode(item).outputs \in SUBSET Output
           /\ runNode(item).kind = "null" => nextBehaviour(item).kind = "null"
  <1> DEFINE b == nextBehaviour(item)
  <1>1. item.node \in Node /\ 1 \in Output
    BY WorkflowFacts DEF Item
  <1>4. b \in Behaviour
    BY NextBehaviourFacts
  <1>5. b.kind \in {"data", "error", "null", "wait"} /\ b.outputs \in SUBSET Output
    <2> HIDE DEF b
    <2> QED BY <1>4 DEF Behaviour
  <1>6. CASE item.node \in disabled
    <2>1. runNode(item) = [kind |-> "data", outputs |-> IF item.data[1] = NoData THEN {} ELSE {1}]
      BY <1>6 DEF runNode
    <2> QED BY <1>1, <2>1
  <1>7. CASE item.node \notin disabled
    <2>1. runNode(item) = IF b.kind = "error" /\ retried THEN [b EXCEPT !.kind = "data"] ELSE b
      BY <1>7 DEF runNode, nextBehaviour
    <2> HIDE DEF b
    <2>2. CASE b.kind = "error" /\ retried
      <3>1. b \in [kind : {"data", "error"}, outputs : SUBSET Output]
        BY <1>4, <2>2 DEF Behaviour
      <3>2. runNode(item) = [b EXCEPT !.kind = "data"]
        BY <2>1, <2>2
      <3> QED BY <3>1, <3>2
    <2>3. CASE ~(b.kind = "error" /\ retried)
      <3>1. runNode(item) = b
        BY <2>1, <2>3
      <3> QED BY <1>5, <3>1 DEF b
    <2> QED BY <2>2, <2>3
  <1> QED BY <1>6, <1>7

(* What is recorded. *)
LEMMA RecordType ==
    ASSUME runData \in [Node -> Seq(Run)], executionData \in Item, NEW outputs \in SUBSET Output,
           NEW executionStatus \in {"success", "waiting", "error"}, record(outputs, executionStatus)
    PROVE  LET n == executionData.node
               run == [data |-> executionData.data, outputs |-> outputs,
                       executionStatus |-> executionStatus, error |-> executionStatus = "error"]
           IN  /\ n \in Node /\ run \in Run
               /\ runData' = [runData EXCEPT ![n] = Append(runData[n], run)]
               /\ runData' \in [Node -> Seq(Run)]
               /\ runData'[n] # <<>>
  <1> DEFINE n == executionData.node
             run == [data |-> executionData.data, outputs |-> outputs,
                     executionStatus |-> executionStatus, error |-> executionStatus = "error"]
  <1>1. n \in Node /\ run \in Run
    BY DEF Item, Run
  <1>2. runData' = [runData EXCEPT ![n] = Append(runData[n], run)]
    BY DEF record
  <1> HIDE DEF run
  <1>3. runData[n] \in Seq(Run)
    BY <1>1
  <1>4. Append(runData[n], run) \in Seq(Run) /\ Append(runData[n], run) # <<>>
    BY <1>1, <1>3, AppendLast
  <1>5. runData' \in [Node -> Seq(Run)] /\ runData'[n] # <<>>
    BY <1>1, <1>2, <1>4
  <1> QED BY <1>1, <1>2, <1>5 DEF run

(***************************************************************************)
(* Types, what waits in detail, and what the handlers rely on: there is a  *)
(* node to execute when an execution starts, and the one that an execution *)
(* stopped at is on top of the stack, with a run that can be taken back.   *)
(***************************************************************************)
Stopped == result \in {"success", "error", "waiting"} /\ nodeExecutionStack # <<>>

EngineInv ==
    /\ workflow \in Workflow
    /\ nodeExecutionStack \in Seq(Item)
    /\ waitingExecution \in Waiting
    /\ runData \in [Node -> Seq(Run)]
    /\ executionData \in Item \cup {NoItem}
    /\ disabled \in SUBSET Node
    /\ retried \in BOOLEAN
    /\ phase \in {"starting", "loop", "node", "reporting", "closing", "done"}
    /\ result \in Result \cup {"none"}
    /\ checked \in BOOLEAN
    /\ phase = "node" => executionData \in Item
    /\ phase \in {"starting", "loop", "node"} <=> result = "none"
    /\ result = "canceled" => status = "canceled"
    /\ result = "waiting" => nodeExecutionStack # <<>>
    /\ Stopped => runData[Head(nodeExecutionStack).node] # <<>>

(* The types of the nodes that wait depend on the workflow only. *)
LEMMA WaitingStays ==
    ASSUME workflow' = workflow
    PROVE  Waiting' = Waiting
  BY DEF Waiting, Waiter, EntriesOK, Partial

(* Taking back a run. *)
LEMMA FrontType ==
    ASSUME NEW S, NEW s \in Seq(S), s # <<>>
    PROVE  /\ Front(s) \in Seq(S) /\ Len(s) \in Nat \ {0} /\ Len(Front(s)) = Len(s) - 1
           /\ \A i \in 1 .. Len(s) - 1 : Front(s)[i] = s[i]
  <1>1. Len(s) \in Nat \ {0} /\ \A i \in 1 .. Len(s) : s[i] \in S
    BY LenProperties, EmptySeq
  <1>2. 1 \in Int /\ Len(s) - 1 \in Int /\ \A i \in 1 .. Len(s) - 1 : s[i] \in S
    BY <1>1
  <1>3. /\ SubSeq(s, 1, Len(s) - 1) \in Seq(S)
        /\ Len(SubSeq(s, 1, Len(s) - 1)) =
              IF 1 <= Len(s) - 1 THEN (Len(s) - 1) - 1 + 1 ELSE 0
        /\ \A i \in 1 .. (Len(s) - 1) - 1 + 1 : SubSeq(s, 1, Len(s) - 1)[i] = s[1 + i - 1]
    BY <1>2, SubSeqProperties
  <1>4. Front(s) = SubSeq(s, 1, Len(s) - 1)
    BY DEF Front
  <1>5. \A i \in 1 .. Len(s) - 1 : i \in 1 .. (Len(s) - 1) - 1 + 1 /\ 1 + i - 1 = i
    BY <1>1
  <1>6. Len(Front(s)) = Len(s) - 1
    <2>1. \A m \in Nat \ {0} : (IF 1 <= m - 1 THEN (m - 1) - 1 + 1 ELSE 0) = m - 1
      OBVIOUS
    <2> QED BY <1>1, <1>3, <1>4, <2>1
  <1> QED BY <1>1, <1>3, <1>4, <1>5, <1>6

(* The start. *)
LEMMA EngineInit ==
    ASSUME Init
    PROVE  EngineInv
  <1>1. workflow \in Workflow /\ 1 \in Node /\ 1 \in Output
    BY WorkflowFacts DEF Init
  <1> DEFINE d == <<1, 0, 1>>
             x == [node |-> 1, data |-> <<d>>]
  <1>2. d \in Datum
    BY <1>1 DEF Datum, Data
  <1>3. x \in Item /\ <<x>> \in Seq(Item) /\ <<x>> # <<>>
    <2> HIDE DEF d
    <2>1. <<d>> \in Seq(Datum)
      BY <1>2
    <2>2. x \in Item
      BY <1>1, <2>1 DEF Item, Datum
    <2> HIDE DEF x
    <2> QED BY <2>2
  <1>4. nodeExecutionStack = <<x>>
    BY DEF Init
  <1> HIDE DEF x
  <1>5. waitingExecution \in Waiting
    <2>1. <<>> \in Seq(Waiter) /\ Len(<<>>) = 0
      BY EmptySeq
    <2>2. waitingExecution = <<>>
      BY DEF Init
    <2> QED BY <2>1, <2>2 DEF Waiting
  <1>6. runData \in [Node -> Seq(Run)]
    <2>1. <<>> \in Seq(Run)
      BY EmptySeq
    <2> QED BY <2>1 DEF Init
  <1> QED BY <1>1, <1>3, <1>4, <1>5, <1>6 DEF Init, EngineInv, Stopped

(* Leaving the loop. *)
LEMMA ProcessSuccessType ==
    ASSUME NEW outcome \in {"success", "waiting", "error"}, processSuccessExecution(outcome)
    PROVE  /\ phase' \in {"reporting", "closing"} /\ result' \in Result
           /\ status = "canceled" => result' = "canceled"
           /\ status # "canceled" => result' = outcome
  BY DEF processSuccessExecution, Result

(* The node stops: it goes back on top, with the run that stopped it. *)
LEMMA NodeStopsType ==
    ASSUME EngineInv, NodeStops
    PROVE  EngineInv'
  <1> DEFINE outcome == IF runNode(executionData).kind = "wait" THEN "waiting" ELSE "error"
             stack == <<executionData>> \o nodeExecutionStack
  <1>1. /\ executionData \in Item /\ nodeExecutionStack \in Seq(Item)
        /\ runData \in [Node -> Seq(Run)] /\ workflow \in Workflow
    BY DEF NodeStops, EngineInv
  <1>2. outcome \in {"waiting", "error"}
    OBVIOUS
  <1>3. /\ record({}, outcome) /\ processSuccessExecution(outcome) /\ executionData' = NoItem
        /\ nodeExecutionStack' = stack
        /\ UNCHANGED <<workflow, waitingExecution, disabled, retried, status, checked>>
    BY DEF NodeStops
  <1> HIDE DEF outcome
  <1>4. /\ phase' \in {"reporting", "closing"} /\ result' \in Result /\ result' # "none"
        /\ result' = "canceled" => status' = "canceled"
    BY <1>2, <1>3, ProcessSuccessType DEF Result
  <1>5. {} \in SUBSET Output /\ outcome \in {"success", "waiting", "error"}
    BY <1>2
  <1>6. runData' \in [Node -> Seq(Run)] /\ runData'[executionData.node] # <<>>
    BY <1>1, <1>3, <1>5, RecordType
  <1>7. stack \in Seq(Item) /\ stack # <<>> /\ Head(stack) = executionData
    <2>1. /\ executionData = [node |-> executionData.node, data |-> executionData.data]
          /\ executionData.node \in Node /\ executionData.data \in Seq(Datum)
      BY <1>1 DEF Item, Datum
    <2>2. /\ Len(executionData.data) \in Nat
          /\ executionData.data \in [1 .. Len(executionData.data) -> Datum]
      BY <2>1, LenProperties
    <2> QED BY <1>1, <2>1, <2>2, PushType
  <1> HIDE DEF stack
  <1>8. waitingExecution' \in Waiting'
    BY <1>3, WaitingStays DEF EngineInv
  <1> QED BY <1>3, <1>4, <1>6, <1>7, <1>8 DEF EngineInv, Stopped

(* The node returns data: the stack and the nodes that wait stay ones.     *)
LEMMA NodeReturnsDataType ==
    ASSUME EngineInv, NodeReturnsData
    PROVE  EngineInv'
  <1> DEFINE n == executionData.node
             outputs == runNode(executionData).outputs
             s == [stack |-> nodeExecutionStack, waiting |-> waitingExecution]
             u == addNodes(s, n, Len(runData[n]) + 1, outputs)
             t == nextWaiting(u)
  <1>1. /\ executionData \in Item /\ nodeExecutionStack \in Seq(Item) /\ waitingExecution \in Waiting
        /\ runData \in [Node -> Seq(Run)] /\ workflow \in Workflow
        /\ result = "none"
    BY DEF NodeReturnsData, EngineInv
  <1>2. outputs \in SUBSET Output
    BY <1>1, RunNodeType
  <1>3. /\ record(outputs, "success") /\ phase' = "loop" /\ executionData' = NoItem
        /\ UNCHANGED <<workflow, disabled, retried, status, aborted, result, reports>>
    BY DEF NodeReturnsData
  <1>4. \/ UNCHANGED <<nodeExecutionStack, waitingExecution, checked>>
        \/ nodeExecutionStack' = t.stack /\ waitingExecution' = t.waiting /\ checked' = TRUE
    BY DEF NodeReturnsData
  <1> HIDE DEF outputs
  <1>5. runData' \in [Node -> Seq(Run)]
    BY <1>1, <1>2, <1>3, RecordType
  <1>6. t \in State
    <2>1. s \in State /\ n \in Node
      BY <1>1 DEF State, Item
    <2>2. Len(runData[n]) + 1 \in Nat
      BY <1>1, <2>1, LenProperties
    <2> HIDE DEF s, n
    <2>3. u \in State
      BY <1>1, <1>2, <2>1, <2>2, AddNodesType
    <2> HIDE DEF u
    <2> QED BY <1>1, <2>3, NextWaitingType
  <1> HIDE DEF t
  <1>7. nodeExecutionStack' \in Seq(Item) /\ waitingExecution' \in Waiting
    BY <1>1, <1>4, <1>6 DEF State
  <1>8. waitingExecution' \in Waiting'
    BY <1>3, <1>7, WaitingStays
  <1>9. checked' \in BOOLEAN
    BY <1>4 DEF EngineInv
  <1>10. /\ workflow' \in Workflow /\ disabled' \in SUBSET Node /\ retried' \in BOOLEAN
         /\ result' = "none"
    BY <1>1, <1>3 DEF EngineInv
  <1> QED BY <1>3, <1>5, <1>7, <1>8, <1>9, <1>10 DEF EngineInv, Stopped

(* Taking a node from the stack. *)
LEMMA TakeNodeType ==
    ASSUME EngineInv, TakeNode
    PROVE  EngineInv'
  <1>1. /\ nodeExecutionStack \in Seq(Item) /\ nodeExecutionStack # <<>> /\ phase = "loop"
        /\ result = "none"
        /\ nodeExecutionStack' = Tail(nodeExecutionStack) /\ checked' = FALSE
        /\ UNCHANGED <<workflow, waitingExecution, runData, disabled, retried, result>>
    BY DEF TakeNode, EngineInv
  <1>2. Head(nodeExecutionStack) \in Item /\ Tail(nodeExecutionStack) \in Seq(Item)
    BY <1>1, HeadTailProperties
  <1>3. \/ phase' = "node" /\ executionData' \in Item
        \/ phase' = "loop" /\ executionData' = executionData
    BY <1>1, <1>2 DEF TakeNode
  <1>4. waitingExecution' \in Waiting'
    BY <1>1, WaitingStays DEF EngineInv
  <1> QED BY <1>1, <1>2, <1>3, <1>4 DEF EngineInv, Stopped

(* A new instance takes back the run at which the last one stopped. *)
LEMMA GoesOnType ==
    ASSUME EngineInv, NEW start \in {"loop", "starting"}, goesOn(start),
           result \in {"error", "waiting"}, disabled' \in SUBSET Node, retried' \in BOOLEAN,
           LET n == Head(nodeExecutionStack).node
           IN  \/ runData' = runData
               \/ nodeExecutionStack # <<>> /\ runData' = [runData EXCEPT ![n] = Front(@)]
    PROVE  EngineInv'
  <1> DEFINE n == Head(nodeExecutionStack).node
  <1>1. nodeExecutionStack \in Seq(Item) /\ runData \in [Node -> Seq(Run)]
    BY DEF EngineInv
  <1>2. runData' \in [Node -> Seq(Run)]
    <2>1. CASE runData' = runData
      BY <1>1, <2>1
    <2>2. CASE nodeExecutionStack # <<>> /\ runData' = [runData EXCEPT ![n] = Front(runData[n])]
      <3>1. n \in Node
        <4>1. Head(nodeExecutionStack) \in Item
          BY <1>1, <2>2, HeadTailProperties
        <4> QED BY <4>1 DEF Item
      <3> HIDE DEF n
      <3>2. runData[n] # <<>>
        BY <2>2 DEF EngineInv, Stopped, n
      <3>3. Front(runData[n]) \in Seq(Run)
        BY <1>1, <3>1, <3>2, FrontType
      <3> QED BY <1>1, <2>2, <3>1, <3>3
    <2> QED BY <2>1, <2>2
  <1>3. /\ phase' = start /\ status' = "running" /\ result' = "none"
        /\ UNCHANGED <<workflow, nodeExecutionStack, waitingExecution, executionData, checked>>
    BY DEF goesOn
  <1>4. waitingExecution' \in Waiting'
    BY <1>3, WaitingStays DEF EngineInv
  <1> QED BY <1>1, <1>2, <1>3, <1>4 DEF EngineInv, Stopped

(* A rejection is caught. *)
LEMMA CatchType ==
    ASSUME catch, UNCHANGED status
    PROVE  /\ phase' = "closing" /\ result' \in Result /\ result' \in {"error", "canceled"}
           /\ result' = "canceled" => status' = "canceled"
  BY DEF catch, Result

(* workflowExecuteBefore fails: a failed run of the next node is recorded. *)
LEMMA BeforeFailsType ==
    ASSUME EngineInv, BeforeFails
    PROVE  EngineInv'
  <1> DEFINE item == Head(nodeExecutionStack)
             run == [data |-> item.data, outputs |-> {}, executionStatus |-> "error", error |-> FALSE]
  <1>1. nodeExecutionStack \in Seq(Item) /\ runData \in [Node -> Seq(Run)]
    BY DEF EngineInv
  <1>2. /\ catch
        /\ UNCHANGED <<workflow, nodeExecutionStack, waitingExecution, executionData, disabled,
                       retried, status, checked>>
    BY DEF BeforeFails
  <1>3. /\ phase' = "closing" /\ result' \in Result /\ result' \in {"error", "canceled"}
        /\ result' = "canceled" => status' = "canceled"
    BY <1>2, CatchType
  <1>4. waitingExecution' \in Waiting'
    BY <1>2, WaitingStays DEF EngineInv
  <1>5. CASE nodeExecutionStack = <<>>
    <2>1. runData' = runData
      BY <1>5 DEF BeforeFails
    <2> QED BY <1>2, <1>3, <1>4, <1>5, <2>1 DEF EngineInv, Stopped
  <1>6. CASE nodeExecutionStack # <<>>
    <2>1. item \in Item
      BY <1>1, <1>6, HeadTailProperties
    <2>2. run \in Run /\ item.node \in Node
      <3> HIDE DEF item
      <3> QED BY <2>1 DEF Run, Item
    <2>3. runData' = [m \in Node |-> IF m = item.node THEN <<run>> ELSE <<>>]
      BY <1>6 DEF BeforeFails
    <2> HIDE DEF run, item
    <2>4. <<run>> \in Seq(Run) /\ <<run>> # <<>> /\ <<>> \in Seq(Run)
      BY <2>2, EmptySeq
    <2>5. runData' \in [Node -> Seq(Run)] /\ runData'[item.node] # <<>>
      BY <2>2, <2>3, <2>4
    <2> QED BY <1>2, <1>3, <1>4, <2>5 DEF EngineInv, item
  <1> QED BY <1>5, <1>6

(* Every step keeps the types. *)
LEMMA EngineStep ==
    ASSUME EngineInv, [Next]_vars
    PROVE  EngineInv'
  <1> DEFINE Rest == <<workflow, nodeExecutionStack, waitingExecution, runData, disabled, retried>>
  <1>w. workflow' = workflow /\ waitingExecution' = waitingExecution => waitingExecution' \in Waiting'
    BY WaitingStays DEF EngineInv
  <1>h. nodeExecutionStack # <<>> => Head(nodeExecutionStack).node \in Node
    <2> SUFFICES ASSUME nodeExecutionStack # <<>> PROVE Head(nodeExecutionStack).node \in Node
      OBVIOUS
    <2>1. Head(nodeExecutionStack) \in Item
      BY HeadTailProperties DEF EngineInv
    <2> QED BY <2>1 DEF Item
  <1>1. CASE Begin
    BY <1>1, <1>w DEF Begin, EngineInv, Stopped
  <1>2. CASE BeforeFails
    BY <1>2, BeforeFailsType
  <1>3. CASE TakeNode
    BY <1>3, TakeNodeType
  <1>4. CASE NodeReturnsNull
    BY <1>4, <1>w DEF NodeReturnsNull, EngineInv, Stopped
  <1>5. CASE NodeReturnsData
    BY <1>5, NodeReturnsDataType
  <1>6. CASE NodeStops
    BY <1>6, NodeStopsType
  <1>7. CASE LoopEnds
    <2>1. /\ processSuccessExecution("success") /\ UNCHANGED <<Rest, executionData, checked, status>>
          /\ nodeExecutionStack = <<>> \/ status = "canceled"
      BY <1>7 DEF LoopEnds
    <2>2. /\ phase' \in {"reporting", "closing"} /\ result' \in Result
          /\ status = "canceled" => result' = "canceled"
          /\ status # "canceled" => result' = "success"
      BY <2>1, ProcessSuccessType
    <2> QED BY <1>w, <2>1, <2>2 DEF EngineInv, Stopped, Result
  <1>8. CASE AfterFails
    <2>1. /\ catch /\ phase = "reporting"
          /\ UNCHANGED <<Rest, executionData, checked, status>>
      BY <1>8 DEF AfterFails
    <2>2. /\ phase' = "closing" /\ result' \in Result /\ result' \in {"error", "canceled"}
          /\ result' = "canceled" => status' = "canceled"
          /\ result' = "error" => status # "canceled"
      BY <2>1, CatchType DEF catch
    <2> QED BY <1>w, <2>1, <2>2 DEF EngineInv, Stopped, Result
  <1>9. CASE Close
    BY <1>9, <1>w DEF Close, EngineInv, Stopped
  <1>10. CASE Cancel
    <2>1. status' = "canceled" /\ UNCHANGED <<Rest, executionData, checked, phase, result>>
      BY <1>10 DEF Cancel
    <2> QED BY <1>w, <2>1 DEF EngineInv, Stopped
  <1>11. CASE Timeout
    <2>1. status' = "canceled" /\ UNCHANGED <<Rest, executionData, checked, phase, result>>
      BY <1>11 DEF Timeout
    <2> QED BY <1>w, <2>1 DEF EngineInv, Stopped
  <1>12. CASE Resume
    <2>1. result = "waiting" /\ nodeExecutionStack # <<>>
      BY <1>12 DEF Resume, EngineInv
    <2>2. disabled' \in SUBSET Node /\ retried' \in BOOLEAN
      BY <1>12, <1>h, <2>1 DEF Resume, EngineInv
    <2> QED BY <1>12, <2>1, <2>2, GoesOnType DEF Resume
  <1>13. CASE Retry
    <2>1. disabled' \in SUBSET Node /\ retried' \in BOOLEAN
      BY <1>13, <1>h DEF Retry, EngineInv
    <2> QED BY <1>13, <2>1, GoesOnType DEF Retry
  <1>14. CASE UNCHANGED vars
    <2>1. UNCHANGED <<Rest, executionData, checked, phase, status, result>>
      BY <1>14 DEF vars
    <2> QED BY <1>w, <2>1 DEF EngineInv, Stopped
  <1> QED
    BY <1>1, <1>2, <1>3, <1>4, <1>5, <1>6, <1>7, <1>8, <1>9, <1>10, <1>11, <1>12, <1>13, <1>14
    DEF Next

(* EngineInv holds always. *)
LEMMA EngineInvariant == Spec => []EngineInv
  <1>1. Init => EngineInv
    BY EngineInit
  <1>2. EngineInv /\ [Next]_vars => EngineInv'
    BY EngineStep
  <1> QED BY <1>1, <1>2, PTL DEF Spec

(***************************************************************************)
(* Types of the engine, for every workflow: items carry data for inputs,   *)
(* each node waits with at least one entry, and every entry that waits     *)
(* lacks an input, whatever order data comes in and whatever joins do; and *)
(* what retries and resumptions take from the saved execution is there.    *)
(***************************************************************************)
THEOREM EngineTypeCorrect == Spec => []EngineTypeOK
  <1>1. EngineInv /\ ReportInv => EngineTypeOK
    <2> SUFFICES ASSUME EngineInv, ReportInv PROVE EngineTypeOK
      OBVIOUS
    <2>1. ASSUME NEW k \in 1 .. Len(waitingExecution)
          PROVE  /\ waitingExecution[k].node \in Node
                 /\ DOMAIN waitingExecution[k].entries # {}
                 /\ \A r \in DOMAIN waitingExecution[k].entries :
                       /\ r \in Nat
                       /\ waitingExecution[k].entries[r] \in Seq(Data \cup {NoData})
                       /\ NoData \in Range(waitingExecution[k].entries[r])
      <3> DEFINE x == waitingExecution[k]
      <3>1. x \in Waiter
        BY ElementOfSeq DEF EngineInv, Waiting
      <3> HIDE DEF x
      <3>2. x.node \in Node /\ DOMAIN x.entries # {} /\ EntriesOK(x.node, x.entries)
        BY <3>1, WaiterFacts
      <3>3. Len(workflow.inputs[x.node]) \in Nat
        BY <3>2, WorkflowFacts DEF EngineInv
      <3>4. ASSUME NEW r \in DOMAIN x.entries
            PROVE  /\ r \in Nat
                   /\ x.entries[r] \in Seq(Datum)
                   /\ NoData \in Range(x.entries[r])
        <4> DEFINE L == Len(workflow.inputs[x.node])
                   y == x.entries[r]
        <4>1. r \in Nat /\ y \in Partial(x.node)
          BY <3>2 DEF EntriesOK
        <4>2. y \in [1 .. L -> Datum] /\ \E i \in 1 .. L : y[i] = NoData
          BY <4>1 DEF Partial
        <4> HIDE DEF y, L
        <4>3. NoData \in Range(y)
          BY <4>2 DEF Range
        <4>4. y \in Seq(Datum)
          BY <3>3, <4>2 DEF L
        <4> QED BY <4>1, <4>3, <4>4 DEF y
      <3> QED BY <3>2, <3>4 DEF x, Datum
    <2> QED BY <2>1 DEF EngineInv, ReportInv, EngineTypeOK
  <1>2. Spec => []ReportInv
    BY ReportInvariant
  <1> QED BY <1>1, <1>2, EngineInvariant, PTL

-----------------------------------------------------------------------------
(* Where data is *)

(* The runs of a node that succeeded. *)
Succeeded(n) == {r \in 1 .. Len(runData[n]) : runData[n][r].executionStatus = "success"}

(* Datum d was sent to input i of node m: by a run of a node that is not   *)
(* the destination, on an output that leads to this input.                 *)
Sent(m, i, d) ==
    /\ d[1] \in Node \ {workflow.destination}
    /\ d[2] \in Succeeded(d[1])
    /\ d[3] \in runData[d[1]][d[2]].outputs
    /\ [output |-> d[3], node |-> m, input |-> i] \in connectionsBySourceNode(d[1])

(* An item or a run of node m holds d for input i. *)
Holds(n, ds, m, i, d) == n = m /\ i \in DOMAIN ds /\ ds[i] = d

(* The places of the stack, the entries and the runs that do so. *)
StackAt(stack, m, i, d) == {k \in 1 .. Len(stack) : Holds(stack[k].node, stack[k].data, m, i, d)}

At(entries, i, d) == {r \in DOMAIN entries : entries[r][i] = d}

EntriesAt(waiting, m, i, d) == At(entriesOf(waiting, m), i, d)

RunsAt(m, i, d) == {r \in Succeeded(m) : Holds(m, runData[m][r].data, m, i, d)}

IsOne(S) == \E p \in S : S = {p}

(* Stack and entries hold d nowhere, or at one place. *)
PendNone(s, m, i, d) == StackAt(s.stack, m, i, d) = {} /\ EntriesAt(s.waiting, m, i, d) = {}

PendOnce(s, m, i, d) ==
    \/ IsOne(StackAt(s.stack, m, i, d)) /\ EntriesAt(s.waiting, m, i, d) = {}
    \/ StackAt(s.stack, m, i, d) = {} /\ IsOne(EntriesAt(s.waiting, m, i, d))

PendSame(s, t, m, i, d) ==
    /\ PendNone(s, m, i, d) => PendNone(t, m, i, d)
    /\ PendOnce(s, m, i, d) => PendOnce(t, m, i, d)

current == [stack |-> nodeExecutionStack, waiting |-> waitingExecution]

InNode(m, i, d) == Holds(executionData.node, executionData.data, m, i, d)

(* The execution holds d nowhere, or at one place. *)
Free(m, i, d) == PendNone(current, m, i, d) /\ ~InNode(m, i, d) /\ RunsAt(m, i, d) = {}

Once(m, i, d) ==
    \/ PendOnce(current, m, i, d) /\ ~InNode(m, i, d) /\ RunsAt(m, i, d) = {}
    \/ PendNone(current, m, i, d) /\ InNode(m, i, d) /\ RunsAt(m, i, d) = {}
    \/ PendNone(current, m, i, d) /\ ~InNode(m, i, d) /\ IsOne(RunsAt(m, i, d))

(* Joins have two inputs with one source at most. *)
joinsOfTwo ==
    \A n \in Node : Len(workflow.inputs[n]) > 1 =>
        /\ Len(workflow.inputs[n]) = 2
        /\ \A i \in {1, 2} : \A c \in workflow.inputs[n][i] : workflow.inputs[n][i] = {c}

(* No source of a join has succeeded in a third run. *)
twoSuccesses ==
    \A n \in Node : Len(workflow.inputs[n]) > 1 =>
        \A i \in 1 .. Len(workflow.inputs[n]) : \A c \in workflow.inputs[n][i] :
            \A r \in Succeeded(c[1]) : r <= 2

(* All that was sent is held once, and all that is held was sent, but for  *)
(* the datum of the start item, which has run number 0.                    *)
HeldOnce ==
    \A m \in Node : \A i \in 1 .. Len(workflow.inputs[m]) : \A d \in Data :
        Sent(m, i, d) => Once(m, i, d) \/ (Free(m, i, d) /\ consumes(m))

HeldWasSent ==
    \A m \in Node : \A i \in 1 .. Len(workflow.inputs[m]) : \A d \in Data :
        ~Free(m, i, d) => d[2] = 0 \/ Sent(m, i, d)

(* No entry is empty, and each has index 0, or index 1 and data of second  *)
(* runs: there are never more than two, and the first goes first.          *)
EntryInOrder(e, r, m) ==
    /\ \E i \in 1 .. Len(workflow.inputs[m]) : e[i] # NoData
    /\ \A i \in 1 .. Len(workflow.inputs[m]) :
          e[i] # NoData => e[i][2] >= 1 /\ (r = 0 \/ (r = 1 /\ e[i][2] = 2))

EntriesInOrder(waiting) ==
    \A m \in Node : \A r \in DOMAIN entriesOf(waiting, m) : EntryInOrder(entriesOf(waiting, m)[r], r, m)

NoSuccess == \A n \in Node : Succeeded(n) = {}

(* A retry whose workflowExecuteBefore failed: it has lost its runs. *)
Dead ==
    /\ phase \in {"closing", "done"}
    /\ retried
    /\ result \in {"error", "canceled"}
    /\ NoSuccess

Delivered == HeldOnce /\ HeldWasSent /\ EntriesInOrder(waitingExecution)

(***************************************************************************)
(* What is to be shown: data is held once.  It needs that what is held was *)
(* sent, so that the data of a new run is held nowhere; that entries are   *)
(* in order, so that a new one overwrites none; that only the phase "node" *)
(* has a node in execution; and that a run that is taken back sent         *)
(* nothing, nor does one that a failing start replaces.                    *)
(***************************************************************************)
NodeIsExecuted == phase # "node" => executionData = NoItem

StoppedRun ==
    Stopped =>
        LET n == Head(nodeExecutionStack).node IN Len(runData[n]) \notin Succeeded(n)

NotStarted == phase = "starting" /\ ~retried => NoSuccess

DeliveryInv ==
    /\ NodeIsExecuted
    /\ StoppedRun
    /\ NotStarted
    /\ ~Dead /\ joinsOfTwo /\ twoSuccesses => Delivered
-----------------------------------------------------------------------------
(* How the places of data change *)

(* Stack u is t with x on top. *)
OnTop(u, x, t) ==
    /\ Len(t) \in Nat
    /\ Len(u) = Len(t) + 1
    /\ u[1] = x
    /\ \A k \in 1 .. Len(t) : u[k + 1] = t[k]

(* One item more on top of a stack. *)
LEMMA StackMore ==
    ASSUME NEW u, NEW x, NEW t, OnTop(u, x, t), NEW m, NEW i, NEW d
    PROVE  /\ StackAt(u, m, i, d) = {} <=>
                 ~Holds(x.node, x.data, m, i, d) /\ StackAt(t, m, i, d) = {}
           /\ IsOne(StackAt(u, m, i, d)) <=>
                 \/ Holds(x.node, x.data, m, i, d) /\ StackAt(t, m, i, d) = {}
                 \/ ~Holds(x.node, x.data, m, i, d) /\ IsOne(StackAt(t, m, i, d))
  <1> DEFINE H == Holds(x.node, x.data, m, i, d)
             A == StackAt(t, m, i, d)
             B == StackAt(u, m, i, d)
  <1>1. A \subseteq 1 .. Len(t) /\ B \subseteq 1 .. Len(t) + 1
    BY DEF StackAt, OnTop
  <1>2. 1 \in B <=> H
    BY DEF StackAt, OnTop
  <1>3. \A k \in 1 .. Len(t) : k \in A <=> k + 1 \in B
    BY DEF StackAt, OnTop
  <1>n. Len(t) \in Nat
    BY DEF OnTop
  <1> HIDE DEF A, B, H
  <1>4. \A b \in B : b = 1 \/ (b - 1 \in A /\ b = (b - 1) + 1)
    BY <1>1, <1>3, <1>n
  <1>5. \A a \in A : a + 1 \in B /\ a \in Nat /\ a + 1 # 1
    BY <1>1, <1>3, <1>n
  <1>6. B = {} <=> ~H /\ A = {}
    BY <1>2, <1>4, <1>5
  <1>7. ASSUME IsOne(B) PROVE (H /\ A = {}) \/ (~H /\ IsOne(A))
    <2>1. PICK b \in B : B = {b}
      BY <1>7 DEF IsOne
    <2>2. CASE b = 1
      BY <1>2, <1>5, <2>1, <2>2
    <2>3. CASE b # 1
      <3>1. b - 1 \in A /\ ~H
        BY <1>2, <1>4, <2>1, <2>3
      <3>2. \A a \in A : a = b - 1
        BY <1>1, <1>5, <2>1
      <3> QED BY <3>1, <3>2 DEF IsOne
    <2> QED BY <2>2, <2>3
  <1>8. ASSUME H, A = {} PROVE IsOne(B)
    BY <1>2, <1>4, <1>8 DEF IsOne
  <1>9. ASSUME ~H, IsOne(A) PROVE IsOne(B)
    <2>1. PICK a \in A : A = {a}
      BY <1>9 DEF IsOne
    <2>2. a + 1 \in B /\ \A b \in B : b = a + 1
      BY <1>2, <1>4, <1>5, <1>9, <2>1
    <2> QED BY <2>2 DEF IsOne
  <1> QED BY <1>6, <1>7, <1>8, <1>9 DEF A, B, H

(* Pushing an item puts it there. *)
LEMMA PushIsOnTop ==
    ASSUME NEW x \in Item, NEW t \in Seq(Item)
    PROVE  OnTop(<<x>> \o t, x, t)
  <1> DEFINE u == <<x>> \o t
  <1>1. <<x>> \in Seq(Item) /\ Len(<<x>>) = 1 /\ <<x>>[1] = x
    OBVIOUS
  <1>2. /\ Len(u) = 1 + Len(t) /\ Len(t) \in Nat
        /\ \A k \in 1 .. 1 + Len(t) : u[k] = IF k <= 1 THEN <<x>>[k] ELSE t[k - 1]
    BY <1>1, ConcatProperties, LenProperties
  <1> HIDE DEF u
  <1>3. Len(u) = Len(t) + 1 /\ u[1] = x
    BY <1>1, <1>2
  <1>4. ASSUME NEW k \in 1 .. Len(t) PROVE u[k + 1] = t[k]
    <2>1. k + 1 \in 1 .. 1 + Len(t) /\ ~(k + 1 <= 1) /\ (k + 1) - 1 = k
      BY <1>2
    <2> QED BY <1>2, <2>1
  <1>5. OnTop(u, x, t)
    BY <1>2, <1>3, <1>4 DEF OnTop
  <1> QED BY <1>5 DEF u

(* One entry less. *)
LEMMA AtWithout ==
    ASSUME NEW e, NEW r, NEW i, NEW d
    PROVE  At(without(e, r), i, d) = At(e, i, d) \ {r}
  BY DEF At, without

(* A stack is made of another, with the data of an entry that goes.        *)
Moved(S, T, E, F, r) ==
    /\ T = {} <=> S = {} /\ r \notin E
    /\ IsOne(T) <=> (r \in E /\ S = {}) \/ (r \notin E /\ IsOne(S))
    /\ F = E \ {r}

(* Data that goes with the entry is where it was once. *)
LEMMA MoveKeeps ==
    ASSUME NEW S, NEW T, NEW E, NEW F, NEW r, Moved(S, T, E, F, r)
    PROVE  /\ S = {} /\ E = {} => T = {} /\ F = {}
           /\ (IsOne(S) /\ E = {}) \/ (S = {} /\ IsOne(E))
                 => (IsOne(T) /\ F = {}) \/ (T = {} /\ IsOne(F))
  <1>1. S = {} /\ E = {} => T = {} /\ F = {}
    BY DEF Moved
  <1>2. IsOne(S) /\ E = {} => IsOne(T) /\ F = {}
    BY DEF Moved
  <1>3. ASSUME S = {}, IsOne(E) PROVE (IsOne(T) /\ F = {}) \/ (T = {} /\ IsOne(F))
    <2>1. PICK p \in E : E = {p}
      BY <1>3 DEF IsOne
    <2>2. CASE p = r
      BY <1>3, <2>1, <2>2 DEF Moved
    <2>3. CASE p # r
      <3>1. F = {p} /\ r \notin E
        BY <2>1, <2>3 DEF Moved
      <3> QED BY <1>3, <3>1 DEF IsOne, Moved
    <2> QED BY <2>2, <2>3
  <1> QED BY <1>1, <1>2, <1>3

(* Entries that a node may be given. *)
Fits(w, n, e) ==
    /\ w \in Waiting
    /\ n \in Node
    /\ EntriesOK(n, e)
    /\ Len(workflow.inputs[n]) > 1
    /\ DOMAIN e # {} \/ DOMAIN entriesOf(w, n) # {}

(* The places of data with a node that waits, after withEntries. *)
LEMMA WithEntriesAt ==
    ASSUME NEW w, NEW n, NEW e, Fits(w, n, e), NEW i, NEW d
    PROVE  /\ EntriesAt(withEntries(w, n, e), n, i, d) = At(e, i, d)
           /\ \A m \in Node \ {n} : EntriesAt(withEntries(w, n, e), m, i, d) = EntriesAt(w, m, i, d)
  <1> DEFINE v == withEntries(w, n, e)
  <1>1. /\ DOMAIN e # {} => entriesOf(v, n) = e
        /\ DOMAIN e = {} => DOMAIN entriesOf(v, n) = {}
        /\ \A m \in Node \ {n} : entriesOf(v, m) = entriesOf(w, m)
    BY WithEntriesFacts DEF Fits
  <1> HIDE DEF v
  <1>2. EntriesAt(v, n, i, d) = At(e, i, d)
    <2>1. CASE DOMAIN e # {}
      BY <1>1, <2>1 DEF EntriesAt
    <2>2. CASE DOMAIN e = {}
      BY <1>1, <2>2 DEF EntriesAt, At
    <2> QED BY <2>1, <2>2
  <1>3. \A m \in Node \ {n} : EntriesAt(v, m, i, d) = EntriesAt(w, m, i, d)
    BY <1>1 DEF EntriesAt
  <1> QED BY <1>2, <1>3 DEF v

(* A datum that is added to an incomplete entry, and nothing else, is there. *)
LEMMA EntriesWithAt ==
    ASSUME workflow \in Workflow, NEW s \in State, NEW c \in Connection, NEW data \in Data,
           Incomplete(s, c, data),
           lacking(s, c) # {} \/ index(s, c) \notin DOMAIN entriesOf(s.waiting, c.node),
           NEW i \in 1 .. Len(workflow.inputs[c.node]), NEW d \in Data
    PROVE  At(entriesWith(s, c, data), i, d) =
              EntriesAt(s.waiting, c.node, i, d)
                 \cup (IF i = c.input /\ d = data THEN {index(s, c)} ELSE {})
  <1> DEFINE e == entriesOf(s.waiting, c.node)
             f == entriesWith(s, c, data)
             k == index(s, c)
             x == filled(s, c, data)
  <1>1. /\ DOMAIN f = (DOMAIN e) \cup {k} /\ f[k] = x
        /\ \A j \in (DOMAIN e) \ {k} : f[j] = e[j]
    BY EntriesWithOK
  <1>2. x[i] = IF i = c.input THEN data ELSE IF lacking(s, c) # {} THEN e[k][i] ELSE NoData
    BY DEF filled
  <1>3. lacking(s, c) # {} => k \in DOMAIN e /\ e[k][c.input] = NoData
    BY IndexFacts DEF lacking
  <1>4. d # NoData
    BY EngineAssumption DEF Data
  <1>5. lacking(s, c) # {} \/ k \notin DOMAIN e
    OBVIOUS
  <1>6. EntriesAt(s.waiting, c.node, i, d) = At(e, i, d)
    BY DEF EntriesAt
  <1> HIDE DEF e, f, k, x
  <1>7. k \in At(f, i, d) <=> x[i] = d
    BY <1>1 DEF At
  <1>8. \A j : j # k => (j \in At(f, i, d) <=> j \in At(e, i, d))
    BY <1>1 DEF At
  <1>9. k \in At(e, i, d) <=> (k \in DOMAIN e /\ e[k][i] = d)
    BY DEF At
  <1>10. CASE i = c.input
    <2>1. k \notin At(e, i, d)
      BY <1>3, <1>4, <1>5, <1>9, <1>10
    <2>2. k \in At(f, i, d) <=> d = data
      BY <1>2, <1>7, <1>10
    <2>3. At(f, i, d) = At(e, i, d) \cup (IF d = data THEN {k} ELSE {})
      BY <1>8, <2>1, <2>2
    <2> QED BY <1>6, <1>10, <2>3 DEF f, k
  <1>11. CASE i # c.input
    <2>1. k \in At(f, i, d) <=> k \in At(e, i, d)
      BY <1>2, <1>3, <1>4, <1>5, <1>7, <1>9, <1>11
    <2>2. At(f, i, d) = At(e, i, d)
      <3>1. \A j : j \in At(f, i, d) <=> j \in At(e, i, d)
        BY <1>8, <2>1
      <3> QED BY <3>1
    <2> QED BY <1>6, <1>11, <2>2 DEF f
  <1> QED BY <1>10, <1>11

(***************************************************************************)
(* addNodeToBeExecuted adds the datum once, on the stack or to an entry,   *)
(* and leaves all other data where it is or moves it with its entry: if    *)
(* the entry that it makes, when none lacks the input, is a new one.       *)
(***************************************************************************)
LEMMA AddKeeps ==
    ASSUME workflow \in Workflow, NEW s \in State, NEW c \in Connection, NEW data \in Data,
           lacking(s, c) # {} \/ index(s, c) \notin DOMAIN entriesOf(s.waiting, c.node),
           NEW m \in Node, NEW i \in 1 .. Len(workflow.inputs[m]), NEW d \in Data
    PROVE  LET t == addNodeToBeExecuted(s, c, data)
           IN  IF m = c.node /\ i = c.input /\ d = data
               THEN PendNone(s, m, i, d) => PendOnce(t, m, i, d)
               ELSE PendSame(s, t, m, i, d)
  <1> DEFINE n == c.node
             L == Len(workflow.inputs[n])
             e == entriesOf(s.waiting, n)
             k == index(s, c)
             y == filled(s, c, data)
             t == addNodeToBeExecuted(s, c, data)
             New == m = n /\ i = c.input /\ d = data
             S == StackAt(s.stack, m, i, d)
             T == StackAt(t.stack, m, i, d)
             E == EntriesAt(s.waiting, m, i, d)
             F == EntriesAt(t.waiting, m, i, d)
             Goal == IF New THEN PendNone(s, m, i, d) => PendOnce(t, m, i, d)
                            ELSE PendSame(s, t, m, i, d)
  <1> SUFFICES Goal
    OBVIOUS
  <1>1. /\ s.stack \in Seq(Item) /\ s.waiting \in Waiting /\ n \in Node /\ L \in Nat
        /\ EntriesOK(n, e) /\ y \in [1 .. L -> Datum] /\ c.input \in 1 .. L
        /\ lacking(s, c) # {} => k \in lacking(s, c)
    BY IndexFacts, WorkflowFacts
  <1>g. ASSUME \/ New /\ (S = {} /\ E = {} => (IsOne(T) /\ F = {}) \/ (T = {} /\ IsOne(F)))
               \/ /\ ~New
                  /\ S = {} /\ E = {} => T = {} /\ F = {}
                  /\ (IsOne(S) /\ E = {}) \/ (S = {} /\ IsOne(E))
                        => (IsOne(T) /\ F = {}) \/ (T = {} /\ IsOne(F))
        PROVE  Goal
    <2> HIDE DEF t, New, n
    <2> QED BY <1>g DEF PendNone, PendOnce, PendSame
  <1>2. CASE /\ L = 1
             /\ t.stack = <<[node |-> n, data |-> <<data>>]>> \o s.stack
             /\ t.waiting = s.waiting
    <2> DEFINE dd == <<data>>
               x == [node |-> n, data |-> dd]
               H == Holds(x.node, x.data, m, i, d)
    <2>1. dd \in [1 .. L -> Datum] /\ x.node = n /\ x.data = dd
      BY <1>2 DEF Datum
    <2>2. x \in Item
      <3> HIDE DEF dd, n, L
      <3> QED BY <1>1, <2>1, PushType
    <2>3. H <=> New
      <3>1. c.input = 1
        BY <1>1, <1>2
      <3>2. m = n => i = 1
        <4>1. L = 1
          BY <1>2
        <4>2. m = n => i \in 1 .. L
          OBVIOUS
        <4> HIDE DEF L, n
        <4> QED BY <4>1, <4>2
      <3> QED BY <3>1, <3>2 DEF Holds
    <2>4. t.stack = <<x>> \o s.stack
      BY <1>2
    <2> HIDE DEF x, H, t, New, Goal
    <2>5. OnTop(t.stack, x, s.stack)
      BY <1>1, <2>2, <2>4, PushIsOnTop
    <2>6. (T = {} <=> ~H /\ S = {}) /\ (IsOne(T) <=> (H /\ S = {}) \/ (~H /\ IsOne(S)))
      BY <2>5, StackMore DEF H
    <2>7. F = E
      BY <1>2
    <2> HIDE DEF T, S, E, F
    <2> QED BY <1>g, <2>3, <2>6, <2>7
  <1>3. CASE /\ L > 1
             /\ lacking(s, c) # {}
             /\ t.stack = <<[node |-> n, data |-> y]>> \o s.stack
             /\ t.waiting = withEntries(s.waiting, n, without(e, k))
    <2> DEFINE x == [node |-> n, data |-> y]
               f == without(e, k)
               H == Holds(x.node, x.data, m, i, d)
    <2>1. x.node = n /\ x.data = y
      OBVIOUS
    <2>2. x \in Item /\ t.stack = <<x>> \o s.stack
      <3>1. x \in Item
        <4> HIDE DEF y, n, L
        <4> QED BY <1>1, PushType
      <3> QED BY <1>3, <3>1
    <2>3. k \in DOMAIN e /\ e[k][c.input] = NoData
      BY <1>1, <1>3 DEF lacking
    <2>4. d # NoData
      BY EngineAssumption DEF Data
    <2>5. m = n => H <=> y[i] = d
      BY <1>1, <2>1 DEF Holds
    <2>6. m = n => y[i] = IF i = c.input THEN data ELSE e[k][i]
      BY <1>3 DEF filled
    <2>7. EntriesOK(n, f) /\ DOMAIN e # {}
      BY <1>1, <2>3, WithoutOK
    <2>8. /\ EntriesAt(t.waiting, n, i, d) = At(e, i, d) \ {k}
          /\ m # n => F = E
      <3>1. /\ t.waiting = withEntries(s.waiting, n, f) /\ DOMAIN entriesOf(s.waiting, n) # {}
            /\ Len(workflow.inputs[n]) > 1
        BY <1>3, <2>7
      <3>2. At(f, i, d) = At(e, i, d) \ {k}
        BY AtWithout
      <3> HIDE DEF t, f, e, n, k, L
      <3>3. Fits(s.waiting, n, f)
        BY <1>1, <2>7, <3>1 DEF Fits
      <3>4. /\ EntriesAt(t.waiting, n, i, d) = At(f, i, d)
            /\ \A l \in Node \ {n} : EntriesAt(t.waiting, l, i, d) = EntriesAt(s.waiting, l, i, d)
        BY <3>1, <3>3, WithEntriesAt
      <3> QED BY <3>2, <3>4
    <2>9. EntriesAt(s.waiting, n, i, d) = At(e, i, d)
      BY DEF EntriesAt
    <2>10. k \in At(e, i, d) <=> e[k][i] = d
      BY <2>3 DEF At
    <2>11. m # n => ~H
      BY <2>1 DEF Holds
    <2> HIDE DEF x, H, t, y, e, k, Goal
    <2>12. OnTop(t.stack, x, s.stack)
      BY <1>1, <2>2, PushIsOnTop
    <2>13. (T = {} <=> ~H /\ S = {}) /\ (IsOne(T) <=> (H /\ S = {}) \/ (~H /\ IsOne(S)))
      BY <2>12, StackMore DEF H
    <2> HIDE DEF T, S, n
    <2>14. CASE m # n
      <3>1. ~New /\ F = E
        BY <2>8, <2>14
      <3> HIDE DEF E, F, New
      <3> QED BY <1>g, <2>11, <2>13, <2>14, <3>1
    <2>15. CASE m = n /\ ~New
      <3>1. H <=> k \in E
        BY <2>3, <2>4, <2>5, <2>6, <2>9, <2>10, <2>15
      <3>2. F = E \ {k}
        BY <2>8, <2>9, <2>15
      <3> HIDE DEF E, F, New
      <3>3. Moved(S, T, E, F, k)
        BY <2>13, <3>1, <3>2 DEF Moved
      <3> QED BY <1>g, <2>15, <3>3, MoveKeeps
    <2>16. CASE New
      <3>1. H
        BY <2>5, <2>6, <2>16
      <3>2. F = E \ {k}
        BY <2>8, <2>9, <2>16
      <3> HIDE DEF E, F, New
      <3> QED BY <1>g, <2>13, <2>16, <3>1, <3>2
    <2> QED BY <2>14, <2>15, <2>16
  <1>4. CASE /\ L > 1
             /\ Incomplete(s, c, data)
             /\ t.stack = s.stack
             /\ t.waiting = withEntries(s.waiting, n, entriesWith(s, c, data))
    <2> DEFINE f == entriesWith(s, c, data)
    <2>1. EntriesOK(n, f) /\ DOMAIN f # {}
      <3>1. Incomplete(s, c, data)
        BY <1>4
      <3>2. EntriesOK(n, f) /\ DOMAIN f = (DOMAIN e) \cup {k}
        BY <3>1, EntriesWithOK, ZenonT(60)
      <3> HIDE DEF f
      <3> QED BY <3>2
    <2>2. m = n => At(f, i, d) = E \cup (IF i = c.input /\ d = data THEN {k} ELSE {})
      BY <1>4, EntriesWithAt
    <2>3. F = IF m = n THEN At(f, i, d) ELSE E
      <3>1. t.waiting = withEntries(s.waiting, n, f) /\ Len(workflow.inputs[n]) > 1
        BY <1>4
      <3> HIDE DEF t, f, n, L
      <3>2. Fits(s.waiting, n, f)
        BY <1>1, <2>1, <3>1 DEF Fits
      <3>3. /\ EntriesAt(t.waiting, n, i, d) = At(f, i, d)
            /\ \A l \in Node \ {n} : EntriesAt(t.waiting, l, i, d) = EntriesAt(s.waiting, l, i, d)
        BY <3>1, <3>2, WithEntriesAt
      <3> QED BY <3>3
    <2>4. F = E \cup (IF New THEN {k} ELSE {})
      <3> HIDE DEF F, E, f, k
      <3> QED BY <2>2, <2>3
    <2>5. T = S
      BY <1>4
    <2> HIDE DEF T, S, E, F, New, Goal, k
    <2>6. CASE New
      <3>1. E = {} => IsOne(F)
        BY <2>4, <2>6 DEF IsOne
      <3> QED BY <1>g, <2>5, <2>6, <3>1
    <2>7. CASE ~New
      <3>1. F = E
        BY <2>4, <2>7
      <3> QED BY <1>g, <2>5, <2>7, <3>1
    <2> QED BY <2>6, <2>7
  <1>5. Goal
    <2> HIDE DEF t, Goal
    <2> QED BY <1>2, <1>3, <1>4, AddCases DEF t
  <1> QED BY <1>5

-----------------------------------------------------------------------------
(* The order of entries *)

(* withEntries, with entries in order. *)
LEMMA WithEntriesInOrder ==
    ASSUME NEW w, NEW n, NEW e, Fits(w, n, e), EntriesInOrder(w),
           \A r \in DOMAIN e : EntryInOrder(e[r], r, n)
    PROVE  EntriesInOrder(withEntries(w, n, e))
  <1> DEFINE v == withEntries(w, n, e)
  <1>1. /\ DOMAIN e # {} => entriesOf(v, n) = e
        /\ DOMAIN e = {} => DOMAIN entriesOf(v, n) = {}
        /\ \A m \in Node \ {n} : entriesOf(v, m) = entriesOf(w, m)
    BY WithEntriesFacts DEF Fits
  <1> HIDE DEF v
  <1>2. ASSUME NEW m \in Node, NEW r \in DOMAIN entriesOf(v, m)
        PROVE  EntryInOrder(entriesOf(v, m)[r], r, m)
    <2>1. CASE m = n
      BY <1>1, <2>1
    <2>2. CASE m # n
      <3>1. entriesOf(v, m) = entriesOf(w, m)
        BY <1>1, <2>2
      <3> QED BY <3>1 DEF EntriesInOrder
    <2> QED BY <2>1, <2>2
  <1>3. EntriesInOrder(v)
    BY <1>2 DEF EntriesInOrder
  <1> QED BY <1>3 DEF v

(* What the entries of a node hold for an input is from earlier runs than  *)
(* a datum that comes there.                                               *)
Later(s, c, data) ==
    \A r \in DOMAIN entriesOf(s.waiting, c.node) :
        LET x == entriesOf(s.waiting, c.node)[r][c.input] IN x # NoData => x[2] < data[2]

(* A datum of a first or second run that may go to a node. *)
Comes(s, c, data) ==
    /\ EntriesInOrder(s.waiting)
    /\ data[2] >= 1
    /\ Len(workflow.inputs[c.node]) > 1 => data[2] <= 2
    /\ Later(s, c, data)

(***************************************************************************)
(* When no entry lacks the input, the one that is made for the datum is    *)
(* new, and has index 0, or 1 for the datum of a second run.               *)
(***************************************************************************)
LEMMA NewEntryFits ==
    ASSUME workflow \in Workflow, NEW s \in State, NEW c \in Connection, NEW data \in Data,
           Comes(s, c, data), lacking(s, c) = {}
    PROVE  /\ index(s, c) \notin DOMAIN entriesOf(s.waiting, c.node)
           /\ index(s, c) = 0 \/ (index(s, c) = 1 /\ data[2] = 2)
  <1> DEFINE n == c.node
             L == Len(workflow.inputs[n])
             e == entriesOf(s.waiting, n)
  <1>1. /\ s.waiting \in Waiting /\ n \in Node /\ EntriesOK(n, e) /\ c.input \in 1 .. L
        /\ L \in Nat
    BY IndexFacts, WorkflowFacts
  <1>2. data[2] \in Nat
    BY DEF Data
  <1>3. index(s, c) = Cardinality(DOMAIN e)
    BY DEF index
  <1>4. CASE DOMAIN e = {}
    <2>1. Cardinality(DOMAIN e) = 0
      BY <1>4, FS_EmptySet
    <2> HIDE DEF e
    <2> QED BY <1>3, <1>4, <2>1 DEF e
  <1>5. CASE DOMAIN e # {}
    <2>1. L > 1
      <3>1. PICK k \in 1 .. Len(s.waiting) : s.waiting[k].node = n
        BY <1>1, <1>5, EntriesFacts
      <3>2. s.waiting[k] \in Waiter
        BY <1>1, ElementOfSeq DEF Waiting
      <3> QED BY <3>1, <3>2, WaiterFacts
    <2>2. data[2] <= 2
      BY <2>1 DEF Comes
    <2>3. ASSUME NEW r \in DOMAIN e PROVE r = 0 /\ data[2] = 2
      <3> DEFINE x == e[r][c.input]
      <3>1. x # NoData
        BY DEF lacking
      <3>2. EntryInOrder(e[r], r, n)
        BY <1>1 DEF Comes, EntriesInOrder
      <3>3. x[2] >= 1 /\ (r = 0 \/ (r = 1 /\ x[2] = 2))
        BY <1>1, <3>1, <3>2 DEF EntryInOrder
      <3>4. x[2] < data[2]
        BY <3>1 DEF Comes, Later
      <3>5. x[2] \in Nat
        <4>1. e[r] \in Partial(n)
          BY <1>1 DEF EntriesOK
        <4> HIDE DEF e
        <4>2. x \in Datum
          BY <1>1, <4>1 DEF Partial
        <4> HIDE DEF x
        <4> QED BY <3>1, <4>2 DEF Datum, Data
      <3> HIDE DEF x
      <3> QED BY <1>2, <2>2, <3>3, <3>4, <3>5
    <2> HIDE DEF e
    <2>4. DOMAIN e = {0} /\ data[2] = 2
      BY <1>5, <2>3
    <2>5. Cardinality(DOMAIN e) = 1
      BY <2>4, FS_Singleton
    <2> QED BY <1>3, <2>4, <2>5 DEF e
  <1> QED BY <1>4, <1>5

(***************************************************************************)
(* A datum that comes to a join of two inputs completes the entry that     *)
(* lacks it, or goes to a new entry: entries stay in order.                *)
(***************************************************************************)
LEMMA AddInOrder ==
    ASSUME workflow \in Workflow, joinsOfTwo, NEW s \in State, NEW c \in Connection,
           NEW data \in Data, Comes(s, c, data)
    PROVE  /\ lacking(s, c) # {} \/ index(s, c) \notin DOMAIN entriesOf(s.waiting, c.node)
           /\ EntriesInOrder(addNodeToBeExecuted(s, c, data).waiting)
  <1> DEFINE n == c.node
             L == Len(workflow.inputs[n])
             e == entriesOf(s.waiting, n)
             k == index(s, c)
             t == addNodeToBeExecuted(s, c, data)
  <1>1. /\ s.waiting \in Waiting /\ n \in Node /\ EntriesOK(n, e) /\ c.input \in 1 .. L
        /\ L \in Nat
        /\ lacking(s, c) # {} => k \in lacking(s, c)
    BY IndexFacts, WorkflowFacts
  <1>2. EntriesInOrder(s.waiting) /\ \A r \in DOMAIN e : EntryInOrder(e[r], r, n)
    BY <1>1 DEF Comes, EntriesInOrder
  <1>3. lacking(s, c) # {} \/ k \notin DOMAIN e
    BY NewEntryFits
  <1>4. CASE t.waiting = s.waiting
    BY <1>2, <1>3, <1>4
  <1>5. CASE L > 1 /\ lacking(s, c) # {} /\ t.waiting = withEntries(s.waiting, n, without(e, k))
    <2> DEFINE f == without(e, k)
    <2>1. DOMAIN f \subseteq DOMAIN e /\ (\A r \in DOMAIN f : f[r] = e[r]) /\ EntriesOK(n, f)
      <3>1. EntriesOK(n, f)
        BY <1>1, WithoutOK
      <3>2. DOMAIN f \subseteq DOMAIN e /\ \A r \in DOMAIN f : f[r] = e[r]
        BY DEF without
      <3> QED BY <3>1, <3>2
    <2>2. DOMAIN e # {}
      BY <1>5 DEF lacking
    <2>3. t.waiting = withEntries(s.waiting, n, f)
      BY <1>5
    <2>4. Fits(s.waiting, n, f)
      <3> HIDE DEF f
      <3> QED BY <1>1, <1>5, <2>1, <2>2 DEF Fits
    <2>5. \A r \in DOMAIN f : EntryInOrder(f[r], r, n)
      <3> HIDE DEF f, e, n
      <3> QED BY <1>2, <2>1
    <2> HIDE DEF f, n
    <2>6. EntriesInOrder(withEntries(s.waiting, n, f))
      BY <1>2, <2>4, <2>5, WithEntriesInOrder
    <2> HIDE DEF t
    <2> QED BY <1>3, <2>3, <2>6 DEF n, t
  <1>6. CASE /\ L > 1
             /\ Incomplete(s, c, data)
             /\ t.waiting = withEntries(s.waiting, n, entriesWith(s, c, data))
    <2> DEFINE f == entriesWith(s, c, data)
               y == filled(s, c, data)
    <2>1. \A i \in 1 .. L : y[i] = IF i = c.input THEN data
                                   ELSE IF lacking(s, c) # {} THEN e[k][i] ELSE NoData
      BY DEF filled
    <2>2. data # NoData /\ data[2] \in Nat
      BY EngineAssumption DEF Data
    <2>3. lacking(s, c) = {}
      <3> SUFFICES ASSUME lacking(s, c) # {} PROVE FALSE
        OBVIOUS
      <3>1. k \in DOMAIN e /\ e[k][c.input] = NoData
        BY <1>1 DEF lacking
      <3>2. PICK j \in 1 .. L : e[k][j] # NoData
        BY <1>2, <3>1 DEF EntryInOrder
      <3>3. L = 2
        BY <1>1, <1>6 DEF joinsOfTwo
      <3>4. \A i \in 1 .. L : i = c.input \/ i = j
        <4> HIDE DEF L
        <4> QED BY <1>1, <3>1, <3>2, <3>3
      <3>5. \A i \in 1 .. L : y[i] # NoData
        <4> HIDE DEF y, e, L, k
        <4> QED BY <2>1, <2>2, <3>2, <3>4
      <3>6. \E i \in 1 .. L : y[i] = NoData
        BY <1>6 DEF Incomplete
      <3> QED BY <3>5, <3>6
    <2>4. k \notin DOMAIN e /\ (k = 0 \/ (k = 1 /\ data[2] = 2))
      BY <2>3, NewEntryFits
    <2>5. EntryInOrder(y, k, n)
      <3>1. \A i \in 1 .. L : y[i] = IF i = c.input THEN data ELSE NoData
        BY <2>1, <2>3
      <3>2. data[2] >= 1
        BY DEF Comes
      <3> HIDE DEF y, k
      <3>3. \E i \in 1 .. L : y[i] # NoData
        BY <1>1, <2>2, <3>1
      <3>4. \A i \in 1 .. L : y[i] # NoData => y[i] = data
        BY <3>1
      <3> QED BY <2>4, <3>2, <3>3, <3>4 DEF EntryInOrder
    <2>6. /\ EntriesOK(n, f) /\ DOMAIN f = (DOMAIN e) \cup {k} /\ f[k] = y
          /\ \A r \in (DOMAIN e) \ {k} : f[r] = e[r]
      <3>1. Incomplete(s, c, data)
        BY <1>6
      <3> QED BY <3>1, EntriesWithOK, ZenonT(60)
    <2>7. Fits(s.waiting, n, f)
      <3> HIDE DEF f, e, k
      <3> QED BY <1>1, <1>6, <2>6 DEF Fits
    <2>8. \A r \in DOMAIN f : EntryInOrder(f[r], r, n)
      <3> HIDE DEF f, e, k, y, n
      <3> QED BY <1>2, <2>5, <2>6
    <2>9. t.waiting = withEntries(s.waiting, n, f)
      BY <1>6
    <2> HIDE DEF f, n
    <2>10. EntriesInOrder(withEntries(s.waiting, n, f))
      BY <1>2, <2>7, <2>8, WithEntriesInOrder
    <2> HIDE DEF t
    <2> QED BY <1>3, <2>9, <2>10 DEF n, t
  <1> HIDE DEF t
  <1> QED BY <1>4, <1>5, <1>6, AddCases DEF t

(* The first entry of a node that waits goes to the stack with its data. *)
LEMMA NextWaitingKeeps ==
    ASSUME workflow \in Workflow, NEW s \in State
    PROVE  /\ \A m \in Node : \A i \in 1 .. Len(workflow.inputs[m]) : \A d \in Data :
                 PendSame(s, nextWaiting(s), m, i, d)
           /\ EntriesInOrder(s.waiting) => EntriesInOrder(nextWaiting(s).waiting)
  <1> DEFINE t == nextWaiting(s)
  <1>1. CASE t = s
    BY <1>1 DEF PendSame
  <1>2. CASE t # s
    <2>1. s.stack = <<>>
      BY <1>2, NextWaitingCases
    <2>2. PICK k \in 1 .. Len(s.waiting) : \E r \in DOMAIN s.waiting[k].entries :
              LET n == s.waiting[k].node
                  e == s.waiting[k].entries
              IN  /\ t.stack = <<[node |-> n, data |-> e[r]]>>
                  /\ t.waiting = withEntries(s.waiting, n, without(e, r))
      BY <1>2, NextWaitingCases
    <2> DEFINE n == s.waiting[k].node
               e == s.waiting[k].entries
    <2>3. PICK r \in DOMAIN e : /\ t.stack = <<[node |-> n, data |-> e[r]]>>
                                /\ t.waiting = withEntries(s.waiting, n, without(e, r))
      BY <2>2
    <2> DEFINE x == [node |-> n, data |-> e[r]]
               f == without(e, r)
    <2>4. s.waiting \in Waiting /\ s.waiting[k] \in Waiter
      BY ElementOfSeq DEF State, Waiting
    <2>5. n \in Node /\ EntriesOK(n, e) /\ Len(workflow.inputs[n]) > 1
      BY <2>4, WaiterFacts
    <2>6. entriesOf(s.waiting, n) = e
      BY <2>4, <2>5, EntriesFacts
    <2>7. e[r] \in [1 .. Len(workflow.inputs[n]) -> Datum]
      BY <2>5 DEF EntriesOK, Partial
    <2> HIDE DEF t, n, e
    <2>8. EntriesOK(n, f)
      BY <2>5, WithoutOK
    <2>9. DOMAIN f \subseteq DOMAIN e /\ \A j \in DOMAIN f : f[j] = e[j]
      BY DEF without
    <2>10. t.waiting = withEntries(s.waiting, n, f)
      BY <2>3
    <2>11. Fits(s.waiting, n, f)
      <3> HIDE DEF f
      <3> QED BY <2>4, <2>5, <2>6, <2>8 DEF Fits
    <2>12. OnTop(t.stack, x, s.stack)
      <3> HIDE DEF x
      <3>1. t.stack = <<x>>
        BY <2>3 DEF x
      <3> QED BY <2>1, <3>1 DEF OnTop
    <2>13. ASSUME NEW m \in Node, NEW i \in 1 .. Len(workflow.inputs[m]), NEW d \in Data
           PROVE  PendSame(s, t, m, i, d)
      <3> DEFINE S == StackAt(s.stack, m, i, d)
                 T == StackAt(t.stack, m, i, d)
                 E == EntriesAt(s.waiting, m, i, d)
                 F == EntriesAt(t.waiting, m, i, d)
                 H == Holds(x.node, x.data, m, i, d)
      <3>1. (T = {} <=> ~H /\ S = {}) /\ (IsOne(T) <=> (H /\ S = {}) \/ (~H /\ IsOne(S)))
        <4> HIDE DEF x
        <4> QED BY <2>12, StackMore
      <3>2. H <=> m = n /\ e[r][i] = d
        <4>1. x.node = n /\ x.data = e[r]
          OBVIOUS
        <4> HIDE DEF x
        <4> QED BY <2>7, <4>1 DEF Holds
      <3>3. F = IF m = n THEN At(f, i, d) ELSE E
        <4> HIDE DEF f
        <4>1. /\ EntriesAt(t.waiting, n, i, d) = At(f, i, d)
              /\ \A l \in Node \ {n} : EntriesAt(t.waiting, l, i, d) = EntriesAt(s.waiting, l, i, d)
          BY <2>10, <2>11, WithEntriesAt
        <4> QED BY <4>1
      <3>4. At(f, i, d) = At(e, i, d) \ {r}
        BY AtWithout
      <3>5. m = n => E = At(e, i, d)
        BY <2>6 DEF EntriesAt
      <3>6. r \in At(e, i, d) <=> e[r][i] = d
        BY <2>3 DEF At
      <3>g. ASSUME /\ S = {} /\ E = {} => T = {} /\ F = {}
                   /\ (IsOne(S) /\ E = {}) \/ (S = {} /\ IsOne(E))
                         => (IsOne(T) /\ F = {}) \/ (T = {} /\ IsOne(F))
            PROVE  PendSame(s, t, m, i, d)
        BY <3>g DEF PendNone, PendOnce, PendSame
      <3> HIDE DEF S, T, E, F, H, f, x
      <3>7. CASE m = n
        <4>1. Moved(S, T, E, F, r)
          BY <3>1, <3>2, <3>3, <3>4, <3>5, <3>6, <3>7 DEF Moved
        <4> QED BY <3>g, <4>1, MoveKeeps
      <3>8. CASE m # n
        BY <3>1, <3>2, <3>3, <3>g, <3>8
      <3> QED BY <3>7, <3>8
    <2>14. ASSUME EntriesInOrder(s.waiting) PROVE EntriesInOrder(t.waiting)
      <3>1. \A j \in DOMAIN f : EntryInOrder(f[j], j, n)
        <4> HIDE DEF f
        <4> QED BY <2>5, <2>6, <2>9, <2>14 DEF EntriesInOrder
      <3> HIDE DEF f
      <3> QED BY <2>10, <2>11, <2>14, <3>1, WithEntriesInOrder
    <2> QED BY <2>13, <2>14 DEF t
  <1> QED BY <1>1, <1>2

(* What is held of node n is from runs before R, and R is a first or second *)
(* run if node n leads to a join.                                           *)
MaySend(s, n, R) ==
    /\ EntriesInOrder(s.waiting)
    /\ \A c \in connectionsBySourceNode(n) : Len(workflow.inputs[c.node]) > 1 => R <= 2
    /\ \A m \in Node : \A i \in 1 .. Len(workflow.inputs[m]) : \A d \in Data :
          ~PendNone(s, m, i, d) =>
             \/ d[2] = 0
             \/ <<d[1], d[3]>> \in workflow.inputs[m][i] /\ (d[1] = n => d[2] < R)

(* From s to t the data of run R of node n is added once for each of the   *)
(* connections in C, and nothing else.                                     *)
Adds(s, t, n, R, C) ==
    \A m \in Node : \A i \in 1 .. Len(workflow.inputs[m]) : \A d \in Data :
       IF d[1] = n /\ d[2] = R
       THEN IF \E c \in C : c.node = m /\ c.input = i /\ c.output = d[3]
            THEN PendOnce(t, m, i, d) ELSE PendNone(t, m, i, d)
       ELSE PendSame(s, t, m, i, d)

(* A run that may send adds its data once for each connection it sends on. *)
LEMMA AddNodesKeeps ==
    ASSUME workflow \in Workflow, joinsOfTwo, NEW n \in Node, NEW R \in Nat \ {0},
           NEW outputs \in SUBSET Output, NEW s \in State, MaySend(s, n, R)
    PROVE  LET t == addNodes(s, n, R, outputs)
           IN  /\ t \in State
               /\ EntriesInOrder(t.waiting)
               /\ Adds(s, t, n, R, {c \in connectionsBySourceNode(n) : c.output \in outputs})
  <1>0. /\ EntriesInOrder(s.waiting)
        /\ \A c \in connectionsBySourceNode(n) : Len(workflow.inputs[c.node]) > 1 => R <= 2
        /\ \A m \in Node : \A i \in 1 .. Len(workflow.inputs[m]) : \A d \in Data :
              ~PendNone(s, m, i, d) =>
                 \/ d[2] = 0
                 \/ <<d[1], d[3]>> \in workflow.inputs[m][i] /\ (d[1] = n => d[2] < R)
    BY DEF MaySend
  <1> USE <1>0
  <1> DEFINE C == {c \in connectionsBySourceNode(n) : c.output \in outputs}
             Added(A, m, i, d) == \E c \in A : c.node = m /\ c.input = i /\ c.output = d[3]
             Fresh(d) == d[1] = n /\ d[2] = R
             Right(A, t) ==
                \A m \in Node : \A i \in 1 .. Len(workflow.inputs[m]) : \A d \in Data :
                   IF Fresh(d)
                   THEN IF Added(A, m, i, d) THEN PendOnce(t, m, i, d) ELSE PendNone(t, m, i, d)
                   ELSE PendSame(s, t, m, i, d)
             Good == [A \in SUBSET C |-> {t \in State : EntriesInOrder(t.waiting) /\ Right(A, t)}]
  <1>c. /\ C \subseteq connectionsBySourceNode(n)
        /\ \A c \in C : c \in Connection /\ <<n, c.output>> \in workflow.inputs[c.node][c.input]
    BY DEF connectionsBySourceNode, Connection
  <1> HIDE DEF C
  <1>e. ASSUME NEW b \in C, NEW c \in C, b.node = c.node, b.input = c.input, b.output = c.output
        PROVE  b = c
    <2>1. b \in Connection /\ c \in Connection
      BY <1>c
    <2> QED BY <1>e, <2>1 DEF Connection
  <1>1. Right({}, s)
    <2> SUFFICES ASSUME NEW m \in Node, NEW i \in 1 .. Len(workflow.inputs[m]), NEW d \in Data
                 PROVE  IF Fresh(d) THEN PendNone(s, m, i, d) ELSE PendSame(s, s, m, i, d)
      OBVIOUS
    <2>1. CASE Fresh(d)
      <3>1. d[2] # 0 /\ ~(d[2] < R)
        BY <2>1
      <3> QED BY <2>1, <3>1
    <2>2. CASE ~Fresh(d)
      BY <2>2 DEF PendSame
    <2> QED BY <2>1, <2>2
  <1>2. ASSUME NEW A \in SUBSET C, NEW c \in C \ A, NEW t \in State, EntriesInOrder(t.waiting),
               Right(A, t)
        PROVE  LET u == addNodeToBeExecuted(t, c, <<n, R, c.output>>)
               IN  u \in State /\ EntriesInOrder(u.waiting) /\ Right(A \cup {c}, u)
    <2> DEFINE data == <<n, R, c.output>>
               u == addNodeToBeExecuted(t, c, data)
    <2>1. c \in Connection /\ c.node \in Node /\ c.input \in 1 .. Len(workflow.inputs[c.node])
      BY <1>c, WorkflowFacts DEF Connection
    <2>2. data \in Data /\ data[1] = n /\ data[2] = R /\ data[3] = c.output
      BY <2>1 DEF Data, Connection
    <2> HIDE DEF data
    <2>3. Later(t, c, data)
      <3> DEFINE e == entriesOf(t.waiting, c.node)
                 m == c.node
                 i == c.input
      <3> SUFFICES ASSUME NEW r \in DOMAIN e, e[r][i] # NoData PROVE e[r][i][2] < R
        BY <2>2 DEF Later
      <3> DEFINE d == e[r][i]
      <3>1. EntriesOK(m, e) /\ t.waiting \in Waiting
        BY <2>1, EntriesFacts DEF State
      <3>2. d \in Data
        <4>1. e[r] \in Partial(m)
          BY <3>1 DEF EntriesOK
        <4> HIDE DEF e
        <4> QED BY <2>1, <4>1 DEF Partial, Datum
      <3>3. ~PendNone(t, m, i, d)
        <4>1. r \in EntriesAt(t.waiting, m, i, d)
          BY DEF EntriesAt, At
        <4> QED BY <4>1 DEF PendNone
      <3>4. d[2] >= 1
        <4>1. EntryInOrder(e[r], r, m)
          BY <1>2, <2>1 DEF EntriesInOrder
        <4> QED BY <2>1, <4>1 DEF EntryInOrder
      <3> HIDE DEF e, d
      <3> DEFINE p == <<n, c.output>>
      <3>5. workflow.inputs[m][i] = {p}
        <4>1. Len(workflow.inputs[m]) > 1
          <5>1. PICK k \in 1 .. Len(t.waiting) : t.waiting[k].node = m
            BY <2>1, <3>1, EntriesFacts DEF e
          <5>2. t.waiting[k] \in Waiter
            BY <3>1, ElementOfSeq DEF Waiting
          <5> QED BY <5>1, <5>2, WaiterFacts
        <4>2. p \in workflow.inputs[m][i]
          BY <1>c
        <4> QED BY <2>1, <4>1, <4>2 DEF joinsOfTwo
      <3>6. p = <<n, c.output>>
        OBVIOUS
      <3> HIDE DEF p
      <3>7. CASE Fresh(d)
        <4>1. Added(A, m, i, d)
          <5> HIDE DEF Added, m, i
          <5> QED BY <1>2, <2>1, <3>2, <3>3, <3>7 DEF m, i
        <4>2. PICK b \in A : b.node = m /\ b.input = i /\ b.output = d[3]
          BY <4>1
        <4>3. b.output = c.output
          <5>1. <<n, b.output>> \in workflow.inputs[m][i]
            BY <1>c, <4>2
          <5> QED BY <3>5, <3>6, <5>1
        <4>4. b = c
          BY <1>e, <4>2, <4>3
        <4> QED BY <4>4
      <3>8. CASE ~Fresh(d)
        <4>1. PendSame(s, t, m, i, d)
          <5> HIDE DEF Added, m, i, Fresh
          <5> QED BY <1>2, <2>1, <3>2, <3>8 DEF m, i
        <4>2. ~PendNone(s, m, i, d)
          BY <3>3, <4>1 DEF PendSame
        <4>3. d[2] # 0
          BY <3>4
        <4>4. <<d[1], d[3]>> \in workflow.inputs[m][i] /\ (d[1] = n => d[2] < R)
          <5> HIDE DEF m, i
          <5> QED BY <2>1, <3>2, <4>2, <4>3 DEF m, i
        <4>5. d[1] = n
          BY <3>5, <3>6, <4>4
        <4> QED BY <4>4, <4>5 DEF d
      <3> QED BY <3>7, <3>8
    <2>4. Comes(t, c, data)
      <3>1. Len(workflow.inputs[c.node]) > 1 => R <= 2
        BY <1>c
      <3> QED BY <1>2, <2>2, <2>3, <3>1 DEF Comes
    <2>5. u \in State
      BY <2>1, <2>2, AddType
    <2>6. /\ lacking(t, c) # {} \/ index(t, c) \notin DOMAIN entriesOf(t.waiting, c.node)
          /\ EntriesInOrder(u.waiting)
      BY <2>1, <2>2, <2>4, AddInOrder
    <2>7. ASSUME NEW m \in Node, NEW i \in 1 .. Len(workflow.inputs[m]), NEW d \in Data
          PROVE  IF Fresh(d)
                 THEN IF Added(A \cup {c}, m, i, d) THEN PendOnce(u, m, i, d)
                      ELSE PendNone(u, m, i, d)
                 ELSE PendSame(s, u, m, i, d)
      <3> DEFINE New == m = c.node /\ i = c.input /\ d = data
      <3>1. IF New THEN PendNone(t, m, i, d) => PendOnce(u, m, i, d) ELSE PendSame(t, u, m, i, d)
        BY <2>1, <2>2, <2>6, AddKeeps
      <3>2. IF Fresh(d)
            THEN IF Added(A, m, i, d) THEN PendOnce(t, m, i, d) ELSE PendNone(t, m, i, d)
            ELSE PendSame(s, t, m, i, d)
        <4> HIDE DEF Fresh, Added
        <4> QED BY <1>2
      <3>3. New => Fresh(d) /\ ~Added(A, m, i, d) /\ Added(A \cup {c}, m, i, d)
        <4> SUFFICES ASSUME New PROVE Fresh(d) /\ ~Added(A, m, i, d) /\ Added(A \cup {c}, m, i, d)
          OBVIOUS
        <4>1. Fresh(d) /\ Added(A \cup {c}, m, i, d)
          BY <2>2
        <4>2. ASSUME NEW b \in A, b.node = m, b.input = i, b.output = d[3] PROVE FALSE
          <5>1. b = c
            BY <1>e, <2>2, <4>2
          <5> QED BY <5>1
        <4> QED BY <4>1, <4>2
      <3>4. Fresh(d) /\ ~New => (Added(A \cup {c}, m, i, d) <=> Added(A, m, i, d))
        <4> SUFFICES ASSUME Fresh(d), c.node = m, c.input = i, c.output = d[3] PROVE New
          OBVIOUS
        <4>1. d = data
          BY <2>2 DEF Data, data
        <4> QED BY <4>1
      <3> HIDE DEF New, Fresh, Added, u
      <3> QED BY <3>1, <3>2, <3>3, <3>4 DEF PendSame
    <2> HIDE DEF u
    <2>8. Right(A \cup {c}, u)
      <3> HIDE DEF Fresh, Added
      <3> QED BY <2>7
    <2> QED BY <2>5, <2>6, <2>8 DEF u, data
  <1> HIDE DEF Right
  <1>3. \A A \in SUBSET C : Good[A] = {t \in State : EntriesInOrder(t.waiting) /\ Right(A, t)}
    OBVIOUS
  <1> HIDE DEF Good
  <1>4. s \in Good[{}]
    BY <1>1, <1>3
  <1>5. \A A \in SUBSET C : \A c \in C \ A : \A t \in Good[A] :
           addNodeToBeExecuted(t, c, <<n, R, c.output>>) \in Good[A \cup {c}]
    BY <1>2, <1>3
  <1>6. addNodes(s, n, R, outputs) \in Good[C]
    BY <1>4, <1>5, AddNodesReaches DEF C
  <1>7. LET t == addNodes(s, n, R, outputs) IN t \in State /\ EntriesInOrder(t.waiting) /\ Right(C, t)
    BY <1>3, <1>6
  <1> QED BY <1>7 DEF Right, C, Adds

-----------------------------------------------------------------------------
(* Steps *)

(* A step changes no run that succeeded. *)
SameSuccesses ==
    \A n \in Node : Succeeded(n)' = Succeeded(n) /\ \A r \in Succeeded(n) : runData'[n][r] = runData[n][r]

(* What a step does with the places of a datum. *)
Kept(m, i, d) ==
    /\ Free(m, i, d) => Free(m, i, d)'
    /\ Once(m, i, d) => Once(m, i, d)' \/ (Free(m, i, d)' /\ consumes(m))

(* Connections come from nodes. *)
LEMMA SourceIsNode ==
    ASSUME workflow \in Workflow
    PROVE  \A n \in Node : \A i \in 1 .. Len(workflow.inputs[n]) : \A c \in workflow.inputs[n][i] :
              c[1] \in Node
  <1> SUFFICES ASSUME NEW n \in Node, NEW i \in 1 .. Len(workflow.inputs[n]),
                      NEW c \in workflow.inputs[n][i]
               PROVE  c[1] \in Node
    OBVIOUS
  <1>1. workflow.inputs[n] \in Seq(SUBSET (Node \X Output))
    BY WorkflowFacts
  <1>2. workflow.inputs[n][i] \in SUBSET (Node \X Output)
    BY <1>1, ElementOfSeq
  <1>3. c \in Node \X Output
    BY <1>2
  <1> QED BY <1>3

(* Then what is sent, and where runs hold it, stays. *)
LEMMA SameSuccessesFacts ==
    ASSUME workflow \in Workflow, SameSuccesses, workflow' = workflow
    PROVE  /\ \A m \in Node : \A i : \A d : (Sent(m, i, d)' <=> Sent(m, i, d))
                                             /\ RunsAt(m, i, d)' = RunsAt(m, i, d)
           /\ twoSuccesses' = twoSuccesses
           /\ NoSuccess' = NoSuccess
           /\ joinsOfTwo' = joinsOfTwo
  <1>1. ASSUME NEW m \in Node, NEW i, NEW d
        PROVE  Sent(m, i, d)' <=> Sent(m, i, d)
    BY DEF Sent, SameSuccesses, connectionsBySourceNode, Input
  <1>2. ASSUME NEW m \in Node, NEW i, NEW d
        PROVE  RunsAt(m, i, d)' = RunsAt(m, i, d)
    BY DEF RunsAt, SameSuccesses
  <1>3. joinsOfTwo' = joinsOfTwo
    BY DEF joinsOfTwo
  <1>4. NoSuccess' = NoSuccess
    BY DEF NoSuccess, SameSuccesses
  <1>5. twoSuccesses' = twoSuccesses
    <2>1. \A n \in Node : \A i \in 1 .. Len(workflow.inputs[n]) : \A c \in workflow.inputs[n][i] :
             c[1] \in Node
      BY SourceIsNode
    <2> QED BY <2>1 DEF twoSuccesses, SameSuccesses
  <1> QED BY <1>1, <1>2, <1>3, <1>4, <1>5

(* What consumes data is up to the workflow, and so is the order. *)
LEMMA ConsumesStays ==
    ASSUME workflow' = workflow
    PROVE  /\ \A m : consumes(m)' = consumes(m)
           /\ \A w : EntriesInOrder(w)' = EntriesInOrder(w)
  <1>1. \A m : consumes(m)' = consumes(m)
    BY DEF consumes, runNodeFilter, getParentNodes, sources
  <1>2. \A w : EntriesInOrder(w)' = EntriesInOrder(w)
    BY DEF EntriesInOrder, EntryInOrder
  <1> QED BY <1>1, <1>2

(* A step that keeps runs, entries and data keeps the invariant. *)
LEMMA Carried ==
    ASSUME workflow \in Workflow, SameSuccesses, workflow' = workflow,
           waitingExecution' = waitingExecution, Delivered,
           \A m \in Node : \A i \in 1 .. Len(workflow.inputs[m]) : \A d \in Data : Kept(m, i, d)
    PROVE  Delivered'
  <1>1. \A m \in Node : \A i : \A d : Sent(m, i, d)' <=> Sent(m, i, d)
    BY SameSuccessesFacts
  <1>2. \A m : consumes(m)' <=> consumes(m)
    BY ConsumesStays
  <1>3. HeldOnce'
    <2> SUFFICES ASSUME NEW m \in Node, NEW i \in 1 .. Len(workflow.inputs[m]), NEW d \in Data,
                        Sent(m, i, d)'
                 PROVE  Once(m, i, d)' \/ (Free(m, i, d)' /\ consumes(m)')
      BY DEF HeldOnce
    <2>1. Once(m, i, d) \/ (Free(m, i, d) /\ consumes(m))
      BY <1>1 DEF Delivered, HeldOnce
    <2> QED BY <1>2, <2>1 DEF Kept
  <1>4. HeldWasSent'
    <2> SUFFICES ASSUME NEW m \in Node, NEW i \in 1 .. Len(workflow.inputs[m]), NEW d \in Data,
                        ~Free(m, i, d)'
                 PROVE  d[2] = 0 \/ Sent(m, i, d)'
      BY DEF HeldWasSent
    <2>1. ~Free(m, i, d)
      BY DEF Kept
    <2> QED BY <1>1, <2>1 DEF Delivered, HeldWasSent
  <1>5. EntriesInOrder(waitingExecution)'
    BY DEF Delivered, EntriesInOrder, EntryInOrder
  <1> QED BY <1>3, <1>4, <1>5 DEF Delivered

(* A step that moves nothing keeps the places of data. *)
LEMMA Unmoved ==
    ASSUME workflow \in Workflow, SameSuccesses, workflow' = workflow,
           nodeExecutionStack' = nodeExecutionStack,
           waitingExecution' = waitingExecution, executionData' = executionData,
           NEW m \in Node, NEW i, NEW d
    PROVE  Kept(m, i, d)
  <1>1. RunsAt(m, i, d)' = RunsAt(m, i, d)
    BY SameSuccessesFacts
  <1>2. InNode(m, i, d)' = InNode(m, i, d)
    BY DEF InNode
  <1>3. PendNone(current, m, i, d)' = PendNone(current, m, i, d)
    BY DEF current, PendNone
  <1>4. PendOnce(current, m, i, d)' = PendOnce(current, m, i, d)
    BY DEF current, PendOnce
  <1> QED BY <1>1, <1>2, <1>3, <1>4 DEF Kept, Free, Once

(* Nothing is held when no node is executed. *)
LEMMA NoItemHolds ==
    ASSUME NEW m \in Node, NEW i, NEW d
    PROVE  ~Holds(NoItem.node, NoItem.data, m, i, d)
  BY EngineAssumption DEF NoItem, Holds

(* A node that returns null takes its data without a record. *)
LEMMA NullConsumes ==
    ASSUME workflow \in Workflow, runData \in [Node -> Seq(Run)], NEW item \in Item,
           runNode(item).kind = "null"
    PROVE  consumes(item.node)
  <1>1. /\ nextBehaviour(item).kind = "null"
        /\ nextBehaviour(item) \in Range(workflow.behaviour[item.node])
    BY RunNodeType, NextBehaviourFacts
  <1> QED BY <1>1 DEF consumes

(* Places in terms of the stack and the entries. *)
LEMMA Places ==
    ASSUME NEW m, NEW i, NEW d
    PROVE  LET S == StackAt(nodeExecutionStack, m, i, d)
               E == EntriesAt(waitingExecution, m, i, d)
           IN  /\ PendNone(current, m, i, d) <=> S = {} /\ E = {}
               /\ PendOnce(current, m, i, d) <=> (IsOne(S) /\ E = {}) \/ (S = {} /\ IsOne(E))
  BY DEF PendNone, PendOnce, current

(* The same, after a step. *)
LEMMA PlacesNext ==
    ASSUME NEW m, NEW i, NEW d
    PROVE  LET S == StackAt(nodeExecutionStack', m, i, d)
               E == EntriesAt(waitingExecution', m, i, d)
           IN  /\ PendNone(current, m, i, d)' <=> S = {} /\ E = {}
               /\ PendOnce(current, m, i, d)' <=> (IsOne(S) /\ E = {}) \/ (S = {} /\ IsOne(E))
  BY DEF PendNone, PendOnce, current

(***************************************************************************)
(* What leaves the stack is executed next, or skipped, and what is being   *)
(* executed goes back there: a datum that goes along stays held once.      *)
(***************************************************************************)
LEMMA TakeNodeKeeps ==
    ASSUME EngineInv, NodeIsExecuted, TakeNode,
           NEW m \in Node, NEW i \in 1 .. Len(workflow.inputs[m]), NEW d \in Data
    PROVE  SameSuccesses /\ Kept(m, i, d)
  <1> DEFINE h == Head(nodeExecutionStack)
             S == StackAt(nodeExecutionStack, m, i, d)
             T == StackAt(nodeExecutionStack', m, i, d)
             E == EntriesAt(waitingExecution, m, i, d)
             H == Holds(h.node, h.data, m, i, d)
             N == InNode(m, i, d)
             R == RunsAt(m, i, d)
  <1>1. /\ nodeExecutionStack \in Seq(Item) /\ nodeExecutionStack # <<>> /\ phase = "loop"
        /\ nodeExecutionStack' = Tail(nodeExecutionStack)
        /\ UNCHANGED <<workflow, waitingExecution, runData>>
        /\ workflow \in Workflow
    BY DEF TakeNode, EngineInv
  <1>2. \/ h.node \in runNodeFilter /\ executionData' = h
        \/ h.node \notin runNodeFilter /\ executionData' = executionData
    BY DEF TakeNode
  <1>3. SameSuccesses
    BY <1>1 DEF SameSuccesses, Succeeded
  <1>4. RunsAt(m, i, d)' = R
    BY <1>1, <1>3, SameSuccessesFacts
  <1>5. ~N
    BY <1>1, NoItemHolds DEF NodeIsExecuted, InNode
  <1>6. OnTop(nodeExecutionStack, h, nodeExecutionStack')
    <2>1. /\ Len(nodeExecutionStack) \in Nat \ {0}
          /\ Len(Tail(nodeExecutionStack)) = Len(nodeExecutionStack) - 1
          /\ \A k \in 1 .. Len(Tail(nodeExecutionStack)) :
                Tail(nodeExecutionStack)[k] = nodeExecutionStack[k + 1]
          /\ h = nodeExecutionStack[1]
      BY <1>1, HeadTailProperties, LenProperties, EmptySeq
    <2> QED BY <1>1, <2>1 DEF OnTop
  <1>7. (S = {} <=> ~H /\ T = {}) /\ (IsOne(S) <=> (H /\ T = {}) \/ (~H /\ IsOne(T)))
    BY <1>6, StackMore
  <1>8. \/ N' = H
        \/ N' = N /\ (H => consumes(m))
    <2>1. CASE executionData' = h
      BY <2>1 DEF InNode
    <2>2. CASE h.node \notin runNodeFilter /\ executionData' = executionData
      <3>1. N' = N
        BY <2>2 DEF InNode
      <3>2. H => consumes(m)
        BY <2>2 DEF Holds, consumes
      <3> QED BY <3>1, <3>2
    <2> QED BY <1>2, <2>1, <2>2
  <1>9. EntriesAt(waitingExecution', m, i, d) = E
    BY <1>1
  <1> HIDE DEF S, T, E, H, N, R, h
  <1>10. /\ PendNone(current, m, i, d) <=> S = {} /\ E = {}
         /\ PendOnce(current, m, i, d) <=> (IsOne(S) /\ E = {}) \/ (S = {} /\ IsOne(E))
    BY Places DEF S, E
  <1>11. /\ PendNone(current, m, i, d)' <=> T = {} /\ E = {}
         /\ PendOnce(current, m, i, d)' <=> (IsOne(T) /\ E = {}) \/ (T = {} /\ IsOne(E))
    BY <1>9, PlacesNext DEF T
  <1>12. /\ Free(m, i, d) <=> S = {} /\ E = {} /\ R = {}
         /\ Once(m, i, d) <=> \/ /\ R = {}
                                 /\ (IsOne(S) /\ E = {}) \/ (S = {} /\ IsOne(E))
                              \/ S = {} /\ E = {} /\ IsOne(R)
    BY <1>5, <1>10 DEF Free, Once, N, R
  <1>13. /\ Free(m, i, d)' <=> T = {} /\ E = {} /\ ~N' /\ R = {}
         /\ Once(m, i, d)' <=> \/ /\ R = {} /\ ~N'
                                  /\ (IsOne(T) /\ E = {}) \/ (T = {} /\ IsOne(E))
                               \/ R = {} /\ N' /\ T = {} /\ E = {}
                               \/ ~N' /\ T = {} /\ E = {} /\ IsOne(R)
    BY <1>4, <1>11 DEF Free, Once, N, R
  <1>14. ~IsOne({})
    BY DEF IsOne
  <1>15. Kept(m, i, d)
    BY <1>5, <1>7, <1>8, <1>12, <1>13, <1>14 DEF Kept
  <1> QED BY <1>3, <1>15

(* A node that returns null has consumed what it had. *)
LEMMA NodeReturnsNullKeeps ==
    ASSUME EngineInv, NodeReturnsNull,
           NEW m \in Node, NEW i \in 1 .. Len(workflow.inputs[m]), NEW d \in Data
    PROVE  SameSuccesses /\ Kept(m, i, d)
  <1>1. /\ UNCHANGED <<workflow, nodeExecutionStack, waitingExecution, runData>>
        /\ executionData' = NoItem /\ runNode(executionData).kind = "null"
        /\ executionData \in Item /\ workflow \in Workflow /\ runData \in [Node -> Seq(Run)]
    BY DEF NodeReturnsNull, EngineInv
  <1>2. SameSuccesses
    BY <1>1 DEF SameSuccesses, Succeeded
  <1>3. RunsAt(m, i, d)' = RunsAt(m, i, d)
    BY <1>1, <1>2, SameSuccessesFacts
  <1>4. ~InNode(m, i, d)'
    <2>1. InNode(m, i, d)' = Holds(executionData'.node, executionData'.data, m, i, d)
      BY DEF InNode
    <2> QED BY <1>1, <2>1, NoItemHolds
  <1>5. InNode(m, i, d) => consumes(m)
    BY <1>1, NullConsumes DEF InNode, Holds
  <1>6. /\ PendNone(current, m, i, d)' = PendNone(current, m, i, d)
        /\ PendOnce(current, m, i, d)' = PendOnce(current, m, i, d)
    BY <1>1 DEF current, PendNone, PendOnce
  <1>7. Kept(m, i, d)
    BY <1>3, <1>4, <1>5, <1>6 DEF Kept, Free, Once
  <1> QED BY <1>2, <1>7

(* What a record adds to the runs that succeeded. *)
LEMMA RecordSuccesses ==
    ASSUME runData \in [Node -> Seq(Run)], executionData \in Item, NEW outputs \in SUBSET Output,
           NEW executionStatus \in {"success", "waiting", "error"}, record(outputs, executionStatus),
           NEW n, n = executionData.node, NEW R, R = Len(runData[n]) + 1
    PROVE  /\ n \in Node /\ R \in Nat \ {0}
           /\ Len(runData'[n]) = R
           /\ runData'[n][R].data = executionData.data
           /\ runData'[n][R].outputs = outputs
           /\ R \in Succeeded(n)' <=> executionStatus = "success"
           /\ \A r : r # R => (r \in Succeeded(n)' <=> r \in Succeeded(n))
           /\ \A r \in Succeeded(n) : r < R /\ runData'[n][r] = runData[n][r]
           /\ \A l \in Node \ {n} : Succeeded(l)' = Succeeded(l) /\ runData'[l] = runData[l]
  <1> DEFINE run == [data |-> executionData.data, outputs |-> outputs,
                     executionStatus |-> executionStatus, error |-> executionStatus = "error"]
  <1>1. /\ n \in Node /\ run \in Run
        /\ runData' = [runData EXCEPT ![n] = Append(runData[n], run)]
    <2> DEFINE k == executionData.node
    <2>1. k \in Node /\ run \in Run /\ runData' = [runData EXCEPT ![k] = Append(runData[k], run)]
      BY RecordType
    <2> HIDE DEF run
    <2> QED BY <2>1
  <1>2. run.data = executionData.data /\ run.outputs = outputs /\ run.executionStatus = executionStatus
    OBVIOUS
  <1> HIDE DEF run
  <1>3. runData[n] \in Seq(Run) /\ runData'[n] = Append(runData[n], run)
    BY <1>1
  <1>4. \A l \in Node \ {n} : runData'[l] = runData[l]
    BY <1>1
  <1>5. /\ Len(runData'[n]) = R /\ Len(runData[n]) \in Nat
        /\ \A r \in 1 .. Len(runData[n]) : runData'[n][r] = runData[n][r]
        /\ runData'[n][R] = run
    BY <1>1, <1>3, AppendProperties, LenProperties
  <1>6. \A r : r \in Succeeded(n)' <=> r \in 1 .. R /\ runData'[n][r].executionStatus = "success"
    BY <1>5 DEF Succeeded
  <1>7. \A r : r \in Succeeded(n) <=> r \in 1 .. Len(runData[n])
                                       /\ runData[n][r].executionStatus = "success"
    BY DEF Succeeded
  <1>8. R \in 1 .. R /\ \A r \in 1 .. R : r # R => r \in 1 .. Len(runData[n])
    BY <1>5
  <1>9. \A r \in 1 .. Len(runData[n]) : r # R /\ r < R /\ r \in 1 .. R
    BY <1>5
  <1>10. R \in Succeeded(n)' <=> executionStatus = "success"
    BY <1>2, <1>5, <1>6, <1>8
  <1>11. \A r : r # R => (r \in Succeeded(n)' <=> r \in Succeeded(n))
    BY <1>5, <1>6, <1>7, <1>8, <1>9
  <1>12. \A r \in Succeeded(n) : r < R /\ runData'[n][r] = runData[n][r]
    BY <1>5, <1>7, <1>9
  <1>13. \A l \in Node \ {n} : Succeeded(l)' = Succeeded(l)
    BY <1>4 DEF Succeeded
  <1>14. R \in Nat \ {0}
    BY <1>5
  <1> QED BY <1>1, <1>2, <1>4, <1>5, <1>10, <1>11, <1>12, <1>13, <1>14

(* A run that stops the execution did not succeed. *)
LEMMA NodeStopsSuccesses ==
    ASSUME EngineInv, NodeStops
    PROVE  SameSuccesses
  <1> DEFINE outcome == IF runNode(executionData).kind = "wait" THEN "waiting" ELSE "error"
  <1>1. record({}, outcome) /\ executionData \in Item /\ runData \in [Node -> Seq(Run)]
    BY DEF NodeStops, EngineInv
  <1>2. outcome \in {"success", "waiting", "error"} /\ outcome # "success"
    OBVIOUS
  <1> HIDE DEF outcome
  <1> PICK n : n = executionData.node
    OBVIOUS
  <1> PICK L : L = Len(runData[n]) + 1
    OBVIOUS
  <1>3. /\ runData \in [Node -> Seq(Run)] /\ executionData \in Item /\ {} \in SUBSET Output
        /\ outcome \in {"success", "waiting", "error"} /\ record({}, outcome)
    BY <1>1, <1>2
  <1>4. /\ n \in Node
        /\ L \in Succeeded(n)' <=> outcome = "success"
        /\ \A r : r # L => (r \in Succeeded(n)' <=> r \in Succeeded(n))
        /\ \A r \in Succeeded(n) : r < L /\ runData'[n][r] = runData[n][r]
        /\ \A l \in Node \ {n} : Succeeded(l)' = Succeeded(l) /\ runData'[l] = runData[l]
    BY <1>3, RecordSuccesses
  <1>5. L \notin Succeeded(n)' /\ L \notin Succeeded(n)
    <2>1. L \in Nat
      BY <1>3, <1>4, LenProperties
    <2> QED BY <1>2, <1>4, <2>1
  <1>6. Succeeded(n)' = Succeeded(n)
    <2>1. \A r : r \in Succeeded(n)' <=> r \in Succeeded(n)
      BY <1>4, <1>5
    <2> QED BY <2>1
  <1> QED BY <1>4, <1>6 DEF SameSuccesses

(* A node that stops goes back to the stack, and its run did not succeed. *)
LEMMA NodeStopsKeeps ==
    ASSUME EngineInv, NodeStops,
           NEW m \in Node, NEW i \in 1 .. Len(workflow.inputs[m]), NEW d \in Data
    PROVE  SameSuccesses /\ Kept(m, i, d)
  <1> DEFINE outcome == IF runNode(executionData).kind = "wait" THEN "waiting" ELSE "error"
             S == StackAt(nodeExecutionStack, m, i, d)
             T == StackAt(nodeExecutionStack', m, i, d)
             E == EntriesAt(waitingExecution, m, i, d)
             N == InNode(m, i, d)
             R == RunsAt(m, i, d)
  <1>1. /\ nodeExecutionStack' = <<executionData>> \o nodeExecutionStack
        /\ record({}, outcome)
        /\ UNCHANGED <<workflow, waitingExecution>>
        /\ executionData' = NoItem
        /\ executionData \in Item /\ workflow \in Workflow /\ runData \in [Node -> Seq(Run)]
        /\ nodeExecutionStack \in Seq(Item)
    BY DEF NodeStops, EngineInv
  <1>2. outcome \in {"success", "waiting", "error"} /\ outcome # "success"
    OBVIOUS
  <1> HIDE DEF outcome
  <1>3. SameSuccesses
    BY NodeStopsSuccesses
  <1>4. RunsAt(m, i, d)' = R
    BY <1>1, <1>3, SameSuccessesFacts
  <1>5. ~N'
    <2>1. N' = Holds(executionData'.node, executionData'.data, m, i, d)
      BY DEF InNode
    <2> QED BY <1>1, <2>1, NoItemHolds
  <1>6. OnTop(nodeExecutionStack', executionData, nodeExecutionStack)
    BY <1>1, PushIsOnTop
  <1>7. (T = {} <=> ~N /\ S = {}) /\ (IsOne(T) <=> (N /\ S = {}) \/ (~N /\ IsOne(S)))
    BY <1>6, StackMore DEF InNode
  <1>8. EntriesAt(waitingExecution', m, i, d) = E
    BY <1>1
  <1> HIDE DEF S, T, E, N, R
  <1>9. /\ PendNone(current, m, i, d) <=> S = {} /\ E = {}
        /\ PendOnce(current, m, i, d) <=> (IsOne(S) /\ E = {}) \/ (S = {} /\ IsOne(E))
    BY Places DEF S, E
  <1>10. /\ PendNone(current, m, i, d)' <=> T = {} /\ E = {}
         /\ PendOnce(current, m, i, d)' <=> (IsOne(T) /\ E = {}) \/ (T = {} /\ IsOne(E))
    BY <1>8, PlacesNext DEF T
  <1>11. /\ Free(m, i, d) <=> S = {} /\ E = {} /\ ~N /\ R = {}
         /\ Once(m, i, d) <=> \/ /\ R = {} /\ ~N
                                 /\ (IsOne(S) /\ E = {}) \/ (S = {} /\ IsOne(E))
                              \/ R = {} /\ N /\ S = {} /\ E = {}
                              \/ ~N /\ S = {} /\ E = {} /\ IsOne(R)
    BY <1>9 DEF Free, Once, N, R
  <1>12. /\ Free(m, i, d)' <=> T = {} /\ E = {} /\ R = {}
         /\ Once(m, i, d)' <=> \/ /\ R = {}
                                  /\ (IsOne(T) /\ E = {}) \/ (T = {} /\ IsOne(E))
                               \/ T = {} /\ E = {} /\ IsOne(R)
    BY <1>4, <1>5, <1>10 DEF Free, Once, N, R
  <1>13. ~IsOne({})
    BY DEF IsOne
  <1>14. Kept(m, i, d)
    BY <1>7, <1>11, <1>12, <1>13 DEF Kept
  <1> QED BY <1>3, <1>14

(* A run that is taken back did not succeed. *)
LEMMA GoesOnKeeps ==
    ASSUME EngineInv, StoppedRun, result \in {"error", "waiting"},
           LET n == Head(nodeExecutionStack).node
           IN  \/ runData' = runData
               \/ nodeExecutionStack # <<>> /\ runData' = [runData EXCEPT ![n] = Front(@)]
    PROVE  SameSuccesses
  <1> PICK n : n = Head(nodeExecutionStack).node
    OBVIOUS
  <1>1. nodeExecutionStack \in Seq(Item) /\ runData \in [Node -> Seq(Run)]
    BY DEF EngineInv
  <1>2. CASE runData' = runData
    BY <1>2 DEF SameSuccesses, Succeeded
  <1>3. CASE nodeExecutionStack # <<>> /\ runData' = [runData EXCEPT ![n] = Front(@)]
    <2>0. /\ n \in Node /\ runData[n] # <<>> /\ Len(runData[n]) \notin Succeeded(n)
      <3>1. Head(nodeExecutionStack) \in Item
        BY <1>1, <1>3, HeadTailProperties
      <3>2. Stopped
        BY <1>3 DEF Stopped
      <3> QED BY <3>1, <3>2 DEF Item, EngineInv, StoppedRun
    <2>1. runData'[n] = Front(runData[n]) /\ \A l \in Node \ {n} : runData'[l] = runData[l]
      BY <1>1, <1>3, <2>0
    <2>2. /\ Len(runData[n]) \in Nat \ {0} /\ Len(runData'[n]) = Len(runData[n]) - 1
          /\ \A r \in 1 .. Len(runData[n]) - 1 : runData'[n][r] = runData[n][r]
      BY <1>1, <2>0, <2>1, FrontType
    <2>3. \A l \in Node \ {n} : Succeeded(l)' = Succeeded(l)
      BY <2>1 DEF Succeeded
    <2>4. \A r : r \in Succeeded(n)' <=>
                    r \in 1 .. Len(runData[n]) - 1 /\ runData'[n][r].executionStatus = "success"
      BY <2>2 DEF Succeeded
    <2>5. \A r : r \in Succeeded(n) <=>
                    r \in 1 .. Len(runData[n]) /\ runData[n][r].executionStatus = "success"
      BY DEF Succeeded
    <2>6. \A r \in 1 .. Len(runData[n]) : r = Len(runData[n]) \/ r \in 1 .. Len(runData[n]) - 1
      BY <2>2
    <2>7. \A r \in 1 .. Len(runData[n]) - 1 : r \in 1 .. Len(runData[n])
      BY <2>2
    <2>8. \A r \in Succeeded(n) : r \in 1 .. Len(runData[n]) - 1
      BY <2>0, <2>5, <2>6
    <2>9. Succeeded(n)' = Succeeded(n)
      <3>1. \A r : r \in Succeeded(n)' <=> r \in Succeeded(n)
        BY <2>2, <2>4, <2>5, <2>7, <2>8
      <3> QED BY <3>1
    <2> QED BY <2>1, <2>2, <2>3, <2>8, <2>9 DEF SameSuccesses
  <1> QED BY <1>2, <1>3

(***************************************************************************)
(* A node that returns data: what it took is held by its run, what it      *)
(* returned is new, and held once for each node that it goes to, and all   *)
(* else stays where it was, or moves with an entry.                        *)
(***************************************************************************)
LEMMA NodeReturnsDataKeeps ==
    ASSUME EngineInv, DeliveryInv, NodeReturnsData, joinsOfTwo, twoSuccesses'
    PROVE  Delivered'
  <1> PICK n : n = executionData.node
    OBVIOUS
  <1> PICK R : R = Len(runData[n]) + 1
    OBVIOUS
  <1> PICK outputs : outputs = runNode(executionData).outputs
    OBVIOUS
  <1> PICK s : s = current
    OBVIOUS
  <1> PICK C : C = {c \in connectionsBySourceNode(n) : c.output \in outputs}
    OBVIOUS
  <1> DEFINE Fresh(d) == d[1] = n /\ d[2] = R
             Now(m, i, d) ==
                /\ n # workflow.destination
                /\ \E c \in C : c.node = m /\ c.input = i /\ c.output = d[3]
  <1>1. /\ workflow \in Workflow /\ executionData \in Item /\ runData \in [Node -> Seq(Run)]
        /\ phase = "node" /\ executionData' = NoItem /\ workflow' = workflow
        /\ nodeExecutionStack \in Seq(Item) /\ waitingExecution \in Waiting
    BY DEF NodeReturnsData, EngineInv
  <1>2. outputs \in SUBSET Output
    BY <1>1, RunNodeType
  <1>3. record(outputs, "success")
    BY DEF NodeReturnsData
  <1>4. /\ n \in Node /\ R \in Nat \ {0}
        /\ runData'[n][R].data = executionData.data /\ runData'[n][R].outputs = outputs
        /\ R \in Succeeded(n)'
        /\ \A r : r # R => (r \in Succeeded(n)' <=> r \in Succeeded(n))
        /\ \A r \in Succeeded(n) : r < R /\ runData'[n][r] = runData[n][r]
        /\ \A l \in Node \ {n} : Succeeded(l)' = Succeeded(l) /\ runData'[l] = runData[l]
    BY <1>1, <1>2, <1>3, RecordSuccesses
  <1>5. \A l \in Node : \A r \in Succeeded(l) : r \in Succeeded(l)' /\ runData'[l][r] = runData[l][r]
    BY <1>4
  <1>6. Delivered
    <2>1. twoSuccesses
      <3>1. \A l \in Node : \A i \in 1 .. Len(workflow.inputs[l]) : \A c \in workflow.inputs[l][i] :
               c[1] \in Node
        BY <1>1, SourceIsNode
      <3> QED BY <1>1, <1>5, <3>1 DEF twoSuccesses
    <2>2. ~Dead
      BY <1>1 DEF Dead
    <2> QED BY <2>1, <2>2 DEF DeliveryInv
  <1>7. \A m \in Node : \A i \in 1 .. Len(workflow.inputs[m]) : \A d \in Data :
           ~Free(m, i, d) => d[2] = 0 \/ Sent(m, i, d)
    BY <1>6 DEF Delivered, HeldWasSent
  <1>8. ASSUME NEW m \in Node, NEW i \in 1 .. Len(workflow.inputs[m]), NEW d \in Data,
               Sent(m, i, d)
        PROVE  <<d[1], d[3]>> \in workflow.inputs[m][i] /\ (d[1] = n => d[2] < R)
    <2>1. <<d[1], d[3]>> \in workflow.inputs[m][i]
      BY <1>8 DEF Sent, connectionsBySourceNode
    <2>2. d[1] = n => d[2] < R
      BY <1>4, <1>8 DEF Sent
    <2> QED BY <2>1, <2>2
  <1>9. ASSUME NEW m \in Node, NEW i \in 1 .. Len(workflow.inputs[m]), NEW d \in Data, Fresh(d)
        PROVE  Free(m, i, d)
    <2>1. d[1] = n /\ d[2] # 0 /\ ~(d[2] < R)
      BY <1>4, <1>9
    <2> QED BY <1>7, <1>8, <2>1
  <1>10. s \in State /\ MaySend(s, n, R)
    <2>1. s \in State
      BY <1>1 DEF State, current
    <2>2. EntriesInOrder(s.waiting)
      BY <1>6 DEF Delivered, current
    <2>3. ASSUME NEW c \in connectionsBySourceNode(n), Len(workflow.inputs[c.node]) > 1
          PROVE  R <= 2
      <3>1. /\ c.node \in Node /\ c.input \in DOMAIN workflow.inputs[c.node]
            /\ <<n, c.output>> \in workflow.inputs[c.node][c.input]
        BY DEF connectionsBySourceNode
      <3>2. c.input \in 1 .. Len(workflow.inputs[c.node])
        BY <1>1, <3>1, WorkflowFacts
      <3>3. \A p \in workflow.inputs[c.node][c.input] : \A r \in Succeeded(p[1])' : r <= 2
        BY <1>1, <2>3, <3>1, <3>2 DEF twoSuccesses
      <3>4. \A r \in Succeeded(n)' : r <= 2
        BY <3>1, <3>3
      <3> QED BY <1>4, <3>4
    <2>4. ASSUME NEW m \in Node, NEW i \in 1 .. Len(workflow.inputs[m]), NEW d \in Data,
                 ~PendNone(s, m, i, d)
          PROVE  \/ d[2] = 0
                 \/ <<d[1], d[3]>> \in workflow.inputs[m][i] /\ (d[1] = n => d[2] < R)
      <3>1. ~Free(m, i, d)
        BY <2>4 DEF Free
      <3> QED BY <1>7, <1>8, <3>1
    <2> QED BY <2>1, <2>2, <2>3, <2>4 DEF MaySend
  <1> PICK t : t = current'
    OBVIOUS
  <1>11. /\ EntriesInOrder(t.waiting)
         /\ Adds(s, t, n, R, IF n = workflow.destination THEN {} ELSE C)
    <2>1. CASE n = workflow.destination
      <3>1. t = s
        BY <2>1 DEF NodeReturnsData, current
      <3>2. ASSUME NEW m \in Node, NEW i \in 1 .. Len(workflow.inputs[m]), NEW d \in Data
            PROVE  IF Fresh(d) THEN PendNone(s, m, i, d) ELSE PendSame(s, s, m, i, d)
        <4>1. Fresh(d) => PendNone(s, m, i, d)
          <5> HIDE DEF Fresh
          <5> QED BY <1>9 DEF Free
        <4>2. PendSame(s, s, m, i, d)
          BY DEF PendSame
        <4> QED BY <4>1, <4>2
      <3>3. Adds(s, s, n, R, {})
        BY <3>2 DEF Adds
      <3>4. EntriesInOrder(s.waiting)
        BY <1>10 DEF MaySend
      <3> QED BY <2>1, <3>1, <3>3, <3>4
    <2>2. CASE n # workflow.destination
      <3> DEFINE u == addNodes(s, n, R, outputs)
      <3>1. t = [stack |-> nextWaiting(u).stack, waiting |-> nextWaiting(u).waiting]
        BY <2>2 DEF NodeReturnsData, current
      <3>2. u \in State /\ EntriesInOrder(u.waiting) /\ Adds(s, u, n, R, C)
        <4>1. /\ workflow \in Workflow /\ joinsOfTwo /\ n \in Node /\ R \in Nat \ {0}
              /\ outputs \in SUBSET Output /\ s \in State /\ MaySend(s, n, R)
          BY <1>1, <1>2, <1>4, <1>10
        <4> QED BY <4>1, AddNodesKeeps
      <3> HIDE DEF u
      <3>3. /\ \A m \in Node : \A i \in 1 .. Len(workflow.inputs[m]) : \A d \in Data :
                  PendSame(u, nextWaiting(u), m, i, d)
            /\ EntriesInOrder(nextWaiting(u).waiting)
            /\ nextWaiting(u) \in State
        BY <1>1, <3>2, NextWaitingKeeps, NextWaitingType
      <3>4. t = nextWaiting(u)
        BY <3>1, <3>3 DEF State
      <3>5. Adds(s, t, n, R, C)
        BY <3>2, <3>3, <3>4 DEF Adds, PendSame
      <3> QED BY <2>2, <3>3, <3>4, <3>5
    <2> QED BY <2>1, <2>2
  <1>12. ASSUME NEW m \in Node, NEW i \in 1 .. Len(workflow.inputs[m]), NEW d \in Data
         PROVE  /\ ~InNode(m, i, d)'
                /\ RunsAt(m, i, d)' = RunsAt(m, i, d) \cup (IF InNode(m, i, d) THEN {R} ELSE {})
    <2>1. ~InNode(m, i, d)'
      <3>1. InNode(m, i, d)' = Holds(executionData'.node, executionData'.data, m, i, d)
        BY DEF InNode
      <3> QED BY <1>1, <3>1, NoItemHolds
    <2>2. \A r : r \in RunsAt(m, i, d)' <=>
                    r \in Succeeded(m)' /\ Holds(m, runData'[m][r].data, m, i, d)
      BY DEF RunsAt
    <2>3. \A r : r \in RunsAt(m, i, d) <=>
                    r \in Succeeded(m) /\ Holds(m, runData[m][r].data, m, i, d)
      BY DEF RunsAt
    <2>4. CASE m # n
      <3>1. ~InNode(m, i, d)
        BY <2>4 DEF InNode, Holds
      <3>2. RunsAt(m, i, d)' = RunsAt(m, i, d)
        <4>1. \A r : r \in RunsAt(m, i, d)' <=> r \in RunsAt(m, i, d)
          BY <1>4, <2>2, <2>3, <2>4
        <4>2. RunsAt(m, i, d)' \subseteq Succeeded(m)' /\ RunsAt(m, i, d) \subseteq Succeeded(m)
          BY DEF RunsAt
        <4> QED BY <4>1
      <3> QED BY <2>1, <3>1, <3>2
    <2>5. CASE m = n
      <3>1. R \in RunsAt(m, i, d)' <=> InNode(m, i, d)
        BY <1>4, <2>2, <2>5 DEF InNode, Holds
      <3>2. R \notin RunsAt(m, i, d)
        BY <1>4, <2>3, <2>5
      <3>3. \A r : r # R => (r \in RunsAt(m, i, d)' <=> r \in RunsAt(m, i, d))
        BY <1>4, <2>2, <2>3, <2>5
      <3> DEFINE X == RunsAt(m, i, d)'
                 Y == RunsAt(m, i, d)
                 I == InNode(m, i, d)
      <3> HIDE DEF X, Y, I
      <3>4. X = Y \cup (IF I THEN {R} ELSE {})
        BY <3>1, <3>2, <3>3 DEF X, Y, I
      <3> QED BY <2>1, <3>4 DEF X, Y, I
    <2> QED BY <2>4, <2>5
  <1>13. ASSUME NEW m \in Node, NEW i \in 1 .. Len(workflow.inputs[m]), NEW d \in Data
         PROVE  /\ ~Fresh(d) /\ Free(m, i, d) => Free(m, i, d)'
                /\ ~Fresh(d) /\ Once(m, i, d) => Once(m, i, d)'
                /\ Fresh(d) /\ Now(m, i, d) => Once(m, i, d)'
                /\ Fresh(d) /\ ~Now(m, i, d) => Free(m, i, d)'
    <2> DEFINE X == RunsAt(m, i, d)'
               Y == RunsAt(m, i, d)
               I == InNode(m, i, d)
    <2>1. IF Fresh(d) THEN IF Now(m, i, d) THEN PendOnce(t, m, i, d) ELSE PendNone(t, m, i, d)
          ELSE PendSame(s, t, m, i, d)
      <3> QED BY <1>11 DEF Adds
    <2>2. ~InNode(m, i, d)' /\ X = Y \cup (IF I THEN {R} ELSE {})
      BY <1>12
    <2>3. Fresh(d) => Free(m, i, d)
      <3> HIDE DEF Fresh
      <3> QED BY <1>9
    <2>4. /\ PendNone(current, m, i, d)' <=> PendNone(t, m, i, d)
          /\ PendOnce(current, m, i, d)' <=> PendOnce(t, m, i, d)
      BY DEF PendNone, PendOnce, current
    <2> HIDE DEF X, Y, I, Fresh, Now
    <2>5. /\ Free(m, i, d) <=> PendNone(s, m, i, d) /\ ~I /\ Y = {}
          /\ Once(m, i, d) <=> \/ PendOnce(s, m, i, d) /\ ~I /\ Y = {}
                               \/ PendNone(s, m, i, d) /\ I /\ Y = {}
                               \/ PendNone(s, m, i, d) /\ ~I /\ IsOne(Y)
      BY DEF Free, Once, I, Y
    <2>6. /\ Free(m, i, d)' <=> PendNone(t, m, i, d) /\ X = {}
          /\ Once(m, i, d)' <=> \/ PendOnce(t, m, i, d) /\ X = {}
                                \/ PendNone(t, m, i, d) /\ IsOne(X)
      BY <2>2, <2>4 DEF Free, Once, X
    <2>7. (~I => X = Y) /\ (I /\ Y = {} => IsOne(X))
      BY <2>2 DEF IsOne
    <2> QED BY <2>1, <2>3, <2>5, <2>6, <2>7 DEF PendSame
  <1>14. ASSUME NEW m \in Node, NEW i \in 1 .. Len(workflow.inputs[m]), NEW d \in Data
         PROVE  /\ ~Fresh(d) => (Sent(m, i, d)' <=> Sent(m, i, d))
                /\ Fresh(d) => (Sent(m, i, d)' <=> Now(m, i, d))
    <2>1. Sent(m, i, d)' <=> /\ d[1] \in Node \ {workflow.destination}
                             /\ d[2] \in Succeeded(d[1])'
                             /\ d[3] \in runData'[d[1]][d[2]].outputs
                             /\ [output |-> d[3], node |-> m, input |-> i]
                                   \in connectionsBySourceNode(d[1])
      BY <1>1 DEF Sent, connectionsBySourceNode, Input
    <2>2. ASSUME ~Fresh(d) PROVE Sent(m, i, d)' <=> Sent(m, i, d)
      <3>1. d[1] \in Node
        BY DEF Data
      <3>2. d[2] \in Succeeded(d[1])' <=> d[2] \in Succeeded(d[1])
        BY <1>4, <2>2, <3>1
      <3>3. d[2] \in Succeeded(d[1]) => runData'[d[1]][d[2]] = runData[d[1]][d[2]]
        BY <1>5, <3>1
      <3> QED BY <2>1, <3>2, <3>3 DEF Sent
    <2>3. ASSUME Fresh(d) PROVE Sent(m, i, d)' <=> Now(m, i, d)
      <3> DEFINE p == [output |-> d[3], node |-> m, input |-> i]
      <3>1. d[2] \in Succeeded(d[1])' /\ runData'[d[1]][d[2]].outputs = outputs /\ d[1] = n
        BY <1>4, <2>3
      <3>2. Sent(m, i, d)' <=> n # workflow.destination /\ p \in C
        BY <1>4, <2>1, <3>1
      <3>3. p \in C <=> \E c \in C : c.node = m /\ c.input = i /\ c.output = d[3]
        <4>1. \A c \in C : c = [output |-> c.output, node |-> c.node, input |-> c.input]
          BY DEF connectionsBySourceNode
        <4> QED BY <4>1
      <3> QED BY <3>2, <3>3
    <2> QED BY <2>2, <2>3
  <1> HIDE DEF Fresh, Now
  <1>15. HeldOnce'
    <2> SUFFICES ASSUME NEW m \in Node, NEW i \in 1 .. Len(workflow.inputs[m]), NEW d \in Data,
                        Sent(m, i, d)'
                 PROVE  Once(m, i, d)' \/ (Free(m, i, d)' /\ consumes(m)')
      BY <1>1 DEF HeldOnce
    <2>1. CASE Fresh(d)
      BY <1>13, <1>14, <2>1
    <2>2. CASE ~Fresh(d)
      <3>1. Once(m, i, d) \/ (Free(m, i, d) /\ consumes(m))
        BY <1>6, <1>14, <2>2 DEF Delivered, HeldOnce
      <3>2. consumes(m)' <=> consumes(m)
        BY <1>1, ConsumesStays
      <3> QED BY <1>13, <2>2, <3>1, <3>2
    <2> QED BY <2>1, <2>2
  <1>16. HeldWasSent'
    <2> SUFFICES ASSUME NEW m \in Node, NEW i \in 1 .. Len(workflow.inputs[m]), NEW d \in Data,
                        ~Free(m, i, d)'
                 PROVE  d[2] = 0 \/ Sent(m, i, d)'
      BY <1>1 DEF HeldWasSent
    <2> QED BY <1>7, <1>13, <1>14
  <1>17. EntriesInOrder(waitingExecution)'
    <2>1. EntriesInOrder(waitingExecution')
      BY <1>11 DEF current
    <2> QED BY <1>1, <2>1 DEF EntriesInOrder, EntryInOrder
  <1> QED BY <1>15, <1>16, <1>17 DEF Delivered

(* The results that BeforeFails replaces hold no run that succeeded. *)
LEMMA BeforeFailsSuccesses ==
    ASSUME EngineInv, BeforeFails, nodeExecutionStack # <<>>
    PROVE  NoSuccess'
  <1> DEFINE item == Head(nodeExecutionStack)
             run == [data |-> item.data, outputs |-> {}, executionStatus |-> "error", error |-> FALSE]
  <1>1. runData' = [n \in Node |-> IF n = item.node THEN <<run>> ELSE <<>>]
    BY DEF BeforeFails
  <1>2. run.executionStatus = "error"
    OBVIOUS
  <1> HIDE DEF item, run
  <1>3. ASSUME NEW n \in Node PROVE Succeeded(n)' = {}
    <2>1. runData'[n] = <<run>> \/ runData'[n] = <<>>
      BY <1>1
    <2>2. CASE runData'[n] = <<run>>
      <3>1. Len(runData'[n]) = 1 /\ runData'[n][1] = run
        BY <2>2
      <3>2. \A r \in 1 .. Len(runData'[n]) : runData'[n][r].executionStatus = "error"
        BY <1>2, <3>1
      <3> QED BY <3>2 DEF Succeeded
    <2>3. CASE runData'[n] = <<>>
      <3>1. Len(runData'[n]) = 0
        BY <2>3
      <3> QED BY <3>1 DEF Succeeded
    <2> QED BY <2>1, <2>2, <2>3
  <1> QED BY <1>3 DEF NoSuccess

(* A step that records nothing changes no run that succeeded. *)
LEMMA SameRuns ==
    ASSUME runData' = runData
    PROVE  SameSuccesses /\ (NoSuccess => NoSuccess')
  BY DEF SameSuccesses, Succeeded, NoSuccess

(* A node is held in execution in phase "node" only. *)
LEMMA NodeIsExecutedStep ==
    ASSUME EngineInv, NodeIsExecuted, [Next]_vars
    PROVE  NodeIsExecuted'
  <1>1. CASE Begin
    BY <1>1 DEF Begin, NodeIsExecuted
  <1>2. CASE BeforeFails
    BY <1>2 DEF BeforeFails, NodeIsExecuted
  <1>3. CASE TakeNode
    BY <1>3 DEF TakeNode, NodeIsExecuted
  <1>4. CASE NodeReturnsNull
    BY <1>4 DEF NodeReturnsNull, NodeIsExecuted
  <1>5. CASE NodeReturnsData
    BY <1>5 DEF NodeReturnsData, NodeIsExecuted
  <1>6. CASE NodeStops
    BY <1>6 DEF NodeStops, NodeIsExecuted
  <1>7. CASE LoopEnds
    BY <1>7 DEF LoopEnds, NodeIsExecuted
  <1>8. CASE AfterFails
    BY <1>8 DEF AfterFails, NodeIsExecuted
  <1>9. CASE Close
    BY <1>9 DEF Close, NodeIsExecuted
  <1>10. CASE Cancel
    BY <1>10 DEF Cancel, NodeIsExecuted
  <1>11. CASE Timeout
    BY <1>11 DEF Timeout, NodeIsExecuted
  <1>12. CASE Resume
    BY <1>12 DEF Resume, goesOn, NodeIsExecuted
  <1>13. CASE Retry
    BY <1>13 DEF Retry, goesOn, NodeIsExecuted
  <1>14. CASE UNCHANGED vars
    BY <1>14 DEF vars, NodeIsExecuted
  <1> QED
    BY <1>1, <1>2, <1>3, <1>4, <1>5, <1>6, <1>7, <1>8, <1>9, <1>10, <1>11, <1>12, <1>13, <1>14
    DEF Next

(* The last run of the node that an execution stopped at did not succeed. *)
LEMMA StoppedRunStep ==
    ASSUME EngineInv, StoppedRun, [Next]_vars
    PROVE  StoppedRun'
  <1>0. phase \in {"starting", "loop", "node"} => result = "none"
    BY DEF EngineInv
  <1>a. ASSUME UNCHANGED <<nodeExecutionStack, runData, result>> PROVE StoppedRun'
    BY <1>a DEF StoppedRun, Stopped, Succeeded
  <1>b. ASSUME result' \in {"none", "canceled"} \/ nodeExecutionStack' = <<>> PROVE StoppedRun'
    BY <1>b DEF StoppedRun, Stopped
  <1>1. CASE Begin
    BY <1>1, <1>a DEF Begin
  <1>2. CASE BeforeFails
    <2>1. CASE nodeExecutionStack = <<>>
      BY <1>2, <1>b, <2>1 DEF BeforeFails
    <2>2. CASE nodeExecutionStack # <<>>
      <3>1. NoSuccess'
        BY <1>2, <2>2, BeforeFailsSuccesses
      <3>2. Head(nodeExecutionStack) \in Item /\ nodeExecutionStack' = nodeExecutionStack
        BY <1>2, <2>2, HeadTailProperties DEF BeforeFails, EngineInv
      <3> QED BY <3>1, <3>2 DEF NoSuccess, StoppedRun, Item
    <2> QED BY <2>1, <2>2
  <1>3. CASE TakeNode
    BY <1>0, <1>3, <1>b DEF TakeNode
  <1>4. CASE NodeReturnsNull
    BY <1>4, <1>a DEF NodeReturnsNull
  <1>5. CASE NodeReturnsData
    BY <1>0, <1>5, <1>b DEF NodeReturnsData
  <1>6. CASE NodeStops
    <2> DEFINE outcome == IF runNode(executionData).kind = "wait" THEN "waiting" ELSE "error"
    <2> PICK n : n = executionData.node
      OBVIOUS
    <2> PICK R : R = Len(runData[n]) + 1
      OBVIOUS
    <2>1. /\ nodeExecutionStack' = <<executionData>> \o nodeExecutionStack
          /\ record({}, outcome) /\ executionData \in Item /\ runData \in [Node -> Seq(Run)]
          /\ nodeExecutionStack \in Seq(Item)
      BY <1>6 DEF NodeStops, EngineInv
    <2>2. outcome \in {"success", "waiting", "error"} /\ outcome # "success"
      OBVIOUS
    <2> HIDE DEF outcome
    <2>3. Len(runData'[n]) = R /\ (R \in Succeeded(n)' <=> outcome = "success")
      <3>1. {} \in SUBSET Output
        OBVIOUS
      <3> QED BY <2>1, <2>2, <3>1, RecordSuccesses
    <2>4. Head(nodeExecutionStack') = executionData
      BY <2>1
    <2> QED BY <2>2, <2>3, <2>4 DEF StoppedRun
  <1>7. CASE LoopEnds
    BY <1>7, <1>b DEF LoopEnds, processSuccessExecution
  <1>8. CASE AfterFails
    <2>1. /\ result = "canceled" => status = "canceled"
          /\ result # "none" /\ result \in Result \cup {"none"}
          /\ UNCHANGED <<nodeExecutionStack, runData>>
      BY <1>8 DEF AfterFails, EngineInv
    <2>2. result' = "canceled" \/ result \in {"success", "error", "waiting"}
      BY <1>8, <2>1 DEF AfterFails, catch, Result
    <2> QED BY <2>1, <2>2 DEF StoppedRun, Stopped, Succeeded
  <1>9. CASE Close
    BY <1>9, <1>a DEF Close
  <1>10. CASE Cancel
    BY <1>10, <1>a DEF Cancel
  <1>11. CASE Timeout
    BY <1>11, <1>a DEF Timeout
  <1>12. CASE Resume
    BY <1>12, <1>b DEF Resume, goesOn
  <1>13. CASE Retry
    BY <1>13, <1>b DEF Retry, goesOn
  <1>14. CASE UNCHANGED vars
    BY <1>14, <1>a DEF vars
  <1> QED
    BY <1>1, <1>2, <1>3, <1>4, <1>5, <1>6, <1>7, <1>8, <1>9, <1>10, <1>11, <1>12, <1>13, <1>14
    DEF Next

(* No run has succeeded before the first start is done. *)
LEMMA NotStartedStep ==
    ASSUME EngineInv, NotStarted, [Next]_vars
    PROVE  NotStarted'
  <1>a. ASSUME phase' # "starting" \/ retried' = TRUE PROVE NotStarted'
    BY <1>a DEF NotStarted
  <1>b. ASSUME UNCHANGED <<phase, runData, retried>> PROVE NotStarted'
    BY <1>b, SameRuns DEF NotStarted
  <1>1. CASE Begin
    BY <1>1, <1>a DEF Begin
  <1>2. CASE BeforeFails
    BY <1>2, <1>a DEF BeforeFails, catch
  <1>3. CASE TakeNode
    BY <1>3, <1>a DEF TakeNode
  <1>4. CASE NodeReturnsNull
    BY <1>4, <1>a DEF NodeReturnsNull
  <1>5. CASE NodeReturnsData
    BY <1>5, <1>a DEF NodeReturnsData
  <1>6. CASE NodeStops
    BY <1>6, <1>a DEF NodeStops, processSuccessExecution
  <1>7. CASE LoopEnds
    BY <1>7, <1>a DEF LoopEnds, processSuccessExecution
  <1>8. CASE AfterFails
    BY <1>8, <1>a DEF AfterFails, catch
  <1>9. CASE Close
    BY <1>9, <1>a DEF Close
  <1>10. CASE Cancel
    BY <1>10, <1>b DEF Cancel
  <1>11. CASE Timeout
    BY <1>11, <1>b DEF Timeout
  <1>12. CASE Resume
    BY <1>12, <1>a DEF Resume, goesOn
  <1>13. CASE Retry
    BY <1>13, <1>a DEF Retry, goesOn
  <1>14. CASE UNCHANGED vars
    BY <1>14, <1>b DEF vars
  <1> QED
    BY <1>1, <1>2, <1>3, <1>4, <1>5, <1>6, <1>7, <1>8, <1>9, <1>10, <1>11, <1>12, <1>13, <1>14
    DEF Next

(***************************************************************************)
(* Every step keeps the delivery of data, unless it leaves a retry that    *)
(* has lost its runs.                                                      *)
(***************************************************************************)
LEMMA DeliveredStep ==
    ASSUME EngineInv, DeliveryInv, [Next]_vars, ~Dead', joinsOfTwo', twoSuccesses'
    PROVE  Delivered'
  <1>0. workflow \in Workflow /\ workflow' = workflow
    <2>1. workflow' = workflow
      BY DEF Next, vars, Begin, BeforeFails, TakeNode, NodeReturnsNull, NodeReturnsData,
         NodeStops,
             LoopEnds, AfterFails, Close, Cancel, Timeout, Resume, Retry, goesOn
    <2> QED BY <2>1 DEF EngineInv
  <1>j. joinsOfTwo
    BY <1>0 DEF joinsOfTwo
  <1>a. ASSUME SameSuccesses, ~Dead, waitingExecution' = waitingExecution,
               \A m \in Node : \A i \in 1 .. Len(workflow.inputs[m]) : \A d \in Data : Kept(m, i, d)
        PROVE  Delivered'
    <2>1. twoSuccesses
      BY <1>0, <1>a, SameSuccessesFacts
    <2>2. Delivered
      BY <1>a, <1>j, <2>1 DEF DeliveryInv
    <2> QED BY <1>0, <1>a, <2>2, Carried
  <1>b. ASSUME SameSuccesses, ~Dead,
               UNCHANGED <<nodeExecutionStack, waitingExecution, executionData>>
        PROVE  Delivered'
    <2>1. \A m \in Node : \A i \in 1 .. Len(workflow.inputs[m]) : \A d \in Data : Kept(m, i, d)
      BY <1>0, <1>b, Unmoved
    <2> QED BY <1>a, <1>b, <2>1
  <1>c. NodeIsExecuted /\ StoppedRun /\ NotStarted
    BY DEF DeliveryInv
  <1>1. CASE Begin
    <2>1. runData' = runData /\ phase = "starting"
          /\ UNCHANGED <<nodeExecutionStack, waitingExecution, executionData>>
      BY <1>1 DEF Begin
    <2>2. ~Dead
      BY <2>1 DEF Dead
    <2> QED BY <1>b, <2>1, <2>2, SameRuns
  <1>2. CASE BeforeFails
    <2>1. /\ phase = "starting" /\ phase' = "closing" /\ retried' = retried
          /\ result' \in {"error", "canceled"}
          /\ UNCHANGED <<nodeExecutionStack, waitingExecution, executionData>>
      BY <1>2 DEF BeforeFails, catch
    <2>2. ~Dead
      BY <2>1 DEF Dead
    <2>3. SameSuccesses
      <3>1. CASE nodeExecutionStack = <<>>
        BY <1>2, <3>1, SameRuns DEF BeforeFails
      <3>2. CASE nodeExecutionStack # <<>>
        <4>1. NoSuccess'
          BY <1>2, <3>2, BeforeFailsSuccesses
        <4>2. ~retried
          BY <2>1, <4>1 DEF Dead
        <4>3. NoSuccess
          BY <1>c, <2>1, <4>2 DEF NotStarted
        <4> QED BY <4>1, <4>3 DEF NoSuccess, SameSuccesses
      <3> QED BY <3>1, <3>2
    <2> QED BY <1>b, <2>1, <2>2, <2>3
  <1>3. CASE TakeNode
    <2>1. /\ runData' = runData /\ phase = "loop" /\ waitingExecution' = waitingExecution
      BY <1>3 DEF TakeNode
    <2>2. ~Dead
      BY <2>1 DEF Dead
    <2>3. \A m \in Node : \A i \in 1 .. Len(workflow.inputs[m]) : \A d \in Data : Kept(m, i, d)
      BY <1>3, <1>c, TakeNodeKeeps
    <2> QED BY <1>a, <2>1, <2>2, <2>3, SameRuns
  <1>4. CASE NodeReturnsNull
    <2>1. /\ runData' = runData /\ phase = "node" /\ waitingExecution' = waitingExecution
      BY <1>4 DEF NodeReturnsNull
    <2>2. ~Dead
      BY <2>1 DEF Dead
    <2>3. \A m \in Node : \A i \in 1 .. Len(workflow.inputs[m]) : \A d \in Data : Kept(m, i, d)
      BY <1>4, NodeReturnsNullKeeps
    <2> QED BY <1>a, <2>1, <2>2, <2>3, SameRuns
  <1>5. CASE NodeReturnsData
    BY <1>5, <1>j, NodeReturnsDataKeeps
  <1>6. CASE NodeStops
    <2>1. phase = "node" /\ waitingExecution' = waitingExecution
      BY <1>6 DEF NodeStops
    <2>2. ~Dead
      BY <2>1 DEF Dead
    <2>3. \A m \in Node : \A i \in 1 .. Len(workflow.inputs[m]) : \A d \in Data :
             SameSuccesses /\ Kept(m, i, d)
      BY <1>6, NodeStopsKeeps
    <2>4. SameSuccesses
      BY <1>6, NodeStopsSuccesses
    <2> QED BY <1>a, <2>1, <2>2, <2>3, <2>4
  <1>7. CASE LoopEnds
    <2>1. runData' = runData /\ phase = "loop"
          /\ UNCHANGED <<nodeExecutionStack, waitingExecution, executionData>>
      BY <1>7 DEF LoopEnds
    <2>2. ~Dead
      BY <2>1 DEF Dead
    <2> QED BY <1>b, <2>1, <2>2, SameRuns
  <1>8. CASE AfterFails
    <2>1. runData' = runData /\ phase = "reporting"
          /\ UNCHANGED <<nodeExecutionStack, waitingExecution, executionData>>
      BY <1>8 DEF AfterFails
    <2>2. ~Dead
      BY <2>1 DEF Dead
    <2> QED BY <1>b, <2>1, <2>2, SameRuns
  <1>9. CASE Close
    <2>1. /\ runData' = runData /\ phase' = "done" /\ UNCHANGED <<result, retried>>
          /\ UNCHANGED <<nodeExecutionStack, waitingExecution, executionData>>
      BY <1>9 DEF Close
    <2>2. ~Dead
      BY <2>1, SameRuns DEF Dead
    <2> QED BY <1>b, <2>1, <2>2, SameRuns
  <1>10. CASE Cancel
    <2>1. /\ runData' = runData /\ UNCHANGED <<phase, result, retried>>
          /\ UNCHANGED <<nodeExecutionStack, waitingExecution, executionData>>
      BY <1>10 DEF Cancel
    <2>2. ~Dead
      BY <2>1, SameRuns DEF Dead
    <2> QED BY <1>b, <2>1, <2>2, SameRuns
  <1>11. CASE Timeout
    <2>1. runData' = runData /\ phase = "loop"
          /\ UNCHANGED <<nodeExecutionStack, waitingExecution, executionData>>
      BY <1>11 DEF Timeout
    <2>2. ~Dead
      BY <2>1 DEF Dead
    <2> QED BY <1>b, <2>1, <2>2, SameRuns
  <1>12. CASE Resume
    <2>1. result = "waiting" /\ UNCHANGED <<nodeExecutionStack, waitingExecution, executionData>>
      BY <1>12 DEF Resume, goesOn
    <2>2. LET n == Head(nodeExecutionStack).node
          IN  nodeExecutionStack # <<>> /\ runData' = [runData EXCEPT ![n] = Front(@)]
      BY <1>12 DEF Resume, EngineInv
    <2>3. SameSuccesses
      BY <1>c, <2>1, <2>2, GoesOnKeeps
    <2>4. ~Dead
      BY <2>1 DEF Dead
    <2> QED BY <1>b, <2>1, <2>3, <2>4
  <1>13. CASE Retry
    <2>1. /\ result = "error" /\ ~retried
          /\ UNCHANGED <<nodeExecutionStack, waitingExecution, executionData>>
      BY <1>13 DEF Retry, goesOn
    <2>2. LET n == Head(nodeExecutionStack).node
          IN  \/ runData' = runData
              \/ nodeExecutionStack # <<>> /\ runData' = [runData EXCEPT ![n] = Front(@)]
      BY <1>13 DEF Retry
    <2>3. SameSuccesses
      BY <1>c, <2>1, <2>2, GoesOnKeeps
    <2>4. ~Dead
      BY <2>1 DEF Dead
    <2> QED BY <1>b, <2>1, <2>3, <2>4
  <1>14. CASE UNCHANGED vars
    <2>1. /\ runData' = runData /\ UNCHANGED <<phase, result, retried>>
          /\ UNCHANGED <<nodeExecutionStack, waitingExecution, executionData>>
      BY <1>14 DEF vars
    <2>2. ~Dead
      BY <2>1, SameRuns DEF Dead
    <2> QED BY <1>b, <2>1, <2>2, SameRuns
  <1> QED
    BY <1>1, <1>2, <1>3, <1>4, <1>5, <1>6, <1>7, <1>8, <1>9, <1>10, <1>11, <1>12, <1>13, <1>14
    DEF Next

(* Initially the start item is held, and nothing has been sent. *)
LEMMA DeliveryInit ==
    ASSUME Init
    PROVE  DeliveryInv
  <1> DEFINE item == [node |-> 1, data |-> <<<<1, 0, 1>>>>]
  <1>1. /\ workflow \in Workflow /\ nodeExecutionStack = <<item>> /\ waitingExecution = <<>>
        /\ runData = [n \in Node |-> <<>>] /\ executionData = NoItem /\ result = "none"
    BY DEF Init
  <1>2. \A n \in Node : Succeeded(n) = {}
    <2> SUFFICES ASSUME NEW n \in Node PROVE Succeeded(n) = {}
      OBVIOUS
    <2>1. Len(runData[n]) = 0
      BY <1>1
    <2> QED BY <2>1 DEF Succeeded
  <1>3. \A m : entriesOf(waitingExecution, m) = <<>>
    <2>1. Len(waitingExecution) = 0
      BY <1>1
    <2> QED BY <2>1 DEF entriesOf
  <1>4. NodeIsExecuted /\ StoppedRun /\ NotStarted
    BY <1>1, <1>2 DEF NodeIsExecuted, StoppedRun, Stopped, NotStarted, NoSuccess
  <1>5. HeldOnce
    BY <1>2 DEF HeldOnce, Sent
  <1>6. HeldWasSent
    <2> SUFFICES ASSUME NEW m \in Node, NEW i \in 1 .. Len(workflow.inputs[m]), NEW d \in Data,
                        d[2] # 0
                 PROVE  Free(m, i, d)
      BY DEF HeldWasSent
    <2>1. StackAt(nodeExecutionStack, m, i, d) = {}
      <3>1. Len(nodeExecutionStack) = 1 /\ nodeExecutionStack[1] = item
        BY <1>1
      <3>2. item.data = <<<<1, 0, 1>>>>
        OBVIOUS
      <3>3. ~Holds(item.node, item.data, m, i, d)
        <4>1. \A j \in DOMAIN item.data : item.data[j][2] = 0
          BY <3>2
        <4> QED BY <4>1 DEF Holds
      <3> HIDE DEF item
      <3> QED BY <3>1, <3>3 DEF StackAt
    <2>2. EntriesAt(waitingExecution, m, i, d) = {}
      BY <1>3 DEF EntriesAt, At
    <2>3. ~InNode(m, i, d)
      BY <1>1, NoItemHolds DEF InNode
    <2>4. RunsAt(m, i, d) = {}
      BY <1>2 DEF RunsAt
    <2>5. PendNone(current, m, i, d)
      BY <2>1, <2>2, Places
    <2> QED BY <2>3, <2>4, <2>5 DEF Free
  <1>7. EntriesInOrder(waitingExecution)
    BY <1>3 DEF EntriesInOrder
  <1> QED BY <1>4, <1>5, <1>6, <1>7 DEF DeliveryInv, Delivered

(* DeliveryInv holds always. *)
LEMMA DeliveryInvariant == Spec => []DeliveryInv
  <1>1. Init => DeliveryInv
    BY DeliveryInit
  <1>2. EngineInv /\ DeliveryInv /\ [Next]_vars => DeliveryInv'
    <2> SUFFICES ASSUME EngineInv, DeliveryInv, [Next]_vars PROVE DeliveryInv'
      OBVIOUS
    <2>1. NodeIsExecuted' /\ StoppedRun' /\ NotStarted'
      BY NodeIsExecutedStep, StoppedRunStep, NotStartedStep DEF DeliveryInv
    <2>2. ~Dead' /\ joinsOfTwo' /\ twoSuccesses' => Delivered'
      BY DeliveredStep
    <2> QED BY <2>1, <2>2 DEF DeliveryInv
  <1> QED BY <1>1, <1>2, EngineInvariant, PTL DEF Spec

(***************************************************************************)
(* What holds a datum for a connection: nothing if it is free, one thing   *)
(* if it is held once.                                                     *)
(***************************************************************************)
LEMMA HoldersAre ==
    ASSUME EngineInv, NEW m \in Node, NEW i \in 1 .. Len(workflow.inputs[m]), NEW d,
           NEW c, c.node = m, c.input = i
    PROVE  /\ Free(m, i, d) => holders(c, d) = {}
           /\ Once(m, i, d) => IsOne(holders(c, d))
  <1> DEFINE S == StackAt(nodeExecutionStack, m, i, d)
             E == EntriesAt(waitingExecution, m, i, d)
             N == InNode(m, i, d)
             R == RunsAt(m, i, d)
             HS == {<<"stack", k>> : k \in S}
             HW == UNION {{<<"waiting", k, r>> : r \in {r \in DOMAIN waitingExecution[k].entries :
                                 Holds(waitingExecution[k].node, waitingExecution[k].entries[r], m, i, d)}} :
                             k \in DOMAIN waitingExecution}
             HN == IF N THEN {<<"node">>} ELSE {}
             HR == {<<"run", r>> : r \in R}
  <1>1. /\ nodeExecutionStack \in Seq(Item) /\ waitingExecution \in Waiting
        /\ runData \in [Node -> Seq(Run)] /\ workflow \in Workflow
    BY DEF EngineInv
  <1>2. /\ DOMAIN nodeExecutionStack = 1 .. Len(nodeExecutionStack)
        /\ DOMAIN waitingExecution = 1 .. Len(waitingExecution)
        /\ DOMAIN runData[m] = 1 .. Len(runData[m])
    BY <1>1 DEF Waiting
  <1>3. holders(c, d) = ((HS \cup HW) \cup HN) \cup HR
    <2> DEFINE holds(n, ds) == n = c.node /\ c.input \in DOMAIN ds /\ ds[c.input] = d
    <2>1. HS = {<<"stack", k>> : k \in {k \in DOMAIN nodeExecutionStack :
                   holds(nodeExecutionStack[k].node, nodeExecutionStack[k].data)}}
      BY <1>2 DEF StackAt, Holds
    <2>2. HR = {<<"run", r>> : r \in {r \in DOMAIN runData[c.node] :
                   /\ runData[c.node][r].executionStatus = "success"
                   /\ holds(c.node, runData[c.node][r].data)}}
      BY <1>2 DEF RunsAt, Succeeded, Holds
    <2>3. HN = IF holds(executionData.node, executionData.data) THEN {<<"node">>} ELSE {}
      BY DEF InNode, Holds
    <2>4. HW = UNION {{<<"waiting", k, r>> : r \in {r \in DOMAIN waitingExecution[k].entries :
                   holds(waitingExecution[k].node, waitingExecution[k].entries[r])}} :
                      k \in DOMAIN waitingExecution}
      BY DEF Holds
    <2> HIDE DEF HS, HW, HN, HR
    <2> QED BY <2>1, <2>2, <2>3, <2>4, Zenon DEF holders
  <1>4. ASSUME NEW k \in 1 .. Len(waitingExecution), NEW r \in DOMAIN waitingExecution[k].entries
        PROVE  Holds(waitingExecution[k].node, waitingExecution[k].entries[r], m, i, d)
                  <=> waitingExecution[k].node = m /\ r \in E
    <2>1. CASE waitingExecution[k].node # m
      BY <2>1 DEF Holds
    <2>2. CASE waitingExecution[k].node = m
      <3>1. waitingExecution[k].entries = entriesOf(waitingExecution, m)
        BY <1>1, <2>2, EntriesFacts
      <3>2. waitingExecution[k].entries[r] \in Partial(m)
        BY <1>1, <3>1, EntriesFacts DEF EntriesOK
      <3>3. i \in DOMAIN waitingExecution[k].entries[r]
        BY <3>2 DEF Partial
      <3> QED BY <2>2, <3>1, <3>3 DEF Holds, EntriesAt, At
    <2> QED BY <2>1, <2>2
  <1>5. \A x : x \in HW <=> \E k \in 1 .. Len(waitingExecution) :
                               \E r \in DOMAIN waitingExecution[k].entries :
                                  waitingExecution[k].node = m /\ r \in E /\ x = <<"waiting", k, r>>
    BY <1>2, <1>4
  <1>6. E = {} => HW = {}
    BY <1>5
  <1>7. IsOne(E) => IsOne(HW)
    <2> SUFFICES ASSUME IsOne(E) PROVE IsOne(HW)
      OBVIOUS
    <2>1. PICK r : E = {r}
      BY DEF IsOne
    <2>2. r \in DOMAIN entriesOf(waitingExecution, m)
      BY <2>1 DEF EntriesAt, At
    <2>3. PICK k \in 1 .. Len(waitingExecution) : waitingExecution[k].node = m
      BY <1>1, <2>2, EntriesFacts
    <2>4. waitingExecution[k].entries = entriesOf(waitingExecution, m)
      BY <1>1, <2>3, EntriesFacts
    <2>5. \A l \in 1 .. Len(waitingExecution) : waitingExecution[l].node = m => l = k
      BY <1>1, <2>3 DEF Waiting
    <2> HIDE DEF E, HW
    <2>6. HW = {<<"waiting", k, r>>}
      BY <1>5, <2>1, <2>2, <2>3, <2>4, <2>5
    <2> QED BY <2>6 DEF IsOne
  <1>8. (S = {} => HS = {}) /\ (R = {} => HR = {})
    <2> HIDE DEF S, R
    <2> QED OBVIOUS
  <1>9. (IsOne(S) => IsOne(HS)) /\ (IsOne(R) => IsOne(HR))
    <2> HIDE DEF S, R
    <2>1. ASSUME NEW p, S = {p} PROVE HS = {<<"stack", p>>}
      BY <2>1
    <2>2. ASSUME NEW p, R = {p} PROVE HR = {<<"run", p>>}
      BY <2>2
    <2> QED BY <2>1, <2>2 DEF IsOne
  <1>10. /\ PendNone(current, m, i, d) <=> S = {} /\ E = {}
         /\ PendOnce(current, m, i, d) <=> (IsOne(S) /\ E = {}) \/ (S = {} /\ IsOne(E))
    BY Places
  <1>11. (~N => HN = {}) /\ (N => IsOne(HN))
    BY DEF IsOne
  <1> HIDE DEF S, E, N, R, HS, HW, HN, HR
  <1>12. Free(m, i, d) => holders(c, d) = {}
    BY <1>3, <1>6, <1>8, <1>10, <1>11 DEF Free, N, R
  <1>13. Once(m, i, d) => IsOne(holders(c, d))
    <2>1. /\ Once(m, i, d) <=> \/ /\ R = {} /\ ~N
                                  /\ (IsOne(S) /\ E = {}) \/ (S = {} /\ IsOne(E))
                               \/ R = {} /\ N /\ S = {} /\ E = {}
                               \/ ~N /\ S = {} /\ E = {} /\ IsOne(R)
      BY <1>10 DEF Once, N, R
    <2>2. Once(m, i, d) => \/ IsOne(HS) /\ HW = {} /\ HN = {} /\ HR = {}
                           \/ HS = {} /\ IsOne(HW) /\ HN = {} /\ HR = {}
                           \/ HS = {} /\ HW = {} /\ IsOne(HN) /\ HR = {}
                           \/ HS = {} /\ HW = {} /\ HN = {} /\ IsOne(HR)
      BY <1>6, <1>7, <1>8, <1>9, <1>11, <2>1
    <2> QED BY <1>3, <2>2 DEF IsOne
  <1> QED BY <1>12, <1>13

(***************************************************************************)
(* What a run returned is held exactly once for each node it goes to, in   *)
(* every workflow and however often nodes run, executions wait, fail, are  *)
(* retried and are canceled, while an input of a join has at most one      *)
(* source and gets no third datum.                                         *)
(***************************************************************************)
THEOREM DataIsDeliveredOnce == Spec => []DataIsDelivered
  <1>1. EngineInv /\ DeliveryInv => DataIsDelivered
    <2> SUFFICES ASSUME EngineInv, DeliveryInv, joinsRunTwice,
                        NEW n \in Node \ {workflow.destination}, NEW r \in DOMAIN runData[n],
                        runData[n][r].executionStatus = "success",
                        NEW c \in connectionsBySourceNode(n), c.output \in runData[n][r].outputs
                 PROVE  LET held == holders(c, <<n, r, c.output>>)
                        IN  Cardinality(held) = 1 \/ (held = {} /\ consumes(c.node))
      BY DEF DataIsDelivered, DataIsAccountedFor
    <2>1. workflow \in Workflow /\ runData \in [Node -> Seq(Run)]
      BY DEF EngineInv
    <2>2. joinsOfTwo
      BY DEF joinsOfTwo, joinsRunTwice
    <2>3. twoSuccesses
      <3> SUFFICES ASSUME NEW l \in Node, Len(workflow.inputs[l]) > 1,
                          NEW i \in 1 .. Len(workflow.inputs[l]), NEW p \in workflow.inputs[l][i],
                          NEW q \in Succeeded(p[1])
                   PROVE  q <= 2
        BY DEF twoSuccesses
      <3>1. i \in {1, 2}
        BY DEF joinsRunTwice
      <3>2. Len(runData[p[1]]) <= 2
        BY <3>1 DEF joinsRunTwice
      <3>3. p[1] \in Node
        BY <2>1, SourceIsNode
      <3>4. Len(runData[p[1]]) \in Nat
        BY <2>1, <3>3, LenProperties
      <3> QED BY <3>2, <3>4 DEF Succeeded
    <2>4. r \in Succeeded(n) /\ r \in Nat
      <3>1. DOMAIN runData[n] = 1 .. Len(runData[n]) /\ Len(runData[n]) \in Nat
        BY <2>1, LenProperties
      <3> QED BY <3>1 DEF Succeeded
    <2>5. Delivered
      <3>1. ~Dead
        BY <2>4 DEF Dead, NoSuccess
      <3> QED BY <2>2, <2>3, <3>1 DEF DeliveryInv
    <2>6. /\ c.node \in Node /\ c.output \in Output
          /\ c.input \in 1 .. Len(workflow.inputs[c.node])
          /\ c = [output |-> c.output, node |-> c.node, input |-> c.input]
      BY <2>1, WorkflowFacts DEF connectionsBySourceNode
    <2> DEFINE d == <<n, r, c.output>>
    <2>7. d \in Data /\ Sent(c.node, c.input, d)
      BY <2>4, <2>6 DEF Data, Sent
    <2> HIDE DEF d
    <2>8. Once(c.node, c.input, d) \/ (Free(c.node, c.input, d) /\ consumes(c.node))
      BY <2>5, <2>6, <2>7 DEF Delivered, HeldOnce
    <2>9. IsOne(holders(c, d)) \/ (holders(c, d) = {} /\ consumes(c.node))
      BY <2>6, <2>8, HoldersAre
    <2>10. IsOne(holders(c, d)) => Cardinality(holders(c, d)) = 1
      BY FS_Singleton DEF IsOne
    <2> QED BY <2>9, <2>10 DEF d
  <1> QED BY <1>1, EngineInvariant, DeliveryInvariant, PTL

-----------------------------------------------------------------------------
(* The nodes that lead to a node *)

(* A set of nodes, with their sources. *)
wider(S) == S \cup UNION {sources(p) : p \in S}

(* Sources are nodes. *)
LEMMA SourcesFacts ==
    ASSUME workflow \in Workflow, NEW n \in Node
    PROVE  /\ sources(n) \subseteq Node
           /\ \A i \in 1 .. Len(workflow.inputs[n]) : \A c \in workflow.inputs[n][i] : c[1] \in sources(n)
  <1>1. /\ workflow.inputs[n] \in Seq(SUBSET (Node \X Output))
        /\ DOMAIN workflow.inputs[n] = 1 .. Len(workflow.inputs[n])
    BY WorkflowFacts
  <1>2. Range(workflow.inputs[n]) \subseteq SUBSET (Node \X Output)
    <2>1. \A i \in 1 .. Len(workflow.inputs[n]) : workflow.inputs[n][i] \in SUBSET (Node \X Output)
      BY <1>1, ElementOfSeq
    <2> QED BY <1>1, <2>1 DEF Range
  <1>3. \A i \in 1 .. Len(workflow.inputs[n]) : workflow.inputs[n][i] \in Range(workflow.inputs[n])
    BY <1>1 DEF Range
  <1> QED BY <1>2, <1>3 DEF sources

(***************************************************************************)
(* getParentNodes widens the sources of a node step by step.               *)
(***************************************************************************)
LEMMA WideningFacts ==
    ASSUME workflow \in Workflow, NEW n \in Node
    PROVE  \E f : /\ getParentNodes(n) = f[MaxNode]
                  /\ f[0] = sources(n)
                  /\ \A k \in 1 .. MaxNode : f[k] = wider(f[k - 1])
  <1> DEFINE Step(f, k) == IF k = 0 THEN sources(n)
                           ELSE LET near == f[k - 1] IN near \cup UNION {sources(p) : p \in near}
             Solves(f, k) == f = [j \in 0 .. k |-> Step(f, j)]
             within == CHOOSE f : f = [j \in 0 .. MaxNode |-> Step(f, j)]
             P == {k \in Nat : ~\E f : Solves(f, k)}
  <1>1. P = {}
    <2> SUFFICES ASSUME P # {} PROVE FALSE
      OBVIOUS
    <2>1. PICK k \in P : \A j \in P : k <= j
      <3>1. P \subseteq Nat
        OBVIOUS
      <3> HIDE DEF P
      <3> QED BY <3>1, LeastIsMember
    <2>2. k \in Nat /\ ~\E f : Solves(f, k)
      OBVIOUS
    <2>3. CASE k = 0
      <3> DEFINE f == [j \in 0 .. 0 |-> sources(n)]
      <3>1. Solves(f, 0)
        OBVIOUS
      <3> QED BY <2>2, <2>3, <3>1
    <2>4. CASE k # 0
      <3>1. k - 1 \in Nat /\ k - 1 \notin P
        <4>1. k - 1 \in Nat /\ ~(k <= k - 1)
          BY <2>2, <2>4
        <4> HIDE DEF P
        <4> QED BY <2>1, <4>1
      <3>2. PICK f : Solves(f, k - 1)
        BY <3>1
      <3> DEFINE g == [j \in 0 .. k |-> IF j = k THEN Step(f, k) ELSE f[j]]
      <3>3. \A j \in 0 .. k : g[j] = Step(f, j)
        <4>1. \A j \in 0 .. k - 1 : f[j] = Step(f, j)
          <5> HIDE DEF Step
          <5> QED BY <3>2
        <4>2. \A j \in 0 .. k : j # k => j \in 0 .. k - 1
          BY <2>2
        <4> HIDE DEF Step
        <4> QED BY <4>1, <4>2
      <3>4. \A j \in 0 .. k : j # 0 => g[j - 1] = f[j - 1]
        BY <2>2
      <3>5. \A j \in 0 .. k : Step(g, j) = Step(f, j)
        <4> HIDE DEF g
        <4> QED BY <3>4
      <3>6. g = [j \in 0 .. k |-> g[j]]
        <4> HIDE DEF Step
        <4> QED OBVIOUS
      <3>7. Solves(g, k)
        <4> HIDE DEF g, Step
        <4> QED BY <3>3, <3>5, <3>6
      <3> HIDE DEF g, Solves
      <3> QED BY <2>2, <3>7
    <2> QED BY <2>3, <2>4
  <1>2. MaxNode \in Nat
    BY EngineAssumption
  <1>3. \E f : f = [j \in 0 .. MaxNode |-> Step(f, j)]
    <2> HIDE DEF Step
    <2> QED BY <1>1, <1>2
  <1>4. within = [j \in 0 .. MaxNode |-> Step(within, j)]
    <2> HIDE DEF Step
    <2> QED BY <1>3
  <1>5. getParentNodes(n) = within[MaxNode]
    BY DEF getParentNodes
  <1> HIDE DEF within
  <1>6. \A j \in 0 .. MaxNode : within[j] = Step(within, j)
    <2> HIDE DEF Step
    <2> QED BY <1>4
  <1>7. within[0] = sources(n) /\ \A k \in 1 .. MaxNode : within[k] = wider(within[k - 1])
    <2>1. 0 \in 0 .. MaxNode /\ \A k \in 1 .. MaxNode : k \in 0 .. MaxNode /\ k # 0
      BY <1>2
    <2> QED BY <1>6, <2>1 DEF wider
  <1> QED BY <1>5, <1>7

(***************************************************************************)
(* The nodes that lead to n are its sources, theirs, and so on: widening   *)
(* once for each node reaches all of them.                                 *)
(***************************************************************************)
LEMMA ParentFacts ==
    ASSUME workflow \in Workflow, NEW n \in Node
    PROVE  /\ sources(n) \subseteq getParentNodes(n)
           /\ getParentNodes(n) \subseteq Node
           /\ \A p \in getParentNodes(n) : getParentNodes(p) \subseteq getParentNodes(n)
  <1>0. MaxNode \in Nat /\ IsFiniteSet(Node) /\ Cardinality(Node) = MaxNode
    BY EngineAssumption, FS_Interval DEF Node
  <1>s. \A p \in Node : sources(p) \subseteq Node
    BY SourcesFacts
  <1>a. ASSUME NEW m \in Node, NEW S \in SUBSET Node, sources(m) \subseteq S, wider(S) = S
        PROVE  getParentNodes(m) \subseteq S
    <2>1. PICK f : /\ getParentNodes(m) = f[MaxNode]
                   /\ f[0] = sources(m)
                   /\ \A k \in 1 .. MaxNode : f[k] = wider(f[k - 1])
      BY WideningFacts
    <2> DEFINE P == {k \in 0 .. MaxNode : ~(f[k] \subseteq S)}
    <2>2. P = {}
      <3> SUFFICES ASSUME P # {} PROVE FALSE
        OBVIOUS
      <3>1. PICK k \in P : \A j \in P : k <= j
        <4>1. P \subseteq Nat
          BY <1>0
        <4> HIDE DEF P
        <4> QED BY <4>1, LeastIsMember
      <3>2. k \in 0 .. MaxNode /\ ~(f[k] \subseteq S)
        OBVIOUS
      <3>3. k # 0
        BY <1>a, <2>1, <3>2
      <3>4. k \in 1 .. MaxNode /\ k - 1 \in 0 .. MaxNode /\ ~(k <= k - 1)
        BY <1>0, <3>2, <3>3
      <3>5. f[k - 1] \subseteq S
        BY <3>1, <3>4
      <3>6. wider(f[k - 1]) \subseteq wider(S)
        BY <3>5 DEF wider
      <3> QED BY <1>a, <2>1, <3>2, <3>4, <3>6
    <2>3. MaxNode \in 0 .. MaxNode
      BY <1>0
    <2> QED BY <2>1, <2>2, <2>3
  <1>b. ASSUME NEW m \in Node
        PROVE  /\ sources(m) \subseteq getParentNodes(m)
               /\ getParentNodes(m) \subseteq Node
               /\ wider(getParentNodes(m)) = getParentNodes(m)
    <2>1. PICK f : /\ getParentNodes(m) = f[MaxNode]
                   /\ f[0] = sources(m)
                   /\ \A k \in 1 .. MaxNode : f[k] = wider(f[k - 1])
      BY WideningFacts
    <2> DEFINE Good(k) == /\ sources(m) \subseteq f[k]
                          /\ f[k] \subseteq Node
                          /\ wider(f[k]) = f[k] \/ Cardinality(f[k]) >= k + 1
               P == {k \in 0 .. MaxNode : ~Good(k)}
    <2>2. P = {}
      <3> SUFFICES ASSUME P # {} PROVE FALSE
        OBVIOUS
      <3>1. PICK k \in P : \A j \in P : k <= j
        <4>1. P \subseteq Nat
          BY <1>0
        <4> HIDE DEF P
        <4> QED BY <4>1, LeastIsMember
      <3>2. k \in 0 .. MaxNode /\ ~Good(k)
        OBVIOUS
      <3>3. CASE k = 0
        <4>1. f[0] \subseteq Node /\ IsFiniteSet(f[0]) /\ Cardinality(f[0]) \in Nat
          BY <1>0, <1>s, <2>1, FS_Subset, FS_CardinalityType
        <4>2. CASE f[0] = {}
          <5>1. wider(f[0]) = f[0]
            BY <4>2 DEF wider
          <5> QED BY <2>1, <3>2, <3>3, <4>1, <5>1
        <4>3. CASE f[0] # {}
          <5>1. Cardinality(f[0]) # 0
            BY <4>1, <4>3, FS_EmptySet
          <5>2. Cardinality(f[0]) >= 0 + 1
            BY <4>1, <5>1
          <5> QED BY <2>1, <3>2, <3>3, <4>1, <5>2
        <4> QED BY <4>2, <4>3
      <3>4. CASE k # 0
        <4>1. k \in 1 .. MaxNode /\ k - 1 \in 0 .. MaxNode /\ ~(k <= k - 1)
          BY <1>0, <3>2, <3>4
        <4>2. Good(k - 1)
          <5> HIDE DEF Good
          <5> QED BY <3>1, <4>1
        <4>3. f[k] = wider(f[k - 1])
          BY <2>1, <4>1
        <4>4. sources(m) \subseteq f[k] /\ f[k - 1] \subseteq f[k]
          BY <4>2, <4>3 DEF wider
        <4>5. f[k] \subseteq Node
          <5>1. \A p \in f[k - 1] : sources(p) \subseteq Node
            BY <1>s, <4>2
          <5> QED BY <4>2, <4>3, <5>1 DEF wider
        <4>6. CASE wider(f[k - 1]) = f[k - 1]
          <5>1. wider(f[k]) = f[k]
            BY <4>3, <4>6
          <5> QED BY <3>2, <4>4, <4>5, <5>1
        <4>7. CASE wider(f[k - 1]) # f[k - 1]
          <5>1. Cardinality(f[k - 1]) >= (k - 1) + 1
            BY <4>2, <4>7
          <5>2. IsFiniteSet(f[k]) /\ Cardinality(f[k]) \in Nat /\ Cardinality(f[k - 1]) \in Nat
            BY <1>0, <4>2, <4>5, FS_Subset, FS_CardinalityType
          <5>3. Cardinality(f[k - 1]) < Cardinality(f[k])
            <6>1. f[k - 1] # f[k]
              BY <4>3, <4>7
            <6>2. Cardinality(f[k - 1]) <= Cardinality(f[k]) /\ Cardinality(f[k - 1]) # Cardinality(f[k])
              BY <4>4, <5>2, <6>1, FS_Subset
            <6> QED BY <5>2, <6>2
          <5>4. Cardinality(f[k]) >= k + 1
            BY <4>1, <5>1, <5>2, <5>3
          <5> QED BY <3>2, <4>4, <4>5, <5>4
        <4> QED BY <4>6, <4>7
      <3> QED BY <3>3, <3>4
    <2>3. MaxNode \in 0 .. MaxNode
      BY <1>0
    <2>4. Good(MaxNode)
      BY <2>2, <2>3
    <2>5. ~(Cardinality(f[MaxNode]) >= MaxNode + 1)
      <3>1. Cardinality(f[MaxNode]) \in Nat /\ Cardinality(f[MaxNode]) <= MaxNode
        BY <1>0, <2>4, FS_Subset, FS_CardinalityType
      <3> QED BY <1>0, <3>1
    <2> QED BY <2>1, <2>4, <2>5
  <1>c. ASSUME NEW p \in getParentNodes(n) PROVE getParentNodes(p) \subseteq getParentNodes(n)
    <2>1. /\ p \in Node /\ getParentNodes(n) \in SUBSET Node
          /\ wider(getParentNodes(n)) = getParentNodes(n)
      BY <1>b
    <2>2. sources(p) \subseteq getParentNodes(n)
      BY <2>1 DEF wider
    <2> QED BY <1>a, <2>1, <2>2
  <1> QED BY <1>b, <1>c

(***************************************************************************)
(* Among some nodes of a workflow without cycles one comes first: no other *)
(* of them leads to it.                                                    *)
(***************************************************************************)
LEMMA FirstOfNodes ==
    ASSUME workflow \in Workflow, acyclic, NEW B \in SUBSET Node, B # {}
    PROVE  \E n \in B : getParentNodes(n) \cap B = {}
  <1> DEFINE P == {getParentNodes(n) : n \in B}
  <1>1. PICK A \in P : \A C \in P : C \subseteq A => C = A
    <2>1. P \subseteq SUBSET Node /\ P # {}
      BY ParentFacts
    <2>2. IsFiniteSet(Node)
      BY EngineAssumption, FS_Interval DEF Node
    <2> HIDE DEF P
    <2> QED BY <2>1, <2>2, SmallestSet
  <1>2. PICK n \in B : A = getParentNodes(n)
    OBVIOUS
  <1>3. ASSUME NEW p \in getParentNodes(n), p \in B PROVE FALSE
    <2>1. getParentNodes(p) \in P /\ getParentNodes(p) \subseteq A
      BY <1>2, <1>3, ParentFacts
    <2>2. getParentNodes(p) = A
      <3> HIDE DEF P
      <3> QED BY <1>1, <2>1
    <2>3. p \in getParentNodes(p)
      BY <1>2, <2>2
    <2> QED BY <1>3, <2>3 DEF acyclic
  <1> QED BY <1>3

(* The fate of a node depends on those of the nodes that lead to it. *)
LEMMA FateDepends ==
    ASSUME workflow \in Workflow, NEW n \in Node, NEW f, NEW g,
           \A p \in getParentNodes(n) : f[p] = g[p]
    PROVE  fateOf(f, n) = fateOf(g, n)
  <1>1. DOMAIN workflow.inputs[n] = 1 .. Len(workflow.inputs[n])
    BY WorkflowFacts
  <1>2. \A i \in DOMAIN workflow.inputs[n] : \A c \in workflow.inputs[n][i] : f[c[1]] = g[c[1]]
    BY <1>1, SourcesFacts, ParentFacts
  <1> DEFINE arrives(h) == {i \in DOMAIN workflow.inputs[n] :
                               \E c \in workflow.inputs[n][i] :
                                   h[c[1]].taken /\ c[2] \in emitted(c[1], h[c[1]].inputs)}
             blocked(h) == \/ workflow.required[n] \ arrives(h) # {}
                           \/ \E p \in getParentNodes(n) : h[p].waits
             complete(h) == n = 1 \/ (arrives(h) # {} /\ arrives(h) = DOMAIN workflow.inputs[n])
  <1>3. arrives(f) = arrives(g)
    BY <1>2
  <1>4. (\E p \in getParentNodes(n) : f[p].waits) <=> (\E p \in getParentNodes(n) : g[p].waits)
    OBVIOUS
  <1>5. \A h : fateOf(h, n) = [inputs |-> arrives(h),
                               taken |-> complete(h) \/ (arrives(h) # {} /\ ~blocked(h)),
                               waits |-> arrives(h) # {} /\ ~complete(h) /\ blocked(h)]
    BY DEF fateOf
  <1> HIDE DEF arrives
  <1>6. (blocked(f) <=> blocked(g)) /\ (complete(f) <=> complete(g))
    BY <1>3, <1>4
  <1> HIDE DEF blocked, complete
  <1> QED BY <1>3, <1>5, <1>6

(***************************************************************************)
(* Without cycles, the fates of the nodes are well defined.                *)
(***************************************************************************)
LEMMA DataflowFacts ==
    ASSUME workflow \in Workflow, acyclic
    PROVE  \A n \in Node : dataflow[n] = fateOf(dataflow, n)
  <1> DEFINE Solves(f, D) == f = [n \in D |-> fateOf(f, n)]
             P == {A \in SUBSET Node : /\ \A n \in Node \ A : getParentNodes(n) \subseteq Node \ A
                                       /\ \E f : Solves(f, Node \ A)}
  <1>1. Node \in P
    <2> DEFINE f == [n \in Node \ Node |-> {}]
    <2>1. Solves(f, Node \ Node)
      OBVIOUS
    <2> QED BY <2>1
  <1>2. PICK A \in P : \A B \in P : B \subseteq A => B = A
    <2>1. P \subseteq SUBSET Node /\ P # {}
      BY <1>1
    <2>2. IsFiniteSet(Node)
      BY EngineAssumption, FS_Interval DEF Node
    <2> HIDE DEF P
    <2> QED BY <2>1, <2>2, SmallestSet
  <1> DEFINE D == Node \ A
  <1>3. A \in SUBSET Node /\ \A n \in D : getParentNodes(n) \subseteq D
    OBVIOUS
  <1>4. PICK f : Solves(f, D)
    OBVIOUS
  <1>5. A = {}
    <2> SUFFICES ASSUME A # {} PROVE FALSE
      OBVIOUS
    <2>1. PICK m \in A : getParentNodes(m) \cap A = {}
      BY <1>3, FirstOfNodes
    <2>2. m \in Node /\ getParentNodes(m) \subseteq D
      BY <1>3, <2>1, ParentFacts
    <2> DEFINE E == Node \ (A \ {m})
               g == [n \in E |-> fateOf(f, n)]
    <2>3. E = D \cup {m} /\ m \notin D
      BY <1>3
    <2>4. ASSUME NEW n \in D PROVE f[n] = fateOf(f, n)
      <3> HIDE DEF D
      <3> QED BY <1>4
    <2>5. \A n \in D : g[n] = f[n]
      <3> HIDE DEF D, E
      <3> QED BY <2>3, <2>4
    <2>6. ASSUME NEW n \in E PROVE fateOf(g, n) = fateOf(f, n)
      <3>1. n \in Node /\ getParentNodes(n) \subseteq D
        <4> HIDE DEF D
        <4> QED BY <1>3, <2>2, <2>3
      <3>2. \A p \in getParentNodes(n) : g[p] = f[p]
        <4> HIDE DEF D, g
        <4> QED BY <2>5, <3>1
      <3> HIDE DEF g
      <3> QED BY <3>1, <3>2, FateDepends
    <2>7. Solves(g, E)
      <3>1. g = [n \in E |-> fateOf(f, n)]
        OBVIOUS
      <3> HIDE DEF E, g
      <3> QED BY <2>6, <3>1
    <2>8. A \ {m} \in P
      <3>1. \A n \in E : getParentNodes(n) \subseteq E
        <4> HIDE DEF D, E
        <4> QED BY <1>3, <2>2, <2>3
      <3>2. \E h : Solves(h, E)
        <4> HIDE DEF g, Solves
        <4> QED BY <2>7
      <3> HIDE DEF Solves
      <3> QED BY <1>3, <3>1, <3>2
    <2>9. A \ {m} = A
      <3> HIDE DEF P
      <3> QED BY <1>2, <2>8
    <2> QED BY <2>1, <2>9
  <1>6. \E h : h = [n \in Node |-> fateOf(h, n)]
    <2>1. D = Node
      BY <1>5
    <2> HIDE DEF D
    <2> QED BY <1>4, <2>1
  <1> DEFINE fate == CHOOSE h : h = [n \in Node |-> fateOf(h, n)]
  <1>7. fate = [n \in Node |-> fateOf(fate, n)]
    BY <1>6
  <1>8. dataflow = fate
    BY DEF dataflow
  <1> HIDE DEF fate
  <1> QED BY <1>7, <1>8

-----------------------------------------------------------------------------
(* Where nodes are *)

(* The inputs of node m for which data was sent. *)
arrived(m) ==
    {i \in 1 .. Len(workflow.inputs[m]) : \E c \in workflow.inputs[m][i] :
        /\ c[1] # workflow.destination
        /\ \E r \in Succeeded(c[1]) : c[2] \in runData[c[1]][r].outputs}

(* Data of node m for the inputs X; the start node has an item of its own. *)
Carries(m, X, data) ==
    /\ 1 \in DOMAIN data
    /\ IF m = 1 THEN data[1] # NoData ELSE withData(data) = X

(* Node m is on the stack nowhere, or once, with data for the inputs X. *)
StackOf(stack, m) == {k \in 1 .. Len(stack) : stack[k].node = m}

OnceWith(stack, m, X) ==
    \E k \in StackOf(stack, m) : StackOf(stack, m) = {k} /\ Carries(m, X, stack[k].data)

(* Node m is neither on the stack nor waiting, or is on the stack once, or *)
(* waits with one entry, which has data for the inputs X.                  *)
Nowhere(t, m) == StackOf(t.stack, m) = {} /\ DOMAIN entriesOf(t.waiting, m) = {}

InStack(t, m, X) == OnceWith(t.stack, m, X) /\ DOMAIN entriesOf(t.waiting, m) = {}

InWait(t, m, X) ==
    /\ StackOf(t.stack, m) = {}
    /\ DOMAIN entriesOf(t.waiting, m) = {0}
    /\ withData(entriesOf(t.waiting, m)[0]) = X

(* Where a node is that has been sent data for the inputs X. *)
Place(t, m, X) ==
    IF X = {} THEN Nowhere(t, m)
    ELSE IF X = 1 .. Len(workflow.inputs[m]) THEN InStack(t, m, X)
    ELSE InWait(t, m, X)

PlaceSame(s, t, m, X) ==
    /\ Nowhere(s, m) => Nowhere(t, m)
    /\ InStack(s, m, X) => InStack(t, m, X)
    /\ InWait(s, m, X) => InWait(t, m, X)

(* What an item on top of the stack changes. *)
LEMMA OnTopOnce ==
    ASSUME NEW u, NEW x, NEW t, OnTop(u, x, t), NEW m, NEW X
    PROVE  /\ StackOf(u, m) = {} <=> x.node # m /\ StackOf(t, m) = {}
           /\ OnceWith(u, m, X) <=>
                 \/ x.node = m /\ StackOf(t, m) = {} /\ Carries(m, X, x.data)
                 \/ x.node # m /\ OnceWith(t, m, X)
  <1>1. /\ Len(t) \in Nat /\ Len(u) = Len(t) + 1 /\ u[1] = x
        /\ \A k \in 1 .. Len(t) : u[k + 1] = t[k]
    BY DEF OnTop
  <1>2. \A k : k \in StackOf(u, m) <=> \/ k = 1 /\ x.node = m
                                       \/ k - 1 \in StackOf(t, m) /\ k \in 2 .. Len(t) + 1
    <2>1. \A k \in 1 .. Len(u) : k = 1 \/ (k - 1 \in 1 .. Len(t) /\ k \in 2 .. Len(t) + 1 /\ u[k] = t[k - 1])
      BY <1>1
    <2>2. \A k \in 2 .. Len(t) + 1 : k \in 1 .. Len(u) /\ k # 1
      BY <1>1
    <2>3. 1 \in 1 .. Len(u) /\ 1 \notin 2 .. Len(t) + 1
      BY <1>1
    <2> QED BY <1>1, <2>1, <2>2, <2>3 DEF StackOf
  <1>3. \A k \in StackOf(t, m) : /\ k \in Nat /\ k + 1 \in StackOf(u, m) /\ k + 1 # 1
                                 /\ u[k + 1] = t[k]
    <2>1. \A k \in 1 .. Len(t) : /\ k \in Nat /\ k + 1 \in 2 .. Len(t) + 1 /\ (k + 1) - 1 = k
                                 /\ k + 1 # 1
      BY <1>1
    <2> QED BY <1>1, <1>2, <2>1 DEF StackOf
  <1>4. StackOf(u, m) = {} <=> x.node # m /\ StackOf(t, m) = {}
    BY <1>2, <1>3
  <1>5. CASE x.node = m
    <2>1. 1 \in StackOf(u, m)
      BY <1>2, <1>5
    <2>2. ASSUME StackOf(t, m) = {} PROVE StackOf(u, m) = {1}
      BY <1>2, <2>1, <2>2
    <2>3. ASSUME OnceWith(u, m, X) PROVE StackOf(t, m) = {} /\ Carries(m, X, x.data)
      <3>1. PICK k \in StackOf(u, m) : StackOf(u, m) = {k} /\ Carries(m, X, u[k].data)
        BY <2>3 DEF OnceWith
      <3>2. k = 1
        BY <2>1, <3>1
      <3>3. StackOf(t, m) = {}
        BY <1>3, <3>1, <3>2
      <3> QED BY <1>1, <3>1, <3>2, <3>3
    <2> QED BY <1>1, <1>4, <1>5, <2>1, <2>2, <2>3 DEF OnceWith
  <1>6. CASE x.node # m
    <2>1. ASSUME NEW k, StackOf(t, m) = {k} PROVE StackOf(u, m) = {k + 1} /\ u[k + 1] = t[k]
      <3>1. k \in Nat /\ k + 1 \in StackOf(u, m) /\ u[k + 1] = t[k]
        BY <1>3, <2>1
      <3>2. ASSUME NEW l \in StackOf(u, m) PROVE l = k + 1
        <4>1. l - 1 = k /\ l \in 2 .. Len(t) + 1
          BY <1>2, <1>6, <2>1
        <4> QED BY <1>1, <4>1
      <3> QED BY <3>1, <3>2
    <2>2. ASSUME NEW k, StackOf(u, m) = {k}
          PROVE  \E l \in StackOf(t, m) : StackOf(t, m) = {l} /\ t[l] = u[k]
      <3>1. k - 1 \in StackOf(t, m)
        BY <1>2, <1>6, <2>2
      <3>2. (k - 1) + 1 \in StackOf(u, m) /\ u[(k - 1) + 1] = t[k - 1]
        BY <1>3, <3>1
      <3>3. (k - 1) + 1 = k
        BY <2>2, <3>2
      <3>4. ASSUME NEW l \in StackOf(t, m) PROVE l = k - 1
        <4>1. l \in Nat /\ l + 1 = k
          BY <1>3, <2>2
        <4> QED BY <4>1
      <3>5. StackOf(t, m) = {k - 1} /\ t[k - 1] = u[k]
        BY <3>1, <3>2, <3>3, <3>4
      <3> QED BY <3>1, <3>5
    <2>3. OnceWith(t, m, X) => OnceWith(u, m, X)
      BY <2>1 DEF OnceWith
    <2>4. OnceWith(u, m, X) => OnceWith(t, m, X)
      BY <2>2 DEF OnceWith
    <2> QED BY <1>4, <1>6, <2>3, <2>4
  <1> QED BY <1>4, <1>5, <1>6

(* The entry of a node that waits gets one more input. *)
LEMMA FilledWith ==
    ASSUME workflow \in Workflow, NEW s \in State, NEW c \in Connection, NEW data \in Data,
           NEW Y, c.input \notin Y,
           LET e == entriesOf(s.waiting, c.node)
           IN  \/ Y = {} /\ DOMAIN e = {}
               \/ DOMAIN e = {0} /\ withData(e[0]) = Y
    PROVE  /\ index(s, c) = 0
           /\ withData(filled(s, c, data)) = Y \cup {c.input}
           /\ DOMAIN filled(s, c, data) = 1 .. Len(workflow.inputs[c.node])
           /\ DOMAIN entriesOf(s.waiting, c.node) \subseteq {0}
  <1> DEFINE e == entriesOf(s.waiting, c.node)
             L == Len(workflow.inputs[c.node])
             f == filled(s, c, data)
  <1>1. /\ EntriesOK(c.node, e) /\ c.input \in 1 .. L /\ f[c.input] = data
        /\ lacking(s, c) # {} => index(s, c) \in lacking(s, c)
    BY IndexFacts
  <1>2. data # NoData
    BY EngineAssumption DEF Data
  <1>3. /\ DOMAIN f = 1 .. L
        /\ \A i \in 1 .. L : i # c.input =>
              f[i] = IF lacking(s, c) # {} THEN e[index(s, c)][i] ELSE NoData
    BY DEF filled
  <1>4. CASE Y = {} /\ DOMAIN e = {}
    <2>1. lacking(s, c) = {}
      BY <1>4 DEF lacking
    <2>2. index(s, c) = 0
      BY <1>4, <2>1, FS_EmptySet DEF index
    <2>3. \A i \in 1 .. L : f[i] # NoData <=> i = c.input
      BY <1>1, <1>2, <1>3, <2>1
    <2> HIDE DEF f, e
    <2>4. withData(f) = {c.input}
      BY <1>1, <1>3, <2>3 DEF withData
    <2> QED BY <1>3, <1>4, <2>2, <2>4 DEF f, e
  <1>5. CASE DOMAIN e = {0} /\ withData(e[0]) = Y
    <2>1. e[0] \in Partial(c.node)
      BY <1>1, <1>5 DEF EntriesOK
    <2>2. DOMAIN e[0] = 1 .. L
      <3> HIDE DEF e
      <3> QED BY <2>1 DEF Partial
    <2>3. \A i \in 1 .. L : i \in Y <=> e[0][i] # NoData
      BY <1>5, <2>2 DEF withData
    <2>4. lacking(s, c) = {0}
      BY <1>1, <1>5, <2>3 DEF lacking
    <2>5. index(s, c) = 0
      BY <1>1, <2>4
    <2>6. \A i \in 1 .. L : f[i] # NoData <=> i \in Y \cup {c.input}
      <3> HIDE DEF f, e
      <3> QED BY <1>1, <1>2, <1>3, <2>3, <2>4, <2>5
    <2>7. Y \subseteq 1 .. L
      <3> HIDE DEF e
      <3> QED BY <1>5, <2>2 DEF withData
    <2> HIDE DEF f, e
    <2>8. withData(f) = Y \cup {c.input}
      BY <1>1, <1>3, <2>6, <2>7 DEF withData
    <2> QED BY <1>3, <1>5, <2>5, <2>8 DEF f, e
  <1> QED BY <1>4, <1>5

(* Items pushed for other nodes, and entries of other nodes, change no     *)
(* place of a node.                                                        *)
LEMMA OtherPlace ==
    ASSUME NEW s, NEW t, NEW m, NEW X,
           entriesOf(t.waiting, m) = entriesOf(s.waiting, m),
           \/ t.stack = s.stack
           \/ \E x : x.node # m /\ OnTop(t.stack, x, s.stack)
    PROVE  PlaceSame(s, t, m, X)
  <1>1. /\ StackOf(s.stack, m) = {} => StackOf(t.stack, m) = {}
        /\ OnceWith(s.stack, m, X) => OnceWith(t.stack, m, X)
    <2>1. CASE t.stack = s.stack
      BY <2>1
    <2>2. CASE \E x : x.node # m /\ OnTop(t.stack, x, s.stack)
      BY <2>2, OnTopOnce
    <2> QED BY <2>1, <2>2
  <1> QED BY <1>1 DEF PlaceSame, Nowhere, InStack, InWait

(***************************************************************************)
(* A datum for an input that had none: the node that it is for gets it, on *)
(* the stack with all its inputs or waiting with those it has, and no      *)
(* other node moves.                                                       *)
(***************************************************************************)
LEMMA AddPlaces ==
    ASSUME workflow \in Workflow, NEW s \in State, NEW c \in Connection, NEW data \in Data,
           c.node # 1, NEW Y, Y \subseteq 1 .. Len(workflow.inputs[c.node]), c.input \notin Y,
           Place(s, c.node, Y)
    PROVE  LET t == addNodeToBeExecuted(s, c, data)
           IN  /\ Place(t, c.node, Y \cup {c.input})
               /\ \A m \in Node \ {c.node} : \A X : PlaceSame(s, t, m, X)
  <1> PICK n : n = c.node
    OBVIOUS
  <1> PICK L : L = Len(workflow.inputs[n])
    OBVIOUS
  <1> PICK e : e = entriesOf(s.waiting, n)
    OBVIOUS
  <1> PICK f : f = filled(s, c, data)
    OBVIOUS
  <1> PICK t : t = addNodeToBeExecuted(s, c, data)
    OBVIOUS
  <1> PICK Z : Z = Y \cup {c.input}
    OBVIOUS
  <1>1. /\ s.stack \in Seq(Item) /\ s.waiting \in Waiting /\ n \in Node /\ L \in Nat /\ n # 1
        /\ EntriesOK(n, e) /\ c.input \in 1 .. L /\ f \in [1 .. L -> Datum]
    BY IndexFacts, WorkflowFacts
  <1>2. Y # 1 .. L /\ Z # {} /\ Z \subseteq 1 .. L
    BY <1>1
  <1>3. StackOf(s.stack, n) = {}
    BY <1>2 DEF Place, Nowhere, InWait
  <1>4. (Y = {} /\ DOMAIN e = {}) \/ (DOMAIN e = {0} /\ withData(e[0]) = Y)
    BY <1>2 DEF Place, Nowhere, InWait
  <1>5. /\ index(s, c) = 0 /\ withData(f) = Z /\ DOMAIN f = 1 .. L /\ DOMAIN e \subseteq {0}
    BY <1>4, FilledWith
  <1>w. ASSUME L > 1, NEW g, EntriesOK(n, g), DOMAIN g # {} \/ DOMAIN e # {},
               t.waiting = withEntries(s.waiting, n, g)
        PROVE  /\ DOMAIN g # {} => entriesOf(t.waiting, n) = g
               /\ DOMAIN g = {} => DOMAIN entriesOf(t.waiting, n) = {}
               /\ \A m \in Node \ {n} : entriesOf(t.waiting, m) = entriesOf(s.waiting, m)
    BY <1>1, <1>w, WithEntriesFacts
  <1>p. ASSUME NEW d \in [1 .. L -> Datum], t.stack = <<[node |-> n, data |-> d]>> \o s.stack,
               withData(d) = Z, DOMAIN entriesOf(t.waiting, n) = {},
               \A m \in Node \ {n} : entriesOf(t.waiting, m) = entriesOf(s.waiting, m),
               Z = 1 .. L
        PROVE  Place(t, n, Z) /\ \A m \in Node \ {n} : \A X : PlaceSame(s, t, m, X)
    <2> PICK x : x = [node |-> n, data |-> d]
      OBVIOUS
    <2>1. x.node = n /\ x.data = d /\ x \in Item
      BY <1>1, PushType
    <2>2. OnTop(t.stack, x, s.stack)
      BY <1>1, <1>p, <2>1, PushIsOnTop
    <2>3. OnceWith(t.stack, n, Z)
      <3>1. 1 \in DOMAIN d
        BY <1>1
      <3>2. Carries(n, Z, x.data)
        BY <1>1, <1>p, <2>1, <3>1 DEF Carries
      <3> QED BY <1>3, <2>1, <2>2, <3>2, OnTopOnce
    <2>4. Place(t, n, Z)
      BY <1>2, <1>p, <2>3 DEF Place, InStack
    <2>5. ASSUME NEW m \in Node \ {n}, NEW X PROVE PlaceSame(s, t, m, X)
      BY <1>p, <2>1, <2>2, OtherPlace
    <2> QED BY <2>4, <2>5
  <1>6. CASE /\ L = 1
             /\ t.stack = <<[node |-> n, data |-> <<data>>]>> \o s.stack
             /\ t.waiting = s.waiting
    <2> PICK d : d = <<data>>
      OBVIOUS
    <2>1. Y = {} /\ Z = {1} /\ Z = 1 .. L
      <3>1. 1 .. L = {1} /\ Y \subseteq 1 .. L /\ c.input = 1
        BY <1>1, <1>6
      <3> QED BY <3>1
    <2>2. data # NoData
      BY EngineAssumption DEF Data
    <2>3. d \in [1 .. L -> Datum] /\ withData(d) = Z
      <3>1. DOMAIN d = {1} /\ d[1] = data
        OBVIOUS
      <3>2. withData(d) = {1}
        BY <2>2, <3>1 DEF withData
      <3>3. d \in [1 .. 1 -> Datum]
        BY DEF Datum
      <3> QED BY <1>6, <2>1, <3>2, <3>3
    <2>4. Nowhere(s, n)
      BY <2>1 DEF Place
    <2>5. t.stack = <<[node |-> n, data |-> d]>> \o s.stack /\ t.waiting = s.waiting
      BY <1>6
    <2> QED BY <1>p, <2>1, <2>3, <2>4, <2>5 DEF Nowhere
  <1>7. CASE /\ L > 1
             /\ \A i \in 1 .. L : f[i] # NoData
             /\ lacking(s, c) # {}
             /\ t.stack = <<[node |-> n, data |-> f]>> \o s.stack
             /\ t.waiting = withEntries(s.waiting, n, without(e, index(s, c)))
    <2> PICK g : g = without(e, 0)
      OBVIOUS
    <2>1. DOMAIN e # {}
      BY <1>7 DEF lacking
    <2>2. EntriesOK(n, g) /\ DOMAIN g = {}
      <3>1. EntriesOK(n, g) /\ DOMAIN g = (DOMAIN e) \ {0}
        <4> PICK r : r = 0
          OBVIOUS
        <4>1. EntriesOK(n, e) /\ g = without(e, r)
          BY <1>1
        <4>2. EntriesOK(n, without(e, r)) /\ DOMAIN without(e, r) = (DOMAIN e) \ {r}
          BY <4>1, WithoutOK, ZenonT(60)
        <4> QED BY <4>1, <4>2
      <3>2. (DOMAIN e) \ {0} = {}
        BY <1>5
      <3> QED BY <3>1, <3>2
    <2>3. t.waiting = withEntries(s.waiting, n, g)
      BY <1>5, <1>7
    <2>4. /\ DOMAIN entriesOf(t.waiting, n) = {}
          /\ \A m \in Node \ {n} : entriesOf(t.waiting, m) = entriesOf(s.waiting, m)
      BY <1>7, <1>w, <2>1, <2>2, <2>3
    <2>5. Z = 1 .. L
      BY <1>5, <1>7 DEF withData
    <2>6. t.stack = <<[node |-> n, data |-> f]>> \o s.stack
      BY <1>7
    <2> QED BY <1>1, <1>5, <1>p, <2>4, <2>5, <2>6
  <1>8. CASE /\ L > 1
             /\ Incomplete(s, c, data)
             /\ t.stack = s.stack
             /\ t.waiting = withEntries(s.waiting, n, entriesWith(s, c, data))
    <2> PICK g : g = entriesWith(s, c, data)
      OBVIOUS
    <2>1. EntriesOK(n, g) /\ DOMAIN g = {0} /\ g[0] = f
      <3>1. /\ EntriesOK(c.node, g)
            /\ DOMAIN g = (DOMAIN entriesOf(s.waiting, c.node)) \cup {index(s, c)}
            /\ g[index(s, c)] = f
        BY <1>8, EntriesWithOK
      <3> QED BY <1>5, <3>1
    <2>2. /\ entriesOf(t.waiting, n) = g
          /\ \A m \in Node \ {n} : entriesOf(t.waiting, m) = entriesOf(s.waiting, m)
      BY <1>8, <1>w, <2>1
    <2>3. Z # 1 .. L
      <3>1. PICK i \in 1 .. L : f[i] = NoData
        BY <1>8 DEF Incomplete
      <3>2. i \notin Z
        BY <1>5, <3>1 DEF withData
      <3> QED BY <3>1, <3>2
    <2>4. Place(t, n, Z)
      BY <1>2, <1>3, <1>5, <1>8, <2>1, <2>2, <2>3 DEF Place, InWait
    <2>5. \A m \in Node \ {n} : \A X : PlaceSame(s, t, m, X)
      BY <1>8, <2>2, OtherPlace
    <2> QED BY <2>4, <2>5
  <1>9. \/ /\ L = 1
           /\ t.stack = <<[node |-> n, data |-> <<data>>]>> \o s.stack
           /\ t.waiting = s.waiting
        \/ /\ L > 1
           /\ \A i \in 1 .. L : f[i] # NoData
           /\ lacking(s, c) # {}
           /\ t.stack = <<[node |-> n, data |-> f]>> \o s.stack
           /\ t.waiting = withEntries(s.waiting, n, without(e, index(s, c)))
        \/ /\ L > 1
           /\ Incomplete(s, c, data)
           /\ t.stack = s.stack
           /\ t.waiting = withEntries(s.waiting, n, entriesWith(s, c, data))
    BY AddCases
  <1> QED BY <1>6, <1>7, <1>8, <1>9

(* The inputs of node m that connections lead to. *)
Into(cs, m) == {c.input : c \in {c \in cs : c.node = m}}

(* The nodes that connections lead to are where a node is that was sent    *)
(* data for the inputs X, and these connections are for further inputs.    *)
MayAdd(s, X, C) ==
    /\ \A m \in Node : X[m] \subseteq 1 .. Len(workflow.inputs[m])
    /\ \A c \in C : c.node # 1 /\ c.input \notin X[c.node] /\ Place(s, c.node, X[c.node])

(* Then they are where a node is that was sent data for these inputs too,  *)
(* and all other nodes stay where they are.                                *)
Added(s, t, X, C) ==
    \A m \in Node : IF \E c \in C : c.node = m THEN Place(t, m, X[m] \cup Into(C, m))
                    ELSE PlaceSame(s, t, m, X[m])

(***************************************************************************)
(* The data of a run: X[m] is what node m was sent before.                 *)
(***************************************************************************)
LEMMA AddNodesPlaces ==
    ASSUME workflow \in Workflow, oneSourcePerInput, NEW n \in Node, NEW R \in Nat,
           NEW outputs \in SUBSET Output, NEW s \in State, NEW X, NEW C,
           C = {c \in connectionsBySourceNode(n) : c.output \in outputs}, MayAdd(s, X, C)
    PROVE  /\ addNodes(s, n, R, outputs) \in State
           /\ Added(s, addNodes(s, n, R, outputs), X, C)
  <1> DEFINE Target(m) == \E c \in C : c.node = m
             Right(A, t) == \A m \in Node : IF Target(m) THEN Place(t, m, X[m] \cup Into(A, m))
                                            ELSE PlaceSame(s, t, m, X[m])
             Good == [A \in SUBSET C |-> {t \in State : Right(A, t)}]
  <1>m. /\ \A m \in Node : X[m] \subseteq 1 .. Len(workflow.inputs[m])
        /\ \A c \in C : c.node # 1 /\ c.input \notin X[c.node] /\ Place(s, c.node, X[c.node])
    BY DEF MayAdd
  <1>c. ASSUME NEW c \in C
        PROVE  /\ c \in Connection /\ c.node \in Node /\ c.output \in Output
               /\ c.input \in 1 .. Len(workflow.inputs[c.node])
               /\ <<n, c.output>> \in workflow.inputs[c.node][c.input]
               /\ <<n, R, c.output>> \in Data
               /\ c = [output |-> c.output, node |-> c.node, input |-> c.input]
    <2>1. /\ c \in Connection /\ <<n, c.output>> \in workflow.inputs[c.node][c.input]
          /\ c = [output |-> c.output, node |-> c.node, input |-> c.input]
      BY DEF connectionsBySourceNode, Connection
    <2>2. c.node \in Node /\ c.output \in Output
      BY <2>1 DEF Connection
    <2>3. c.input \in 1 .. Len(workflow.inputs[c.node])
      BY <2>1, <2>2, WorkflowFacts DEF Connection
    <2> QED BY <2>1, <2>2, <2>3 DEF Data
  <1>1. Right({}, s)
    <2> SUFFICES ASSUME NEW m \in Node
                 PROVE  IF Target(m) THEN Place(s, m, X[m] \cup Into({}, m))
                        ELSE PlaceSame(s, s, m, X[m])
      OBVIOUS
    <2>1. X[m] \cup Into({}, m) = X[m]
      BY DEF Into
    <2>2. PlaceSame(s, s, m, X[m])
      BY DEF PlaceSame
    <2>3. Target(m) => Place(s, m, X[m])
      BY <1>m
    <2> QED BY <2>1, <2>2, <2>3
  <1>2. ASSUME NEW A \in SUBSET C, NEW c \in C \ A, NEW t \in State, Right(A, t)
        PROVE  LET u == addNodeToBeExecuted(t, c, <<n, R, c.output>>)
               IN  u \in State /\ Right(A \cup {c}, u)
    <2> PICK data : data = <<n, R, c.output>>
      OBVIOUS
    <2> PICK u : u = addNodeToBeExecuted(t, c, data)
      OBVIOUS
    <2> PICK Y : Y = X[c.node] \cup Into(A, c.node)
      OBVIOUS
    <2>1. /\ c \in C /\ c \in Connection /\ c.node \in Node /\ c.node # 1 /\ data \in Data
          /\ c.input \in 1 .. Len(workflow.inputs[c.node])
      BY <1>c, <1>m
    <2>2. u \in State
      BY <2>1, AddType
    <2>3. Y \subseteq 1 .. Len(workflow.inputs[c.node])
      <3>1. \A a \in A : a.node = c.node => a.input \in 1 .. Len(workflow.inputs[c.node])
        BY <1>c
      <3> QED BY <1>m, <2>1, <3>1 DEF Into
    <2>4. c.input \notin Y
      <3>1. ASSUME NEW a \in A, a.node = c.node, a.input = c.input PROVE FALSE
        <4>1. /\ <<n, a.output>> \in workflow.inputs[c.node][c.input]
              /\ <<n, c.output>> \in workflow.inputs[c.node][c.input]
              /\ c.input \in DOMAIN workflow.inputs[c.node]
          BY <1>c, <2>1, <3>1, WorkflowFacts
        <4>2. <<n, a.output>> = <<n, c.output>>
          BY <2>1, <4>1 DEF oneSourcePerInput
        <4>3. a.output = c.output
          BY <4>2
        <4>4. a = c
          BY <1>c, <3>1, <4>3
        <4> QED BY <4>4
      <3>2. c.input \notin Into(A, c.node)
        BY <3>1 DEF Into
      <3> QED BY <1>m, <2>1, <3>2
    <2>5. Place(t, c.node, Y)
      BY <1>2, <2>1
    <2>6. /\ Place(u, c.node, Y \cup {c.input})
          /\ \A m \in Node \ {c.node} : \A Z : PlaceSame(t, u, m, Z)
      BY <2>1, <2>3, <2>4, <2>5, AddPlaces
    <2>7. ASSUME NEW m \in Node
          PROVE  IF Target(m) THEN Place(u, m, X[m] \cup Into(A \cup {c}, m))
                 ELSE PlaceSame(s, u, m, X[m])
      <3>1. CASE m = c.node
        <4>1. X[m] \cup Into(A \cup {c}, m) = Y \cup {c.input}
          BY <3>1 DEF Into
        <4>2. Target(m)
          BY <2>1, <3>1
        <4> QED BY <2>6, <3>1, <4>1, <4>2
      <3>2. CASE m # c.node
        <4>1. Into(A \cup {c}, m) = Into(A, m)
          BY <3>2 DEF Into
        <4>2. \A Z : PlaceSame(t, u, m, Z)
          BY <2>6, <3>2
        <4>3. CASE Target(m)
          <5> PICK Z : Z = X[m] \cup Into(A, m)
            OBVIOUS
          <5>1. Place(t, m, Z) /\ PlaceSame(t, u, m, Z)
            BY <1>2, <4>2, <4>3
          <5>2. Place(u, m, Z)
            BY <5>1 DEF Place, PlaceSame
          <5> QED BY <4>1, <4>3, <5>2
        <4>4. CASE ~Target(m)
          <5>1. PlaceSame(s, t, m, X[m]) /\ PlaceSame(t, u, m, X[m])
            BY <1>2, <4>2, <4>4
          <5>2. PlaceSame(s, u, m, X[m])
            BY <5>1 DEF PlaceSame
          <5> QED BY <4>4, <5>2
        <4> QED BY <4>3, <4>4
      <3> QED BY <3>1, <3>2
    <2>8. Right(A \cup {c}, u)
      <3> HIDE DEF Target
      <3> QED BY <2>7
    <2> HIDE DEF Right
    <2> QED BY <2>2, <2>8
  <1> HIDE DEF Right
  <1>3. \A A \in SUBSET C : Good[A] = {t \in State : Right(A, t)}
    OBVIOUS
  <1> HIDE DEF Good
  <1>4. s \in Good[{}]
    BY <1>1, <1>3
  <1>5. \A A \in SUBSET C : \A c \in C \ A : \A t \in Good[A] :
           addNodeToBeExecuted(t, c, <<n, R, c.output>>) \in Good[A \cup {c}]
    BY <1>2, <1>3
  <1>6. addNodes(s, n, R, outputs) \in Good[C]
    BY <1>4, <1>5, AddNodesReaches
  <1>7. addNodes(s, n, R, outputs) \in State /\ Right(C, addNodes(s, n, R, outputs))
    BY <1>3, <1>6
  <1> QED BY <1>7 DEF Right, Added

(***************************************************************************)
(* The check for waiting nodes: it leaves all as it is, since the stack is *)
(* not empty or no node may be executed, or it puts one node that may be   *)
(* executed on the stack, with the data that it waits with.                *)
(***************************************************************************)
LEMMA NextWaitingPlaces ==
    ASSUME workflow \in Workflow, NEW t \in State
    PROVE  LET u == nextWaiting(t)
           IN  /\ u \in State
               /\ \/ /\ u = t
                     /\ t.stack # <<>> \/ \A k \in 1 .. Len(t.waiting) : ~mayExecute(t, k)
                  \/ \E k \in 1 .. Len(t.waiting) :
                        /\ mayExecute(t, k)
                        /\ t.stack = <<>> /\ u.stack # <<>>
                        /\ \A m \in Node \ {t.waiting[k].node} : \A X : PlaceSame(t, u, m, X)
                        /\ \A X : InWait(t, t.waiting[k].node, X) /\ t.waiting[k].node # 1 =>
                              /\ InStack(u, t.waiting[k].node, X)
                              /\ workflow.required[t.waiting[k].node] \subseteq X
                              /\ getParentNodes(t.waiting[k].node) \cap waitingNodes(t) = {}
  <1> PICK u : u = nextWaiting(t)
    OBVIOUS
  <1>1. u \in State
    BY NextWaitingType
  <1>2. CASE u = t /\ (t.stack # <<>> \/ \A k \in 1 .. Len(t.waiting) : ~mayExecute(t, k))
    BY <1>1, <1>2
  <1>3. ASSUME t.stack = <<>>, NEW k \in 1 .. Len(t.waiting), NEW r \in DOMAIN t.waiting[k].entries,
               mayExecute(t, k), r = firstEntry(t, k),
               u.stack = <<[node |-> t.waiting[k].node, data |-> t.waiting[k].entries[r]]>>,
               u.waiting = withEntries(t.waiting, t.waiting[k].node, without(t.waiting[k].entries, r))
        PROVE  \E l \in 1 .. Len(t.waiting) :
                  /\ mayExecute(t, l)
                  /\ t.stack = <<>> /\ u.stack # <<>>
                  /\ \A m \in Node \ {t.waiting[l].node} : \A X : PlaceSame(t, u, m, X)
                  /\ \A X : InWait(t, t.waiting[l].node, X) /\ t.waiting[l].node # 1 =>
                        /\ InStack(u, t.waiting[l].node, X)
                        /\ workflow.required[t.waiting[l].node] \subseteq X
                        /\ getParentNodes(t.waiting[l].node) \cap waitingNodes(t) = {}
    <2> PICK n : n = t.waiting[k].node
      OBVIOUS
    <2> PICK e : e = t.waiting[k].entries
      OBVIOUS
    <2> PICK g : g = without(e, r)
      OBVIOUS
    <2> PICK x : x = [node |-> n, data |-> e[r]]
      OBVIOUS
    <2>1. t.waiting \in Waiting /\ t.waiting[k] \in Waiter
      BY ElementOfSeq DEF State, Waiting
    <2>2. n \in Node /\ EntriesOK(n, e) /\ Len(workflow.inputs[n]) > 1
      BY <2>1, WaiterFacts
    <2>3. entriesOf(t.waiting, n) = e
      BY <2>1, <2>2, EntriesFacts
    <2>4. EntriesOK(n, g) /\ DOMAIN g = (DOMAIN e) \ {r} /\ r \in DOMAIN e
      BY <2>2, WithoutOK
    <2>5. u.waiting = withEntries(t.waiting, n, g) /\ DOMAIN entriesOf(t.waiting, n) # {}
      BY <1>3, <2>3, <2>4
    <2>6. /\ u.waiting \in Waiting
          /\ DOMAIN g = {} => DOMAIN entriesOf(u.waiting, n) = {}
          /\ \A m \in Node \ {n} : entriesOf(u.waiting, m) = entriesOf(t.waiting, m)
      <3> PICK w : w = t.waiting
        OBVIOUS
      <3>1. /\ w \in Waiting /\ n \in Node /\ EntriesOK(n, g) /\ Len(workflow.inputs[n]) > 1
            /\ DOMAIN entriesOf(w, n) # {} /\ u.waiting = withEntries(w, n, g)
        BY <2>1, <2>2, <2>4, <2>5
      <3>2. /\ withEntries(w, n, g) \in Waiting
            /\ DOMAIN g = {} => DOMAIN entriesOf(withEntries(w, n, g), n) = {}
            /\ \A m \in Node \ {n} : entriesOf(withEntries(w, n, g), m) = entriesOf(w, m)
        BY <3>1, WithEntriesFacts
      <3> QED BY <3>1, <3>2
    <2>7. x.node = n /\ x.data = e[r] /\ u.stack = <<x>>
      BY <1>3
    <2>8. OnTop(u.stack, x, t.stack) /\ u.stack # <<>>
      <3>1. Len(<<>>) = 0 /\ Len(<<x>>) = 1 /\ <<x>>[1] = x
        OBVIOUS
      <3> QED BY <1>3, <2>7, <3>1 DEF OnTop
    <2>9. \A m \in Node \ {n} : \A X : PlaceSame(t, u, m, X)
      BY <2>6, <2>7, <2>8, OtherPlace
    <2>10. workflow.required[n] \subseteq withData(e[r]) /\ getParentNodes(n) \cap waitingNodes(t) = {}
      BY <1>3 DEF mayExecute
    <2>11. ASSUME NEW X, InWait(t, n, X), n # 1
           PROVE  InStack(u, n, X) /\ workflow.required[n] \subseteq X
      <3>1. DOMAIN e = {0} /\ withData(e[0]) = X /\ StackOf(t.stack, n) = {}
        BY <2>3, <2>11 DEF InWait
      <3>2. r = 0 /\ DOMAIN g = {}
        BY <2>4, <3>1
      <3>3. 1 \in DOMAIN e[r]
        <4>1. e[r] \in Partial(n) /\ Len(workflow.inputs[n]) \in Nat
          BY <2>2, <2>4, WorkflowFacts DEF EntriesOK
        <4>2. DOMAIN e[r] = 1 .. Len(workflow.inputs[n])
          BY <4>1 DEF Partial
        <4> QED BY <2>2, <4>1, <4>2
      <3>4. Carries(n, X, x.data)
        BY <2>7, <2>11, <3>1, <3>2, <3>3 DEF Carries
      <3>5. OnceWith(u.stack, n, X)
        BY <2>7, <2>8, <3>1, <3>4, OnTopOnce
      <3> QED BY <2>6, <2>10, <3>1, <3>2, <3>5 DEF InStack
    <2> WITNESS k \in 1 .. Len(t.waiting)
    <2>12. /\ mayExecute(t, k) /\ t.stack = <<>> /\ u.stack # <<>>
           /\ \A m \in Node \ {t.waiting[k].node} : \A X : PlaceSame(t, u, m, X)
      BY <1>3, <2>8, <2>9
    <2>13. \A X : InWait(t, t.waiting[k].node, X) /\ t.waiting[k].node # 1 =>
              /\ InStack(u, t.waiting[k].node, X)
              /\ workflow.required[t.waiting[k].node] \subseteq X
              /\ getParentNodes(t.waiting[k].node) \cap waitingNodes(t) = {}
      BY <2>10, <2>11
    <2> QED BY <2>12, <2>13, Zenon
  <1>4. \/ u = t /\ (t.stack # <<>> \/ \A k \in 1 .. Len(t.waiting) : ~mayExecute(t, k))
        \/ /\ t.stack = <<>>
           /\ \E k \in 1 .. Len(t.waiting) : \E r \in DOMAIN t.waiting[k].entries :
                 /\ mayExecute(t, k) /\ r = firstEntry(t, k)
                 /\ u.stack = <<[node |-> t.waiting[k].node, data |-> t.waiting[k].entries[r]]>>
                 /\ u.waiting = withEntries(t.waiting, t.waiting[k].node,
                                            without(t.waiting[k].entries, r))
    BY NextWaitingCases
  <1> QED BY <1>1, <1>2, <1>3, <1>4

-----------------------------------------------------------------------------
(* The course of a node *)

(* No node that leads to m will ever have more data, and m needs none. *)
Closed(t, x, m, X) ==
    /\ workflow.required[m] \subseteq X
    /\ \A p \in getParentNodes(m) : Nowhere(t, p) /\ x.node # p

(* Node m is to be executed with data for the inputs X. *)
Given(t, x, m, X) ==
    m = 1 \/ (X # {} /\ (X = 1 .. Len(workflow.inputs[m]) \/ Closed(t, x, m, X)))

(* It has been, by the only one of its runs R that succeeded. *)
Ran(S, R, m, X) ==
    \E r \in S : /\ S = {r}
                 /\ Carries(m, X, R[r].data)
                 /\ m # workflow.destination => R[r].outputs = emitted(m, X)

(***************************************************************************)
(* What becomes of node m, which was sent data for the inputs X: nothing   *)
(* yet, or it waits, or it has been given that data and is on the stack,   *)
(* in execution, executed, or has consumed it without a record.            *)
(***************************************************************************)
Unsent(t, x, S, m, X) == m # 1 /\ X = {} /\ Nowhere(t, m) /\ x.node # m /\ S = {}

Waits(t, x, S, m, X) == m # 1 /\ X # {} /\ InWait(t, m, X) /\ x.node # m /\ S = {}

Queued(t, x, S, m, X) == InStack(t, m, X) /\ x.node # m /\ S = {}

Running(t, x, S, m, X) == Nowhere(t, m) /\ x.node = m /\ Carries(m, X, x.data) /\ S = {}

HasRun(t, x, S, R, m, X) == Nowhere(t, m) /\ x.node # m /\ Ran(S, R, m, X) /\ ~consumes(m)

Consumed(t, x, S, m) == Nowhere(t, m) /\ x.node # m /\ S = {} /\ consumes(m)

Course(t, x, S, R, m, X) ==
    \/ Unsent(t, x, S, m, X)
    \/ Waits(t, x, S, m, X)
    \/ /\ Given(t, x, m, X)
       /\ \/ Queued(t, x, S, m, X)
          \/ Running(t, x, S, m, X)
          \/ HasRun(t, x, S, R, m, X)
          \/ Consumed(t, x, S, m)

(* A node taken from the stack is executed, or skipped as consumed. *)
LEMMA CourseTaken ==
    ASSUME NEW s, NEW t, NEW h, OnTop(s.stack, h, t.stack), t.waiting = s.waiting,
           NEW x, x.node = NoNode, NEW y, y = h \/ (y.node = NoNode /\ h.node \notin runNodeFilter),
           workflow \in Workflow,
           NEW m \in Node, NEW X, NEW S, NEW R, Course(s, x, S, R, m, X)
    PROVE  Course(t, y, S, R, m, X)
  <1>1. NoNode \notin Node
    BY EngineAssumption
  <1>2. ASSUME NEW p \in Node
        PROVE  /\ Nowhere(s, p) => Nowhere(t, p) /\ h.node # p /\ y.node # p
               /\ \A Z : InWait(s, p, Z) => InWait(t, p, Z) /\ h.node # p /\ y.node # p
               /\ \A Z : InStack(s, p, Z) =>
                     \/ h.node = p /\ Nowhere(t, p) /\ Carries(p, Z, h.data)
                     \/ h.node # p /\ y.node # p /\ InStack(t, p, Z)
    <2>1. h.node # p => y.node # p
      BY <1>1
    <2>2. StackOf(s.stack, p) = {} <=> h.node # p /\ StackOf(t.stack, p) = {}
      BY OnTopOnce
    <2>3. \A Z : OnceWith(s.stack, p, Z) =>
             \/ h.node = p /\ StackOf(t.stack, p) = {} /\ Carries(p, Z, h.data)
             \/ h.node # p /\ OnceWith(t.stack, p, Z)
      BY OnTopOnce
    <2> QED BY <2>1, <2>2, <2>3 DEF Nowhere, InWait, InStack
  <1>3. Given(s, x, m, X) => Given(t, y, m, X)
    <2>1. getParentNodes(m) \subseteq Node
      BY ParentFacts
    <2> QED BY <1>2, <2>1 DEF Given, Closed
  <1>4. CASE Unsent(s, x, S, m, X)
    BY <1>2, <1>4 DEF Unsent, Course
  <1>5. CASE Waits(s, x, S, m, X)
    BY <1>2, <1>5 DEF Waits, Course
  <1>6. CASE Given(s, x, m, X) /\ Queued(s, x, S, m, X)
    <2>1. \/ h.node = m /\ Nowhere(t, m) /\ Carries(m, X, h.data)
          \/ y.node # m /\ InStack(t, m, X)
      BY <1>2, <1>6 DEF Queued
    <2>2. h.node = m /\ Nowhere(t, m) /\ Carries(m, X, h.data) =>
             Running(t, y, S, m, X) \/ Consumed(t, y, S, m)
      BY <1>1, <1>6 DEF Queued, Running, Consumed, consumes
    <2> QED BY <1>3, <1>6, <2>1, <2>2 DEF Queued, Course
  <1>7. CASE Running(s, x, S, m, X)
    BY <1>1, <1>7 DEF Running
  <1>8. CASE Given(s, x, m, X) /\ HasRun(s, x, S, R, m, X)
    BY <1>2, <1>3, <1>8 DEF HasRun, Course
  <1>9. CASE Given(s, x, m, X) /\ Consumed(s, x, S, m)
    BY <1>2, <1>3, <1>9 DEF Consumed, Course
  <1> QED BY <1>4, <1>5, <1>6, <1>7, <1>8, <1>9 DEF Course

(* A node that stops the execution goes back on the stack. *)
LEMMA CourseStopped ==
    ASSUME NEW s, NEW t, NEW x, OnTop(t.stack, x, s.stack), t.waiting = s.waiting,
           NEW y, y.node = NoNode, workflow \in Workflow,
           NEW m \in Node, NEW X, NEW S, NEW R, Course(s, x, S, R, m, X)
    PROVE  Course(t, y, S, R, m, X)
  <1>1. \A p \in Node : y.node # p
    BY EngineAssumption
  <1>2. ASSUME NEW p \in Node
        PROVE  /\ x.node # p /\ Nowhere(s, p) => Nowhere(t, p)
               /\ \A Z : x.node # p /\ InWait(s, p, Z) => InWait(t, p, Z)
               /\ \A Z : x.node # p /\ InStack(s, p, Z) => InStack(t, p, Z)
               /\ \A Z : x.node = p /\ Nowhere(s, p) /\ Carries(p, Z, x.data) => InStack(t, p, Z)
    <2>1. StackOf(t.stack, p) = {} <=> x.node # p /\ StackOf(s.stack, p) = {}
      BY OnTopOnce
    <2>2. \A Z : /\ x.node = p /\ StackOf(s.stack, p) = {} /\ Carries(p, Z, x.data)
                       => OnceWith(t.stack, p, Z)
                 /\ x.node # p /\ OnceWith(s.stack, p, Z) => OnceWith(t.stack, p, Z)
      BY OnTopOnce
    <2> QED BY <2>1, <2>2 DEF Nowhere, InWait, InStack
  <1>3. Given(s, x, m, X) => Given(t, y, m, X)
    <2>1. getParentNodes(m) \subseteq Node
      BY ParentFacts
    <2> QED BY <1>1, <1>2, <2>1 DEF Given, Closed
  <1>4. CASE Unsent(s, x, S, m, X)
    BY <1>1, <1>2, <1>4 DEF Unsent, Course
  <1>5. CASE Waits(s, x, S, m, X)
    BY <1>1, <1>2, <1>5 DEF Waits, Course
  <1>6. CASE Given(s, x, m, X) /\ Queued(s, x, S, m, X)
    BY <1>1, <1>2, <1>3, <1>6 DEF Queued, Course
  <1>7. CASE Given(s, x, m, X) /\ Running(s, x, S, m, X)
    <2>1. Queued(t, y, S, m, X)
      BY <1>1, <1>2, <1>7 DEF Running, Queued
    <2> QED BY <1>3, <1>7, <2>1 DEF Course
  <1>8. CASE Given(s, x, m, X) /\ HasRun(s, x, S, R, m, X)
    BY <1>1, <1>2, <1>3, <1>8 DEF HasRun, Course
  <1>9. CASE Given(s, x, m, X) /\ Consumed(s, x, S, m)
    BY <1>1, <1>2, <1>3, <1>9 DEF Consumed, Course
  <1> QED BY <1>4, <1>5, <1>6, <1>7, <1>8, <1>9 DEF Course

(* A node that returns null has consumed its data; others stay. *)
LEMMA CourseConsumed ==
    ASSUME NEW s, NEW x, NEW y, y.node = NoNode, workflow \in Workflow,
           NEW m \in Node, x.node = m => consumes(m),
           NEW X, NEW S, NEW R, Course(s, x, S, R, m, X)
    PROVE  Course(s, y, S, R, m, X)
  <1>1. \A p \in Node : y.node # p
    BY EngineAssumption
  <1>2. Given(s, x, m, X) => Given(s, y, m, X)
    <2>1. getParentNodes(m) \subseteq Node
      BY ParentFacts
    <2> QED BY <1>1, <2>1 DEF Given, Closed
  <1> QED BY <1>1, <1>2 DEF Course, Unsent, Waits, Queued, Running, HasRun, Consumed

(* What the check for waiting nodes does with each node. *)
LEMMA AfterWaiting ==
    ASSUME workflow \in Workflow, acyclic, NEW u \in State, NEW m \in Node, NEW X
    PROVE  LET t == nextWaiting(u)
           IN  /\ Nowhere(u, m) => Nowhere(t, m)
               /\ InStack(u, m, X) => InStack(t, m, X)
               /\ InWait(u, m, X) /\ m # 1 =>
                     \/ InWait(t, m, X)
                     \/ /\ InStack(t, m, X)
                        /\ workflow.required[m] \subseteq X
                        /\ \A p \in getParentNodes(m) : Nowhere(t, p)
  <1> PICK t : t = nextWaiting(u)
    OBVIOUS
  <1>1. CASE u = t
    BY <1>1
  <1>2. ASSUME NEW k \in 1 .. Len(u.waiting), u.stack = <<>>,
               \A l \in Node \ {u.waiting[k].node} : \A Z : PlaceSame(u, t, l, Z),
               \A Z : InWait(u, u.waiting[k].node, Z) /\ u.waiting[k].node # 1 =>
                  /\ InStack(t, u.waiting[k].node, Z)
                  /\ workflow.required[u.waiting[k].node] \subseteq Z
                  /\ getParentNodes(u.waiting[k].node) \cap waitingNodes(u) = {}
        PROVE  /\ Nowhere(u, m) => Nowhere(t, m)
               /\ InStack(u, m, X) => InStack(t, m, X)
               /\ InWait(u, m, X) /\ m # 1 =>
                     \/ InWait(t, m, X)
                     \/ /\ InStack(t, m, X)
                        /\ workflow.required[m] \subseteq X
                        /\ \A p \in getParentNodes(m) : Nowhere(t, p)
    <2> PICK n : n = u.waiting[k].node
      OBVIOUS
    <2>1. CASE m # n
      BY <1>2, <2>1 DEF PlaceSame
    <2>2. CASE m = n
      <3>1. u.waiting \in Waiting
        BY DEF State
      <3>2. DOMAIN entriesOf(u.waiting, m) # {}
        BY <2>2, <3>1, EntriesFacts
      <3>3. ~Nowhere(u, m) /\ ~InStack(u, m, X)
        BY <3>2 DEF Nowhere, InStack
      <3>4. ASSUME InWait(u, m, X), m # 1, NEW p \in getParentNodes(m) PROVE Nowhere(t, p)
        <4>1. p \in Node /\ p # m
          BY <3>4, ParentFacts DEF acyclic
        <4>2. p \notin waitingNodes(u)
          BY <1>2, <2>2, <3>4
        <4>3. DOMAIN entriesOf(u.waiting, p) = {}
          BY <3>1, <4>1, <4>2, EntriesFacts DEF waitingNodes
        <4>4. StackOf(u.stack, p) = {}
          <5>1. Len(u.stack) = 0
            BY <1>2
          <5> QED BY <5>1 DEF StackOf
        <4>5. Nowhere(u, p)
          BY <4>3, <4>4 DEF Nowhere
        <4> QED BY <1>2, <2>2, <4>1, <4>5 DEF PlaceSame
      <3> QED BY <1>2, <2>2, <3>3, <3>4
    <2> QED BY <2>1, <2>2
  <1>3. \/ u = t
        \/ \E k \in 1 .. Len(u.waiting) :
              /\ u.stack = <<>>
              /\ \A l \in Node \ {u.waiting[k].node} : \A Z : PlaceSame(u, t, l, Z)
              /\ \A Z : InWait(u, u.waiting[k].node, Z) /\ u.waiting[k].node # 1 =>
                    /\ InStack(t, u.waiting[k].node, Z)
                    /\ workflow.required[u.waiting[k].node] \subseteq Z
                    /\ getParentNodes(u.waiting[k].node) \cap waitingNodes(u) = {}
    BY NextWaitingPlaces
  <1> QED BY <1>1, <1>2, <1>3

(* A node whose data all came, or that the check for waiting nodes chose,  *)
(* has been given its data; else it waits.                                 *)
LEMMA CourseAdded ==
    ASSUME workflow \in Workflow, acyclic, NEW u \in State, NEW y, y.node = NoNode,
           NEW m \in Node, m # 1, NEW X, X # {}, NEW R,
           (X = 1 .. Len(workflow.inputs[m]) /\ InStack(u, m, X)) \/ InWait(u, m, X)
    PROVE  Course(nextWaiting(u), y, {}, R, m, X)
  <1> PICK t : t = nextWaiting(u)
    OBVIOUS
  <1>1. y.node # m /\ \A p \in getParentNodes(m) : y.node # p
    BY ParentFacts, EngineAssumption
  <1>2. CASE X = 1 .. Len(workflow.inputs[m]) /\ InStack(u, m, X)
    <2>1. InStack(t, m, X)
      BY <1>2, AfterWaiting
    <2> QED BY <1>1, <1>2, <2>1 DEF Course, Given, Queued
  <1>3. CASE InWait(u, m, X)
    <2>1. \/ InWait(t, m, X)
          \/ /\ InStack(t, m, X)
             /\ workflow.required[m] \subseteq X
             /\ \A p \in getParentNodes(m) : Nowhere(t, p)
      BY <1>3, AfterWaiting
    <2> QED BY <1>1, <2>1 DEF Course, Given, Closed, Queued, Waits
  <1> QED BY <1>2, <1>3

(* Each node m is in a state that goes with the inputs X[m] that it was    *)
(* sent data for, and these connections are for further inputs.            *)
MaySendOn(s, x, X, S, R, C) ==
    /\ \A m \in Node : /\ X[m] \subseteq 1 .. Len(workflow.inputs[m])
                       /\ Course(s, x, S[m], R[m], m, X[m])
                       /\ X[m] # {} => 1 \in getParentNodes(m)
    /\ \A c \in C : c.input \notin X[c.node]

(* So is each but node n once data was sent along these connections.       *)
SentOn(t, y, n, X, S, R, C) ==
    /\ \A m \in Node :
          /\ m # n => Course(t, y, S[m], R[m], m, X[m] \cup Into(C, m))
          /\ X[m] \cup Into(C, m) # {} => 1 \in getParentNodes(m)
    /\ Into(C, n) = {} /\ Nowhere(t, n) /\ Given(t, y, n, X[n])

(***************************************************************************)
(* Node n, in execution, returns data: no node it leads to has been given  *)
(* its data before, and the one that follows next has all it will get.     *)
(***************************************************************************)
LEMMA CourseSent ==
    ASSUME workflow \in Workflow, acyclic, oneSourcePerInput, NEW n \in Node, NEW r \in Nat,
           NEW outputs \in SUBSET Output, NEW s \in State, NEW x, x.node = n, NEW y, y.node = NoNode,
           NEW X, NEW S, NEW R, NEW C, C = {c \in connectionsBySourceNode(n) : c.output \in outputs},
           MaySendOn(s, x, X, S, R, C)
    PROVE  LET t == nextWaiting(addNodes(s, n, r, outputs))
           IN  t \in State /\ SentOn(t, y, n, X, S, R, C)
  <1> DEFINE Target(m) == \E c \in C : c.node = m
  <1> PICK u : u = addNodes(s, n, r, outputs)
    OBVIOUS
  <1> PICK t : t = nextWaiting(u)
    OBVIOUS
  <1>m. /\ \A m \in Node : /\ X[m] \subseteq 1 .. Len(workflow.inputs[m])
                           /\ Course(s, x, S[m], R[m], m, X[m])
                           /\ X[m] # {} => 1 \in getParentNodes(m)
        /\ \A c \in C : c.input \notin X[c.node]
    BY DEF MaySendOn
  <1>1. \A p \in Node : y.node # p
    BY EngineAssumption
  <1>2. \A m \in Node : /\ getParentNodes(m) \subseteq Node
                        /\ m \notin getParentNodes(m)
                        /\ \A p \in getParentNodes(m) : getParentNodes(p) \subseteq getParentNodes(m)
    BY ParentFacts DEF acyclic
  <1>3. Running(s, x, S[n], n, X[n]) /\ Given(s, x, n, X[n])
    <2>1. Course(s, x, S[n], R[n], n, X[n])
      BY <1>m
    <2> QED BY <2>1 DEF Course, Unsent, Waits, Queued, HasRun, Consumed
  <1>4. n = 1 \/ 1 \in getParentNodes(n)
    BY <1>m, <1>3 DEF Given
  <1>5. ASSUME NEW c \in C
        PROVE  /\ c.node \in Node /\ c.input \in 1 .. Len(workflow.inputs[c.node])
               /\ n \in getParentNodes(c.node) /\ 1 \in getParentNodes(c.node)
    <2>1. /\ c.node \in Node /\ c.input \in DOMAIN workflow.inputs[c.node]
          /\ <<n, c.output>> \in workflow.inputs[c.node][c.input]
      BY DEF connectionsBySourceNode
    <2>2. c.input \in 1 .. Len(workflow.inputs[c.node])
      BY <2>1, WorkflowFacts
    <2>3. n \in sources(c.node)
      <3>1. \A d \in workflow.inputs[c.node][c.input] : d[1] \in sources(c.node)
        BY <2>1, <2>2, SourcesFacts
      <3> QED BY <2>1, <3>1
    <2>4. n \in getParentNodes(c.node)
      BY <2>1, <2>3, ParentFacts
    <2> QED BY <1>2, <1>4, <2>1, <2>2, <2>4
  <1>6. ASSUME NEW m \in Node, Target(m)
        PROVE  /\ n \in getParentNodes(m) /\ 1 \in getParentNodes(m) /\ m # 1 /\ m # n
               /\ X[m] # 1 .. Len(workflow.inputs[m]) /\ S[m] = {}
               /\ Unsent(s, x, S[m], m, X[m]) \/ Waits(s, x, S[m], m, X[m])
    <2>1. PICK c \in C : c.node = m
      BY <1>6
    <2>2. n \in getParentNodes(m) /\ 1 \in getParentNodes(m) /\ c.input \in 1 .. Len(workflow.inputs[m])
      BY <1>5, <2>1
    <2>3. m # 1 /\ m # n
      BY <1>2, <2>2
    <2>4. X[m] # 1 .. Len(workflow.inputs[m])
      BY <1>m, <2>1, <2>2
    <2>5. ~Given(s, x, m, X[m])
      BY <2>2, <2>3, <2>4 DEF Given, Closed
    <2>6. Unsent(s, x, S[m], m, X[m]) \/ Waits(s, x, S[m], m, X[m])
      BY <1>m, <2>5 DEF Course
    <2>7. S[m] = {}
      BY <2>6 DEF Unsent, Waits
    <2> QED BY <2>2, <2>3, <2>4, <2>6, <2>7
  <1>7. /\ u \in State
        /\ \A m \in Node : IF Target(m) THEN Place(u, m, X[m] \cup Into(C, m))
                           ELSE PlaceSame(s, u, m, X[m])
    <2>1. ASSUME NEW c \in C
          PROVE  c.node # 1 /\ c.input \notin X[c.node] /\ Place(s, c.node, X[c.node])
      <3>1. c.node \in Node /\ Target(c.node)
        BY <1>5
      <3> QED BY <1>m, <1>6, <3>1 DEF Place, Unsent, Waits
    <2>2. \A m \in Node : X[m] \subseteq 1 .. Len(workflow.inputs[m])
      BY <1>m
    <2>3. MayAdd(s, X, C)
      BY <2>1, <2>2 DEF MayAdd
    <2>4. u \in State /\ Added(s, u, X, C)
      BY <2>3, AddNodesPlaces
    <2> QED BY <2>4 DEF Added
  <1>8. t \in State
    BY <1>7, NextWaitingType
  <1>9. ASSUME NEW m \in Node, ~Target(m)
        PROVE  Into(C, m) = {} /\ X[m] \cup Into(C, m) = X[m]
    BY <1>9 DEF Into
  <1>10. ASSUME NEW m \in Node, Target(m)
         PROVE  X[m] \cup Into(C, m) # {} /\ X[m] \cup Into(C, m) \subseteq 1 .. Len(workflow.inputs[m])
    <2>1. \A i \in Into(C, m) : i \in 1 .. Len(workflow.inputs[m])
      BY <1>5 DEF Into
    <2>2. Into(C, m) # {}
      BY <1>10 DEF Into
    <2>3. X[m] \subseteq 1 .. Len(workflow.inputs[m])
      BY <1>m
    <2> QED BY <2>1, <2>2, <2>3
  <1>11. ASSUME NEW m \in Node, ~Target(m), Nowhere(s, m) PROVE Nowhere(t, m)
    <2>1. Nowhere(u, m)
      BY <1>7, <1>11 DEF PlaceSame
    <2> QED BY <1>7, <2>1, AfterWaiting
  <1>12. ASSUME NEW m \in Node, m = n \/ n \notin getParentNodes(m), Given(s, x, m, X[m])
         PROVE  Given(t, y, m, X[m])
    <2>1. CASE Closed(s, x, m, X[m])
      <3>1. ASSUME NEW p \in getParentNodes(m) PROVE Nowhere(t, p) /\ y.node # p
        <4>1. p \in Node /\ Nowhere(s, p) /\ y.node # p
          BY <1>1, <1>2, <2>1 DEF Closed
        <4>2. ~Target(p)
          <5>1. n \in getParentNodes(p) => n \in getParentNodes(m)
            BY <1>2
          <5>2. n \notin getParentNodes(m)
            BY <1>2, <1>12
          <5> QED BY <1>6, <4>1, <5>1, <5>2
        <4> QED BY <1>11, <4>1, <4>2
      <3>2. Closed(t, y, m, X[m])
        BY <2>1, <3>1 DEF Closed
      <3> QED BY <1>12, <3>2 DEF Given
    <2> QED BY <1>12, <2>1 DEF Given
  <1>13. ~Target(n)
    BY <1>6
  <1>14. ASSUME NEW m \in Node, m # n PROVE Course(t, y, S[m], R[m], m, X[m] \cup Into(C, m))
    <2> PICK Z : Z = X[m] \cup Into(C, m)
      OBVIOUS
    <2> PICK T : T = S[m]
      OBVIOUS
    <2> PICK Q : Q = R[m]
      OBVIOUS
    <2>1. CASE Target(m)
      <3>1. Place(u, m, Z) /\ Z # {} /\ T = {} /\ m # 1
        BY <1>6, <1>7, <1>10, <2>1
      <3>2. (Z = 1 .. Len(workflow.inputs[m]) /\ InStack(u, m, Z)) \/ InWait(u, m, Z)
        BY <3>1 DEF Place
      <3>3. Course(t, y, {}, Q, m, Z)
        BY <1>7, <3>1, <3>2, CourseAdded
      <3> QED BY <3>1, <3>3
    <2>2. CASE ~Target(m)
      <3>1. Z = X[m] /\ PlaceSame(s, u, m, Z) /\ Course(s, x, T, Q, m, Z)
        BY <1>m, <1>7, <1>9, <2>2
      <3>2. CASE Unsent(s, x, T, m, Z)
        BY <1>1, <1>11, <2>2, <3>2 DEF Unsent, Course
      <3>3. CASE Waits(s, x, T, m, Z)
        <4>1. InWait(u, m, Z) /\ Z # {} /\ m # 1 /\ T = {}
          BY <3>1, <3>3 DEF PlaceSame, Waits
        <4>2. Course(t, y, {}, Q, m, Z)
          BY <1>7, <4>1, CourseAdded
        <4> QED BY <4>1, <4>2
      <3>4. CASE Given(s, x, m, Z) /\ ~Unsent(s, x, T, m, Z) /\ ~Waits(s, x, T, m, Z)
        <4>1. Given(t, y, m, Z)
          <5>1. CASE n \notin getParentNodes(m)
            BY <1>12, <3>1, <3>4, <5>1
          <5>2. CASE n \in getParentNodes(m)
            BY <3>4, <5>2 DEF Given, Closed
          <5> QED BY <5>1, <5>2
        <4>2. Queued(s, x, T, m, Z) => Queued(t, y, T, m, Z)
          <5>1. InStack(s, m, Z) => InStack(u, m, Z)
            BY <3>1 DEF PlaceSame
          <5>2. InStack(u, m, Z) => InStack(t, m, Z)
            BY <1>7, AfterWaiting
          <5> QED BY <1>1, <5>1, <5>2 DEF Queued
        <4>3. ~Running(s, x, T, m, Z)
          BY <1>14 DEF Running
        <4>4. HasRun(s, x, T, Q, m, Z) => HasRun(t, y, T, Q, m, Z)
          BY <1>1, <1>11, <2>2 DEF HasRun
        <4>5. Consumed(s, x, T, m) => Consumed(t, y, T, m)
          BY <1>1, <1>11, <2>2 DEF Consumed
        <4> QED BY <3>1, <3>4, <4>1, <4>2, <4>3, <4>4, <4>5 DEF Course
      <3> QED BY <3>1, <3>2, <3>3, <3>4 DEF Course
    <2> QED BY <2>1, <2>2
  <1>15. ASSUME NEW m \in Node, X[m] \cup Into(C, m) # {} PROVE 1 \in getParentNodes(m)
    <2>1. CASE Target(m)
      BY <1>6, <2>1
    <2>2. CASE ~Target(m)
      BY <1>m, <1>9, <1>15, <2>2
    <2> QED BY <2>1, <2>2
  <1>16. Into(C, n) = {} /\ Nowhere(t, n) /\ Given(t, y, n, X[n])
    <2>1. Nowhere(s, n)
      BY <1>3 DEF Running
    <2> QED BY <1>3, <1>9, <1>11, <1>12, <1>13, <2>1
  <1> HIDE DEF Target
  <1> QED BY <1>8, <1>14, <1>15, <1>16 DEF SentOn

(***************************************************************************)
(* What is to be shown of an execution in a workflow without cycles: each  *)
(* node is in a state that goes with the data that it was sent.            *)
(***************************************************************************)
Courses ==
    \A m \in Node :
        /\ Course(current, executionData, Succeeded(m), runData[m], m, arrived(m))
        /\ arrived(m) # {} => 1 \in getParentNodes(m)

(* What happens to a node is up to the workflow. *)
LEMMA CourseNext ==
    ASSUME workflow' = workflow, NEW m \in Node, NEW t, t = current', NEW x, x = executionData',
           NEW S, S = Succeeded(m)', NEW R, R = runData'[m], NEW X, X = arrived(m)'
    PROVE  Course(current, executionData, Succeeded(m), runData[m], m, arrived(m))' <=>
              Course(t, x, S, R, m, X)
  <1>1. /\ getParentNodes(m)' = getParentNodes(m)
        /\ emitted(m, X)' = emitted(m, X)
        /\ consumes(m)' = consumes(m)
    BY DEF emitted, consumes, runNodeFilter, getParentNodes, sources
  <1>2. \A p : Nowhere(current, p)' <=> Nowhere(t, p)
    BY DEF Nowhere, current
  <1>3. InStack(current, m, arrived(m))' <=> InStack(t, m, X)
    BY DEF InStack, OnceWith, Carries, current
  <1>4. InWait(current, m, arrived(m))' <=> InWait(t, m, X)
    BY DEF InWait, current
  <1>5. Carries(m, arrived(m), executionData.data)' <=> Carries(m, X, x.data)
    BY DEF Carries
  <1>6. Ran(Succeeded(m), runData[m], m, arrived(m))' <=> Ran(S, R, m, X)
    BY <1>1 DEF Ran, Carries
  <1>7. Given(current, executionData, m, arrived(m))' <=> Given(t, x, m, X)
    BY <1>1, <1>2 DEF Given, Closed
  <1>8. Unsent(current, executionData, Succeeded(m), m, arrived(m))' <=> Unsent(t, x, S, m, X)
    BY <1>2 DEF Unsent
  <1>9. Waits(current, executionData, Succeeded(m), m, arrived(m))' <=> Waits(t, x, S, m, X)
    BY <1>4 DEF Waits
  <1>10. Queued(current, executionData, Succeeded(m), m, arrived(m))' <=> Queued(t, x, S, m, X)
    BY <1>3 DEF Queued
  <1>11. Running(current, executionData, Succeeded(m), m, arrived(m))' <=> Running(t, x, S, m, X)
    BY <1>2, <1>5 DEF Running
  <1>12. HasRun(current, executionData, Succeeded(m), runData[m], m, arrived(m))'
            <=> HasRun(t, x, S, R, m, X)
    BY <1>1, <1>2, <1>6 DEF HasRun
  <1>13. Consumed(current, executionData, Succeeded(m), m)' <=> Consumed(t, x, S, m)
    BY <1>1, <1>2 DEF Consumed
  <1> QED BY <1>7, <1>8, <1>9, <1>10, <1>11, <1>12, <1>13 DEF Course

(* Runs that did not succeed do not matter. *)
LEMMA CourseOfSuccesses ==
    ASSUME NEW t, NEW x, NEW S, NEW m, NEW X, NEW R, NEW Q, \A r \in S : R[r] = Q[r],
           Course(t, x, S, R, m, X)
    PROVE  Course(t, x, S, Q, m, X)
  <1>1. Ran(S, R, m, X) => Ran(S, Q, m, X)
    BY DEF Ran
  <1> QED BY <1>1 DEF Course, HasRun

(* Data is sent by runs that succeeded. *)
LEMMA ArrivedStays ==
    ASSUME workflow \in Workflow, workflow' = workflow, SameSuccesses
    PROVE  \A m \in Node : arrived(m)' = arrived(m)
  <1> SUFFICES ASSUME NEW m \in Node PROVE arrived(m)' = arrived(m)
    OBVIOUS
  <1>1. \A i \in 1 .. Len(workflow.inputs[m]) : \A c \in workflow.inputs[m][i] :
           (\E r \in Succeeded(c[1])' : c[2] \in runData'[c[1]][r].outputs) <=>
           (\E r \in Succeeded(c[1]) : c[2] \in runData[c[1]][r].outputs)
    BY SourceIsNode DEF SameSuccesses
  <1> QED BY <1>1 DEF arrived

(* Steps that change no run that succeeded. *)
LEMMA CoursesCarried ==
    ASSUME workflow \in Workflow, workflow' = workflow, SameSuccesses, Courses,
           \A m \in Node : \A X : \A S : \A R :
              Course(current, executionData, S, R, m, X) => Course(current', executionData', S, R, m, X)
    PROVE  Courses'
  <1> SUFFICES ASSUME NEW m \in Node
               PROVE  /\ Course(current, executionData, Succeeded(m), runData[m], m, arrived(m))'
                      /\ arrived(m)' # {} => 1 \in getParentNodes(m)'
    BY DEF Courses
  <1> PICK X : X = arrived(m)
    OBVIOUS
  <1> PICK S : S = Succeeded(m)
    OBVIOUS
  <1> PICK R : R = runData[m]
    OBVIOUS
  <1> PICK Q : Q = runData'[m]
    OBVIOUS
  <1> PICK t : t = current'
    OBVIOUS
  <1> PICK x : x = executionData'
    OBVIOUS
  <1>1. arrived(m)' = X /\ Succeeded(m)' = S /\ \A r \in S : R[r] = Q[r]
    BY ArrivedStays DEF SameSuccesses
  <1>2. Course(t, x, S, R, m, X)
    BY DEF Courses
  <1>3. Course(t, x, S, Q, m, X)
    BY <1>1, <1>2, CourseOfSuccesses
  <1>4. Course(current, executionData, Succeeded(m), runData[m], m, arrived(m))'
    BY <1>1, <1>3, CourseNext
  <1>5. getParentNodes(m)' = getParentNodes(m)
    BY DEF getParentNodes, sources
  <1> QED BY <1>1, <1>4, <1>5 DEF Courses

-----------------------------------------------------------------------------
(* What single nodes do *)

(* The first behaviour of a node. *)
kindOf(n) == workflow.behaviour[n][1].kind

(* With one behaviour for all runs it is the next one. *)
LEMMA OneBehaviour ==
    ASSUME workflow \in Workflow, runData \in [Node -> Seq(Run)], sameInEachRun, NEW item \in Item
    PROVE  /\ nextBehaviour(item) = workflow.behaviour[item.node][1]
           /\ workflow.behaviour[item.node][1] \in Behaviour
           /\ Range(workflow.behaviour[item.node]) = {workflow.behaviour[item.node][1]}
  <1> PICK n : n = item.node
    OBVIOUS
  <1> PICK b : b = workflow.behaviour[n]
    OBVIOUS
  <1>1. n \in Node /\ b \in Seq(Behaviour) /\ Len(b) = 1
    BY WorkflowFacts DEF Item, sameInEachRun
  <1>2. b[1] \in Behaviour /\ DOMAIN b = {1} /\ Range(b) = {b[1]}
    <2>1. DOMAIN b = 1 .. 1 /\ 1 \in 1 .. Len(b)
      BY <1>1, LenProperties
    <2>2. DOMAIN b = {1}
      BY <2>1
    <2> QED BY <1>1, <2>1, <2>2, ElementOfSeq DEF Range
  <1>3. nextBehaviour(item) \in Range(b)
    BY NextBehaviourFacts
  <1> QED BY <1>2, <1>3

(***************************************************************************)
(* A node that returns data returned it on the outputs that the reference  *)
(* names, and is executed with a record, if only nodes that put the        *)
(* execution to wait are disabled.                                         *)
(***************************************************************************)
LEMMA ReturnsEmitted ==
    ASSUME workflow \in Workflow, runData \in [Node -> Seq(Run)], sameInEachRun, NEW item \in Item,
           runNode(item).kind = "data", item.node \in runNodeFilter,
           \A n \in disabled : kindOf(n) = "wait", NEW X, Carries(item.node, X, item.data)
    PROVE  /\ item.node # workflow.destination =>
                 runNode(item).outputs = emitted(item.node, X)
           /\ ~consumes(item.node)
  <1> PICK n : n = item.node
    OBVIOUS
  <1> PICK b : b = workflow.behaviour[n][1]
    OBVIOUS
  <1>1. nextBehaviour(item) = b /\ b \in Behaviour /\ Range(workflow.behaviour[n]) = {b}
    BY OneBehaviour
  <1>2. CASE n \in disabled
    <2>1. b.kind = "wait"
      BY <1>2 DEF kindOf
    <2>2. runNode(item).outputs = IF item.data[1] = NoData THEN {} ELSE {1}
      BY <1>2 DEF runNode
    <2>3. item.data[1] # NoData <=> n = 1 \/ 1 \in X
      BY DEF Carries, withData
    <2> QED BY <1>1, <2>1, <2>2, <2>3 DEF emitted, consumes
  <1>3. CASE n \notin disabled
    <2>1. runNode(item) = IF b.kind = "error" /\ retried THEN [b EXCEPT !.kind = "data"] ELSE b
      BY <1>1, <1>3 DEF runNode, nextBehaviour
    <2>2. b.kind \notin {"wait", "null"} /\ runNode(item).outputs = b.outputs
      <3>1. CASE b.kind = "error" /\ retried
        <4>1. runNode(item).outputs = b.outputs
          BY <1>1, <2>1, <3>1 DEF Behaviour
        <4> QED BY <3>1, <4>1
      <3>2. CASE ~(b.kind = "error" /\ retried)
        BY <2>1, <3>2
      <3> QED BY <3>1, <3>2
    <2> QED BY <1>1, <2>2 DEF emitted, consumes
  <1> QED BY <1>2, <1>3

(* Only nodes that put the execution to wait are disabled. *)
WaitInv ==
    sameInEachRun =>
        /\ \A n \in disabled : kindOf(n) = "wait"
        /\ result = "waiting" => kindOf(Head(nodeExecutionStack).node) = "wait"

(* Only runs of such nodes are recorded as waiting. *)
WaitedInv ==
    sameInEachRun =>
        \A n \in Node : \A r \in 1 .. Len(runData[n]) :
            runData[n][r].executionStatus = "waiting" => kindOf(n) = "wait"

(* With nothing left to execute after the check for waiting nodes, no node *)
(* that waits may be executed.                                             *)
CheckedInv ==
    checked /\ nodeExecutionStack = <<>> =>
        \A k \in 1 .. Len(waitingExecution) : ~mayExecute(current, k)

(* An execution that succeeded has nothing left. *)
SuccessInv == result = "success" => nodeExecutionStack = <<>>

(* Only nodes on the filter are executed. *)
FilterInv == executionData # NoItem => executionData.node \in runNodeFilter

(* What may be executed is up to the workflow. *)
LEMMA WaitingNext ==
    ASSUME workflow' = workflow
    PROVE  /\ sameInEachRun' <=> sameInEachRun
           /\ \A n : kindOf(n)' = kindOf(n)
           /\ runNodeFilter' = runNodeFilter
           /\ \A t : \A k : mayExecute(t, k)' <=> mayExecute(t, k)
  <1>1. \A n : getParentNodes(n)' = getParentNodes(n)
    BY DEF getParentNodes, sources
  <1>2. runNodeFilter' = runNodeFilter
    BY <1>1 DEF runNodeFilter
  <1>3. \A t : \A k : mayExecute(t, k)' <=> mayExecute(t, k)
    BY <1>1 DEF mayExecute, firstEntry, waitingNodes
  <1>4. (sameInEachRun' <=> sameInEachRun) /\ \A n : kindOf(n)' = kindOf(n)
    BY DEF sameInEachRun, kindOf
  <1> QED BY <1>2, <1>3, <1>4

(* The workflow does not change. *)
LEMMA SameWorkflow ==
    ASSUME [Next]_vars
    PROVE  workflow' = workflow
  BY DEF Next, vars, Begin, BeforeFails, TakeNode, NodeReturnsNull, NodeReturnsData, NodeStops,
         LoopEnds, AfterFails, Close, Cancel, Timeout, Resume, Retry, goesOn

(* A node puts the execution to wait by its kind. *)
LEMMA WaitsByKind ==
    ASSUME workflow \in Workflow, runData \in [Node -> Seq(Run)], sameInEachRun,
           executionData \in Item, runNode(executionData).kind = "wait"
    PROVE  kindOf(executionData.node) = "wait"
  <1> PICK b : b = workflow.behaviour[executionData.node][1]
    OBVIOUS
  <1>1. nextBehaviour(executionData) = b /\ b \in Behaviour
    BY OneBehaviour
  <1>2. \/ runNode(executionData).kind = "data"
        \/ runNode(executionData) = [b EXCEPT !.kind = "data"]
        \/ runNode(executionData) = b
    BY <1>1 DEF runNode, nextBehaviour
  <1>3. [b EXCEPT !.kind = "data"].kind = "data"
    BY <1>1 DEF Behaviour
  <1> QED BY <1>2, <1>3 DEF kindOf

(* A run that is recorded, and the ones before it. *)
LEMMA RecordRuns ==
    ASSUME runData \in [Node -> Seq(Run)], executionData \in Item, NEW outputs \in SUBSET Output,
           NEW executionStatus \in {"success", "waiting", "error"}, record(outputs, executionStatus),
           NEW n \in Node, NEW r \in 1 .. Len(runData'[n])
    PROVE  \/ r \in 1 .. Len(runData[n]) /\ runData'[n][r] = runData[n][r]
           \/ n = executionData.node /\ runData'[n][r].executionStatus = executionStatus
  <1> PICK k : k = executionData.node
    OBVIOUS
  <1> PICK run : run = [data |-> executionData.data, outputs |-> outputs,
                        executionStatus |-> executionStatus, error |-> executionStatus = "error"]
    OBVIOUS
  <1>1. k \in Node /\ run \in Run /\ runData' = [runData EXCEPT ![k] = Append(runData[k], run)]
    BY RecordType
  <1>2. run.executionStatus = executionStatus
    OBVIOUS
  <1>3. CASE n # k
    BY <1>1, <1>3
  <1>4. CASE n = k
    <2>1. runData'[n] = Append(runData[n], run) /\ runData[n] \in Seq(Run)
      BY <1>1, <1>4
    <2>2. /\ Len(runData[n]) \in Nat /\ Len(runData'[n]) = Len(runData[n]) + 1
          /\ \A q \in 1 .. Len(runData[n]) : runData'[n][q] = runData[n][q]
          /\ runData'[n][Len(runData[n]) + 1] = run
      BY <1>1, <2>1, AppendProperties, LenProperties
    <2>3. r \in 1 .. Len(runData[n]) \/ r = Len(runData[n]) + 1
      BY <2>2
    <2> QED BY <1>2, <1>4, <2>2, <2>3
  <1> QED BY <1>3, <1>4

(* WaitedInv holds after a step. *)
LEMMA WaitedStep ==
    ASSUME EngineInv, WaitedInv, [Next]_vars
    PROVE  WaitedInv'
  <1> SUFFICES ASSUME sameInEachRun, NEW n \in Node, NEW r \in 1 .. Len(runData'[n]),
                      runData'[n][r].executionStatus = "waiting"
               PROVE  kindOf(n) = "wait"
    BY SameWorkflow, WaitingNext DEF WaitedInv
  <1>0. workflow \in Workflow /\ runData \in [Node -> Seq(Run)] /\ nodeExecutionStack \in Seq(Item)
    BY DEF EngineInv
  <1>a. ASSUME r \in 1 .. Len(runData[n]) /\ runData'[n][r] = runData[n][r]
        PROVE  kindOf(n) = "wait"
    BY <1>a DEF WaitedInv
  <1>b. ASSUME runData' = runData PROVE kindOf(n) = "wait"
    BY <1>a, <1>b
  <1>c. ASSUME NEW l, l = Head(nodeExecutionStack).node, Stopped,
               runData' = [runData EXCEPT ![l] = Front(@)]
        PROVE  kindOf(n) = "wait"
    <2>1. l \in Node /\ runData[l] # <<>>
      <3>1. Head(nodeExecutionStack) \in Item
        BY <1>0, <1>c, HeadTailProperties DEF Stopped
      <3> QED BY <1>c, <3>1 DEF Item, EngineInv
    <2>2. CASE n = l
      <3>1. /\ runData'[n] = Front(runData[n]) /\ runData[n] \in Seq(Run)
        BY <1>0, <1>c, <2>1, <2>2
      <3>2. /\ Len(runData[n]) \in Nat \ {0} /\ Len(runData'[n]) = Len(runData[n]) - 1
            /\ \A q \in 1 .. Len(runData[n]) - 1 : runData'[n][q] = runData[n][q]
        BY <2>1, <2>2, <3>1, FrontType
      <3>3. r \in 1 .. Len(runData[n]) - 1 /\ r \in 1 .. Len(runData[n])
        BY <3>2
      <3> QED BY <1>a, <3>2, <3>3
    <2>3. CASE n # l
      BY <1>0, <1>a, <1>c, <2>3
    <2> QED BY <2>2, <2>3
  <1>1. CASE BeforeFails
    <2>1. CASE nodeExecutionStack = <<>>
      BY <1>1, <1>b, <2>1 DEF BeforeFails
    <2>2. CASE nodeExecutionStack # <<>>
      <3> PICK run : run = [data |-> Head(nodeExecutionStack).data, outputs |-> {},
                            executionStatus |-> "error", error |-> FALSE]
        OBVIOUS
      <3>1. runData'[n] = <<run>> \/ runData'[n] = <<>>
        BY <1>1, <2>2 DEF BeforeFails
      <3>2. runData'[n] = <<run>> /\ r = 1
        <4>1. runData'[n] # <<>>
          <5>1. Len(<<>>) = 0
            BY EmptySeq
          <5> QED BY <5>1
        <4>2. runData'[n] = <<run>> /\ Len(<<run>>) = 1
          BY <3>1, <4>1
        <4> QED BY <4>2
      <3>3. runData'[n][r].executionStatus = "error"
        BY <3>2
      <3> QED BY <3>3
    <2> QED BY <2>1, <2>2
  <1>2. CASE NodeReturnsData
    <2>1. /\ record(runNode(executionData).outputs, "success") /\ executionData \in Item
          /\ runNode(executionData).outputs \in SUBSET Output
      BY <1>0, <1>2, RunNodeType DEF NodeReturnsData, EngineInv
    <2>2. r \in 1 .. Len(runData[n]) /\ runData'[n][r] = runData[n][r]
      BY <1>0, <2>1, RecordRuns
    <2> QED BY <1>a, <2>2
  <1>3. CASE NodeStops
    <2> PICK outcome : outcome = IF runNode(executionData).kind = "wait" THEN "waiting" ELSE "error"
      OBVIOUS
    <2>1. /\ record({}, outcome) /\ executionData \in Item /\ {} \in SUBSET Output
          /\ outcome \in {"success", "waiting", "error"}
      BY <1>3 DEF NodeStops, EngineInv
    <2>2. \/ r \in 1 .. Len(runData[n]) /\ runData'[n][r] = runData[n][r]
          \/ n = executionData.node /\ runData'[n][r].executionStatus = outcome
      BY <1>0, <2>1, RecordRuns
    <2>3. CASE n = executionData.node /\ outcome = "waiting"
      BY <1>0, <2>1, <2>3, WaitsByKind
    <2> QED BY <1>a, <2>2, <2>3
  <1>4. CASE Resume
    <2>1. Stopped
      BY <1>4 DEF Resume, EngineInv, Stopped
    <2> QED BY <1>4, <1>c, <2>1 DEF Resume
  <1>5. CASE Retry
    <2>1. CASE runData' = runData
      BY <1>b, <2>1
    <2>2. CASE runData' # runData
      <3>1. /\ Stopped
            /\ LET l == Head(nodeExecutionStack).node IN runData' = [runData EXCEPT ![l] = Front(@)]
        BY <1>5, <2>2 DEF Retry, Stopped
      <3> QED BY <1>c, <3>1
    <2> QED BY <2>1, <2>2
  <1>6. CASE \/ Begin \/ TakeNode \/ NodeReturnsNull \/ LoopEnds \/ AfterFails \/ Close \/ Cancel
            \/ Timeout \/ UNCHANGED vars
    <2>1. runData' = runData
      BY <1>6 DEF vars, Begin, TakeNode, NodeReturnsNull, LoopEnds, AfterFails, Close, Cancel, Timeout
    <2> QED BY <1>b, <2>1
  <1> QED BY <1>1, <1>2, <1>3, <1>4, <1>5, <1>6 DEF Next

(* WaitInv holds after a step. *)
LEMMA WaitStep ==
    ASSUME EngineInv, WaitInv, WaitedInv, [Next]_vars
    PROVE  WaitInv'
  <1> SUFFICES ASSUME sameInEachRun PROVE WaitInv'
    BY SameWorkflow, WaitingNext DEF WaitInv
  <1>0. workflow' = workflow /\ \A n : kindOf(n)' = kindOf(n)
    BY SameWorkflow, WaitingNext
  <1>a. ASSUME disabled' = disabled,
               result' = "waiting" => result = "waiting" /\ nodeExecutionStack' = nodeExecutionStack
        PROVE  WaitInv'
    BY <1>0, <1>a DEF WaitInv
  <1>1. CASE Begin
    BY <1>1, <1>a DEF Begin
  <1>2. CASE BeforeFails
    BY <1>2, <1>a DEF BeforeFails, catch
  <1>3. CASE TakeNode
    <2>1. result # "waiting"
      BY <1>3 DEF TakeNode, EngineInv
    <2> QED BY <1>3, <1>a, <2>1 DEF TakeNode
  <1>4. CASE NodeReturnsNull
    BY <1>4, <1>a DEF NodeReturnsNull
  <1>5. CASE NodeReturnsData
    <2>1. result # "waiting"
      BY <1>5 DEF NodeReturnsData, EngineInv
    <2> QED BY <1>5, <1>a, <2>1 DEF NodeReturnsData
  <1>6. CASE NodeStops
    <2>1. /\ disabled' = disabled /\ nodeExecutionStack' = <<executionData>> \o nodeExecutionStack
          /\ executionData \in Item /\ nodeExecutionStack \in Seq(Item)
          /\ workflow \in Workflow /\ runData \in [Node -> Seq(Run)]
      BY <1>6 DEF NodeStops, EngineInv
    <2>2. Head(nodeExecutionStack') = executionData
      BY <2>1
    <2>3. result' = "waiting" => runNode(executionData).kind = "wait"
      <3>1. result # "waiting"
        BY <1>6 DEF NodeStops, EngineInv
      <3> QED BY <1>6, <3>1 DEF NodeStops, processSuccessExecution
    <2>4. runNode(executionData).kind = "wait" => kindOf(executionData.node) = "wait"
      BY <2>1, WaitsByKind
    <2> QED BY <1>0, <2>1, <2>2, <2>3, <2>4 DEF WaitInv
  <1>7. CASE LoopEnds
    BY <1>7, <1>a DEF LoopEnds, processSuccessExecution
  <1>8. CASE AfterFails
    BY <1>8, <1>a DEF AfterFails, catch
  <1>9. CASE Close
    BY <1>9, <1>a DEF Close
  <1>10. CASE Cancel
    BY <1>10, <1>a DEF Cancel
  <1>11. CASE Timeout
    BY <1>11, <1>a DEF Timeout
  <1>12. CASE Resume
    BY <1>0, <1>12 DEF Resume, goesOn, WaitInv
  <1>13. CASE Retry
    <2> PICK n : n = Head(nodeExecutionStack).node
      OBVIOUS
    <2>1. CASE disabled' = disabled
      BY <1>13, <1>a, <2>1 DEF Retry, goesOn
    <2>2. CASE disabled' # disabled
      <3>1. /\ disabled' = disabled \cup {n} /\ nodeExecutionStack # <<>> /\ result = "error"
            /\ runData[n][Len(runData[n])].executionStatus = "waiting" /\ result' = "none"
        BY <1>13, <2>2 DEF Retry, goesOn
      <3>2. n \in Node /\ runData[n] # <<>> /\ runData[n] \in Seq(Run)
        <4>1. Head(nodeExecutionStack) \in Item
          BY <3>1, HeadTailProperties DEF EngineInv
        <4> QED BY <3>1, <4>1 DEF Item, EngineInv, Stopped
      <3>3. Len(runData[n]) \in 1 .. Len(runData[n])
        BY <3>2, FrontType
      <3>4. kindOf(n) = "wait"
        BY <3>1, <3>2, <3>3 DEF WaitedInv
      <3> QED BY <1>0, <3>1, <3>4 DEF WaitInv
    <2> QED BY <2>1, <2>2
  <1>14. CASE UNCHANGED vars
    BY <1>14, <1>a DEF vars
  <1> QED
    BY <1>1, <1>2, <1>3, <1>4, <1>5, <1>6, <1>7, <1>8, <1>9, <1>10, <1>11, <1>12, <1>13, <1>14
    DEF Next

(* CheckedInv holds after a step. *)
LEMMA CheckedStep ==
    ASSUME EngineInv, CheckedInv, [Next]_vars
    PROVE  CheckedInv'
  <1>0. workflow' = workflow /\ \A t : \A k : mayExecute(t, k)' <=> mayExecute(t, k)
    BY SameWorkflow, WaitingNext
  <1>a. ASSUME UNCHANGED <<nodeExecutionStack, waitingExecution, checked>> PROVE CheckedInv'
    <2>1. \A k : mayExecute(current, k)' <=> mayExecute(current, k)
      <3>1. \A k : mayExecute(current, k)' <=> mayExecute(current', k)
        BY <1>0 DEF mayExecute, firstEntry, waitingNodes, getParentNodes, sources
      <3>2. current' = current
        BY <1>a DEF current
      <3> QED BY <3>1, <3>2
    <2> QED BY <1>a, <2>1 DEF CheckedInv
  <1>1. CASE Begin
    BY <1>1, <1>a DEF Begin
  <1>2. CASE BeforeFails
    BY <1>2, <1>a DEF BeforeFails
  <1>3. CASE TakeNode
    BY <1>3 DEF TakeNode, CheckedInv
  <1>4. CASE NodeReturnsNull
    BY <1>4, <1>a DEF NodeReturnsNull
  <1>5. CASE NodeReturnsData
    <2> PICK n : n = executionData.node
      OBVIOUS
    <2> PICK u : u = addNodes(current, n, Len(runData[n]) + 1, runNode(executionData).outputs)
      OBVIOUS
    <2>1. CASE n = workflow.destination
      BY <1>5, <1>a, <2>1 DEF NodeReturnsData
    <2>2. CASE n # workflow.destination
      <3>1. nodeExecutionStack' = nextWaiting(u).stack /\ waitingExecution' = nextWaiting(u).waiting
        BY <1>5, <2>2 DEF NodeReturnsData, current
      <3>2. workflow \in Workflow /\ u \in State
        <4>1. /\ workflow \in Workflow /\ executionData \in Item /\ runData \in [Node -> Seq(Run)]
              /\ current \in State
          BY <1>5 DEF NodeReturnsData, EngineInv, State, current
        <4>2. n \in Node /\ runNode(executionData).outputs \in SUBSET Output
          BY <4>1, RunNodeType DEF Item
        <4>3. Len(runData[n]) + 1 \in Nat
          BY <4>1, <4>2, LenProperties
        <4> QED BY <4>1, <4>2, <4>3, AddNodesType
      <3>3. nextWaiting(u) \in State
        BY <3>2, NextWaitingType
      <3>4. current' = nextWaiting(u)
        BY <3>1, <3>3 DEF current, State
      <3>5. \/ nextWaiting(u).stack # <<>>
            \/ \A k \in 1 .. Len(nextWaiting(u).waiting) : ~mayExecute(nextWaiting(u), k)
        BY <3>2, NextWaitingPlaces
      <3>6. \A k : mayExecute(current, k)' <=> mayExecute(current', k)
        BY <1>0 DEF mayExecute, firstEntry, waitingNodes, getParentNodes, sources
      <3> QED BY <3>1, <3>4, <3>5, <3>6 DEF CheckedInv
    <2> QED BY <2>1, <2>2
  <1>6. CASE NodeStops
    <2>1. nodeExecutionStack' = <<executionData>> \o nodeExecutionStack
          /\ executionData \in Item /\ nodeExecutionStack \in Seq(Item)
      BY <1>6 DEF NodeStops, EngineInv
    <2>2. nodeExecutionStack' # <<>>
      BY <2>1
    <2> QED BY <2>2 DEF CheckedInv
  <1>7. CASE LoopEnds
    BY <1>7, <1>a DEF LoopEnds
  <1>8. CASE AfterFails
    BY <1>8, <1>a DEF AfterFails
  <1>9. CASE Close
    BY <1>9, <1>a DEF Close
  <1>10. CASE Cancel
    BY <1>10, <1>a DEF Cancel
  <1>11. CASE Timeout
    BY <1>11, <1>a DEF Timeout
  <1>12. CASE Resume
    BY <1>12, <1>a DEF Resume, goesOn
  <1>13. CASE Retry
    BY <1>13, <1>a DEF Retry, goesOn
  <1>14. CASE UNCHANGED vars
    BY <1>14, <1>a DEF vars
  <1> QED
    BY <1>1, <1>2, <1>3, <1>4, <1>5, <1>6, <1>7, <1>8, <1>9, <1>10, <1>11, <1>12, <1>13, <1>14
    DEF Next

(* SuccessInv and FilterInv hold after a step. *)
LEMMA SuccessStep ==
    ASSUME EngineInv, SuccessInv, FilterInv, NodeIsExecuted, [Next]_vars
    PROVE  SuccessInv' /\ FilterInv'
  <1>0. workflow' = workflow /\ runNodeFilter' = runNodeFilter
    BY SameWorkflow, WaitingNext
  <1>a. ASSUME executionData' = executionData \/ executionData' = NoItem PROVE FilterInv'
    BY <1>0, <1>a DEF FilterInv
  <1>b. ASSUME phase \in {"starting", "loop", "node"}, result' = result PROVE SuccessInv'
    BY <1>b DEF EngineInv, SuccessInv
  <1>1. CASE Begin
    BY <1>1, <1>a, <1>b DEF Begin
  <1>2. CASE BeforeFails
    BY <1>2, <1>a DEF BeforeFails, catch, SuccessInv
  <1>3. CASE TakeNode
    <2>1. SuccessInv'
      BY <1>3, <1>b DEF TakeNode
    <2>2. FilterInv'
      BY <1>0, <1>3 DEF TakeNode, FilterInv
    <2> QED BY <2>1, <2>2
  <1>4. CASE NodeReturnsNull
    BY <1>4, <1>a, <1>b DEF NodeReturnsNull
  <1>5. CASE NodeReturnsData
    BY <1>5, <1>a, <1>b DEF NodeReturnsData
  <1>6. CASE NodeStops
    BY <1>6, <1>a DEF NodeStops, processSuccessExecution, SuccessInv
  <1>7. CASE LoopEnds
    BY <1>7, <1>a DEF LoopEnds, processSuccessExecution, SuccessInv
  <1>8. CASE AfterFails
    BY <1>8, <1>a DEF AfterFails, catch, SuccessInv
  <1>9. CASE Close
    BY <1>9, <1>a DEF Close, SuccessInv
  <1>10. CASE Cancel
    BY <1>10, <1>a DEF Cancel, SuccessInv
  <1>11. CASE Timeout
    BY <1>11, <1>a DEF Timeout, SuccessInv
  <1>12. CASE Resume
    BY <1>12, <1>a DEF Resume, goesOn, SuccessInv
  <1>13. CASE Retry
    BY <1>13, <1>a DEF Retry, goesOn, SuccessInv
  <1>14. CASE UNCHANGED vars
    BY <1>14, <1>a DEF vars, SuccessInv
  <1> QED
    BY <1>1, <1>2, <1>3, <1>4, <1>5, <1>6, <1>7, <1>8, <1>9, <1>10, <1>11, <1>12, <1>13, <1>14
    DEF Next

(* What a run of node n sends. *)
LEMMA ArrivedNext ==
    ASSUME workflow \in Workflow, workflow' = workflow, runData \in [Node -> Seq(Run)],
           executionData \in Item, NEW outputs \in SUBSET Output, record(outputs, "success"),
           NEW n, n = executionData.node, Succeeded(n) = {},
           NEW C, C = {c \in connectionsBySourceNode(n) : c.output \in outputs}, NEW m \in Node
    PROVE  arrived(m)' = arrived(m) \cup (IF n = workflow.destination THEN {} ELSE Into(C, m))
  <1> PICK R : R = Len(runData[n]) + 1
    OBVIOUS
  <1> PICK L : L = 1 .. Len(workflow.inputs[m])
    OBVIOUS
  <1>1. /\ n \in Node
        /\ runData'[n][R].outputs = outputs
        /\ R \in Succeeded(n)'
        /\ \A r : r # R => (r \in Succeeded(n)' <=> r \in Succeeded(n))
        /\ \A l \in Node \ {n} : Succeeded(l)' = Succeeded(l) /\ runData'[l] = runData[l]
    BY RecordSuccesses
  <1>2. ASSUME NEW i \in L, NEW c \in workflow.inputs[m][i]
        PROVE  /\ c[1] # n => ((\E r \in Succeeded(c[1])' : c[2] \in runData'[c[1]][r].outputs) <=>
                               (\E r \in Succeeded(c[1]) : c[2] \in runData[c[1]][r].outputs))
               /\ c[1] = n => /\ (\E r \in Succeeded(c[1])' : c[2] \in runData'[c[1]][r].outputs)
                                    <=> c[2] \in outputs
                              /\ ~\E r \in Succeeded(c[1]) : c[2] \in runData[c[1]][r].outputs
    <2>1. c[1] \in Node
      BY <1>2, SourceIsNode
    <2>2. CASE c[1] # n
      BY <1>1, <2>1, <2>2
    <2>3. CASE c[1] = n
      <3>1. \A r : r \in Succeeded(n)' <=> r = R
        BY <1>1
      <3> QED BY <1>1, <2>3, <3>1
    <2> QED BY <2>2, <2>3
  <1>3. \A i : i \in Into(C, m) <=>
           i \in L /\ \E c \in workflow.inputs[m][i] : c[1] = n /\ c[2] \in outputs
    <2>1. ASSUME NEW i, i \in Into(C, m)
          PROVE  i \in L /\ \E c \in workflow.inputs[m][i] : c[1] = n /\ c[2] \in outputs
      <3>1. PICK c \in C : c.node = m /\ c.input = i
        BY <2>1 DEF Into
      <3>2. /\ <<n, c.output>> \in workflow.inputs[m][i] /\ c.output \in outputs
            /\ i \in DOMAIN workflow.inputs[m]
        BY <3>1 DEF connectionsBySourceNode
      <3>3. i \in L
        BY <3>2, WorkflowFacts
      <3>4. <<n, c.output>>[1] = n /\ <<n, c.output>>[2] = c.output
        OBVIOUS
      <3> QED BY <3>2, <3>3, <3>4
    <2>2. ASSUME NEW i \in L, NEW c \in workflow.inputs[m][i], c[1] = n, c[2] \in outputs
          PROVE  i \in Into(C, m)
      <3>1. workflow.inputs[m] \in Seq(SUBSET (Node \X Output)) /\ DOMAIN workflow.inputs[m] = L
        BY WorkflowFacts
      <3>2. c \in Node \X Output
        <4>1. workflow.inputs[m][i] \in SUBSET (Node \X Output)
          BY <3>1, ElementOfSeq
        <4> QED BY <2>2, <4>1
      <3> PICK d : d = [output |-> c[2], node |-> m, input |-> i]
        OBVIOUS
      <3>3. c = <<n, d.output>> /\ d.output \in Output /\ d.node = m /\ d.input = i
        BY <2>2, <3>2
      <3>4. i \in Input
        BY <3>1, InputFacts
      <3>5. d \in connectionsBySourceNode(n)
        BY <2>2, <3>1, <3>3, <3>4 DEF connectionsBySourceNode
      <3>6. d \in C
        BY <2>2, <3>3, <3>5
      <3> QED BY <3>3, <3>6 DEF Into
    <2> QED BY <2>1, <2>2
  <1>4. \A i : i \in arrived(m)' <=> i \in L /\ \E c \in workflow.inputs[m][i] :
           c[1] # workflow.destination /\ \E r \in Succeeded(c[1])' : c[2] \in runData'[c[1]][r].outputs
    BY DEF arrived
  <1>5. \A i : i \in arrived(m) <=> i \in L /\ \E c \in workflow.inputs[m][i] :
           c[1] # workflow.destination /\ \E r \in Succeeded(c[1]) : c[2] \in runData[c[1]][r].outputs
    BY DEF arrived
  <1> PICK Z : Z = IF n = workflow.destination THEN {} ELSE Into(C, m)
    OBVIOUS
  <1>6. ASSUME NEW i \in L PROVE i \in arrived(m)' <=> i \in arrived(m) \/ i \in Z
    <2>1. CASE n = workflow.destination
      BY <1>2, <1>4, <1>5, <2>1
    <2>2. CASE n # workflow.destination
      <3>1. i \in Z <=> \E c \in workflow.inputs[m][i] : c[1] = n /\ c[2] \in outputs
        BY <1>3, <2>2
      <3>2. ASSUME i \in arrived(m)' PROVE i \in arrived(m) \/ i \in Z
        BY <1>2, <1>4, <1>5, <2>2, <3>1, <3>2
      <3>3. ASSUME i \in arrived(m) PROVE i \in arrived(m)'
        BY <1>2, <1>4, <1>5, <2>2, <3>3
      <3>4. ASSUME i \in Z PROVE i \in arrived(m)'
        BY <1>2, <1>4, <2>2, <3>1, <3>4
      <3> QED BY <3>2, <3>3, <3>4
    <2> QED BY <2>1, <2>2
  <1>7. /\ \A i \in arrived(m)' : i \in L
        /\ \A i \in arrived(m) : i \in L
        /\ \A i \in Z : i \in L
    BY <1>3, <1>4, <1>5
  <1>8. arrived(m)' = arrived(m) \cup Z
    BY <1>6, <1>7
  <1> QED BY <1>8

(* A node that returns data. *)
LEMMA CoursesSent ==
    ASSUME EngineInv, FilterInv, WaitInv, acyclic, oneSourcePerInput, sameInEachRun, Courses,
           NodeReturnsData
    PROVE  Courses'
  <1> PICK n : n = executionData.node
    OBVIOUS
  <1> PICK r : r = Len(runData[n]) + 1
    OBVIOUS
  <1> PICK outputs : outputs = runNode(executionData).outputs
    OBVIOUS
  <1> PICK C : C = {c \in connectionsBySourceNode(n) : c.output \in outputs}
    OBVIOUS
  <1> PICK s : s = current
    OBVIOUS
  <1> PICK t : t = current'
    OBVIOUS
  <1> PICK x : x = executionData
    OBVIOUS
  <1> PICK y : y = executionData'
    OBVIOUS
  <1> PICK X : X = [m \in Node |-> arrived(m)]
    OBVIOUS
  <1> PICK S : S = [m \in Node |-> Succeeded(m)]
    OBVIOUS
  <1>1. /\ workflow \in Workflow /\ runData \in [Node -> Seq(Run)]
        /\ x \in Item /\ executionData \in Item /\ workflow' = workflow
        /\ s \in State /\ y = NoItem /\ y.node = NoNode
        /\ runNode(x).kind = "data" /\ x.node = n /\ n \in Node
    BY DEF NodeReturnsData, EngineInv, State, current, NoItem, Item
  <1>2. outputs \in SUBSET Output /\ record(outputs, "success")
    BY <1>1, RunNodeType DEF NodeReturnsData
  <1>3. /\ r \in Nat \ {0}
        /\ runData'[n][r].data = x.data /\ runData'[n][r].outputs = outputs
        /\ r \in Succeeded(n)'
        /\ \A q : q # r => (q \in Succeeded(n)' <=> q \in Succeeded(n))
        /\ \A l \in Node \ {n} : Succeeded(l)' = Succeeded(l) /\ runData'[l] = runData[l]
    BY <1>1, <1>2, RecordSuccesses
  <1>4. \A m \in Node : /\ X[m] \subseteq 1 .. Len(workflow.inputs[m])
                        /\ Course(s, x, S[m], runData[m], m, X[m])
                        /\ X[m] # {} => 1 \in getParentNodes(m)
    <2> SUFFICES ASSUME NEW m \in Node
                 PROVE  /\ X[m] \subseteq 1 .. Len(workflow.inputs[m])
                        /\ Course(s, x, S[m], runData[m], m, X[m])
                        /\ X[m] # {} => 1 \in getParentNodes(m)
      OBVIOUS
    <2>1. X[m] = arrived(m) /\ S[m] = Succeeded(m)
      OBVIOUS
    <2>2. arrived(m) \subseteq 1 .. Len(workflow.inputs[m])
      BY DEF arrived
    <2> QED BY <2>1, <2>2 DEF Courses
  <1>5. Running(s, x, S[n], n, X[n]) /\ Given(s, x, n, X[n]) /\ Succeeded(n) = {}
    <2>1. Course(s, x, S[n], runData[n], n, X[n])
      BY <1>1, <1>4
    <2> QED BY <1>1, <2>1 DEF Course, Unsent, Waits, Queued, HasRun, Consumed, Running
  <1>6. ASSUME NEW m \in Node
        PROVE  arrived(m)' = X[m] \cup (IF n = workflow.destination THEN {} ELSE Into(C, m))
    <2>1. arrived(m)' = arrived(m) \cup (IF n = workflow.destination THEN {} ELSE Into(C, m))
      <3>1. /\ workflow \in Workflow /\ workflow' = workflow /\ runData \in [Node -> Seq(Run)]
            /\ executionData \in Item /\ outputs \in SUBSET Output /\ record(outputs, "success")
            /\ n = executionData.node /\ Succeeded(n) = {}
            /\ C = {c \in connectionsBySourceNode(n) : c.output \in outputs}
        BY <1>1, <1>2, <1>5
      <3> QED BY <3>1, ArrivedNext, ZenonT(60)
    <2> QED BY <2>1
  <1>7. x.node \in runNodeFilter
    BY <1>1, EngineAssumption DEF FilterInv, NoItem
  <1>8. (n # workflow.destination => outputs = emitted(n, X[n])) /\ ~consumes(n)
    <2>1. Carries(n, X[n], x.data) /\ \A k \in disabled : kindOf(k) = "wait"
      BY <1>5 DEF Running, WaitInv
    <2> QED BY <1>1, <1>7, <2>1, ReturnsEmitted
  <1>9. ASSUME Nowhere(t, n), Given(t, y, n, X[n])
        PROVE  Course(t, y, Succeeded(n)', runData'[n], n, X[n])
    <2>1. Succeeded(n)' = {r}
      BY <1>3, <1>5
    <2>2. Ran(Succeeded(n)', runData'[n], n, X[n])
      BY <1>3, <1>5, <1>8, <2>1 DEF Ran, Running
    <2>3. y.node # n
      BY <1>1, EngineAssumption
    <2> QED BY <1>8, <1>9, <2>2, <2>3 DEF Course, HasRun
  <1>10. ASSUME NEW m \in Node
         PROVE  /\ Course(t, y, Succeeded(m)', runData'[m], m, arrived(m)')
                /\ arrived(m)' # {} => 1 \in getParentNodes(m)
    <2>1. CASE n = workflow.destination
      <3>1. t = s /\ arrived(m)' = X[m]
        BY <1>6, <2>1 DEF NodeReturnsData, current
      <3>2. CASE m = n
        <4>1. Nowhere(t, n)
          BY <1>5, <3>1 DEF Running
        <4>2. Given(t, y, n, X[n])
          <5>1. \A p \in getParentNodes(n) : y.node # p
            BY <1>1, ParentFacts, EngineAssumption
          <5> QED BY <1>5, <3>1, <5>1 DEF Given, Closed
        <4> QED BY <1>4, <1>9, <3>1, <3>2, <4>1, <4>2
      <3>3. CASE m # n
        <4>1. Course(t, y, S[m], runData[m], m, X[m])
          BY <1>1, <1>4, <3>1, <3>3, CourseConsumed
        <4> QED BY <1>3, <1>4, <3>1, <3>3, <4>1
      <3> QED BY <3>2, <3>3
    <2>2. CASE n # workflow.destination
      <3> PICK u : u = nextWaiting(addNodes(s, n, r, outputs))
        OBVIOUS
      <3>1. arrived(m)' = X[m] \cup Into(C, m)
        BY <1>6, <2>2
      <3>2. \A c \in C : c.input \notin X[c.node]
        <4> SUFFICES ASSUME NEW c \in C, c.input \in X[c.node] PROVE FALSE
          OBVIOUS
        <4>1. /\ c.node \in Node /\ c.input \in DOMAIN workflow.inputs[c.node]
              /\ <<n, c.output>> \in workflow.inputs[c.node][c.input]
          BY DEF connectionsBySourceNode
        <4>2. c.input \in arrived(c.node)
          BY <4>1
        <4>3. PICK d \in workflow.inputs[c.node][c.input] : Succeeded(d[1]) # {}
          BY <4>2 DEF arrived
        <4>4. d = <<n, c.output>>
          BY <4>1 DEF oneSourcePerInput
        <4>5. d[1] = n
          BY <4>4
        <4> QED BY <1>5, <4>3, <4>5
      <3> PICK D : D = runData
        OBVIOUS
      <3>a. r \in Nat /\ MaySendOn(s, x, X, S, D, C)
        BY <1>3, <1>4, <3>2 DEF MaySendOn
      <3>b. u \in State /\ SentOn(u, y, n, X, S, D, C)
        BY <1>1, <1>2, <3>a, CourseSent
      <3>3. /\ u \in State
            /\ \A l \in Node :
                  /\ l # n => Course(u, y, S[l], D[l], l, X[l] \cup Into(C, l))
                  /\ X[l] \cup Into(C, l) # {} => 1 \in getParentNodes(l)
            /\ Into(C, n) = {} /\ Nowhere(u, n) /\ Given(u, y, n, X[n])
        BY <3>b DEF SentOn
      <3>4. t = u
        <4>1. t = [stack |-> u.stack, waiting |-> u.waiting]
          BY <2>2 DEF NodeReturnsData, current
        <4> QED BY <3>3, <4>1 DEF State
      <3>5. CASE m = n
        <4>1. arrived(m)' = X[n]
          BY <3>1, <3>3, <3>5
        <4> QED BY <1>4, <1>9, <3>3, <3>4, <3>5, <4>1
      <3>6. CASE m # n
        <4>1. Succeeded(m)' = S[m] /\ runData'[m] = runData[m]
          BY <1>3, <3>6
        <4> QED BY <3>1, <3>3, <3>4, <3>6, <4>1
      <3> QED BY <3>5, <3>6
    <2> QED BY <2>1, <2>2
  <1>11. ASSUME NEW m \in Node
         PROVE  /\ Course(current, executionData, Succeeded(m), runData[m], m, arrived(m))'
                /\ arrived(m)' # {} => 1 \in getParentNodes(m)'
    <2>1. Course(current, executionData, Succeeded(m), runData[m], m, arrived(m))'
      BY <1>1, <1>10, CourseNext
    <2>2. getParentNodes(m)' = getParentNodes(m)
      BY <1>1 DEF getParentNodes, sources
    <2> QED BY <1>10, <2>1, <2>2
  <1> QED BY <1>11 DEF Courses

-----------------------------------------------------------------------------
(* An execution that goes by the reference *)

(* What is to be shown about where nodes are. *)
CoursesInv == ~Dead /\ acyclic /\ oneSourcePerInput /\ sameInEachRun => Courses

(* A node is given its data once: Courses holds after a step. *)
LEMMA CoursesStep ==
    ASSUME EngineInv, DeliveryInv, FilterInv, WaitInv, CoursesInv, [Next]_vars,
           ~Dead', acyclic, oneSourcePerInput, sameInEachRun
    PROVE  Courses'
  <1>0. workflow \in Workflow /\ workflow' = workflow
    BY SameWorkflow DEF EngineInv
  <1>a. ASSUME ~Dead PROVE Courses
    BY <1>a DEF CoursesInv
  <1>b. ASSUME ~Dead, SameSuccesses, UNCHANGED <<nodeExecutionStack, waitingExecution, executionData>>
        PROVE  Courses'
    <2>1. current' = current /\ executionData' = executionData
      BY <1>b DEF current
    <2> QED BY <1>0, <1>a, <1>b, <2>1, CoursesCarried
  <1>c. /\ NodeIsExecuted /\ StoppedRun /\ NotStarted
        /\ NoItem.node = NoNode
    BY DEF DeliveryInv, NoItem
  <1>d. ASSUME runData' = runData, Dead PROVE NoSuccess'
    BY <1>d, SameRuns DEF Dead
  <1>1. CASE Begin
    <2>1. /\ runData' = runData /\ phase = "starting"
          /\ UNCHANGED <<nodeExecutionStack, waitingExecution, executionData>>
      BY <1>1 DEF Begin
    <2>2. ~Dead
      BY <2>1 DEF Dead
    <2> QED BY <1>b, <2>1, <2>2, SameRuns
  <1>2. CASE BeforeFails
    <2>1. /\ phase = "starting" /\ phase' = "closing" /\ retried' = retried
          /\ result' \in {"error", "canceled"}
          /\ UNCHANGED <<nodeExecutionStack, waitingExecution, executionData>>
      BY <1>2 DEF BeforeFails, catch
    <2>2. ~Dead
      BY <2>1 DEF Dead
    <2>3. SameSuccesses
      <3>1. CASE nodeExecutionStack = <<>>
        BY <1>2, <3>1, SameRuns DEF BeforeFails
      <3>2. CASE nodeExecutionStack # <<>>
        <4>1. NoSuccess'
          BY <1>2, <3>2, BeforeFailsSuccesses
        <4>2. ~retried
          BY <2>1, <4>1 DEF Dead
        <4>3. NoSuccess
          BY <1>c, <2>1, <4>2 DEF NotStarted
        <4> QED BY <4>1, <4>3 DEF NoSuccess, SameSuccesses
      <3> QED BY <3>1, <3>2
    <2> QED BY <1>b, <2>1, <2>2, <2>3
  <1>3. CASE TakeNode
    <2> PICK h : h = Head(nodeExecutionStack)
      OBVIOUS
    <2>1. /\ nodeExecutionStack \in Seq(Item) /\ nodeExecutionStack # <<>> /\ phase = "loop"
          /\ nodeExecutionStack' = Tail(nodeExecutionStack) /\ waitingExecution' = waitingExecution
          /\ runData' = runData
      BY <1>3 DEF TakeNode, EngineInv
    <2>2. /\ executionData.node = NoNode
          /\ executionData' = h \/ (executionData'.node = NoNode /\ h.node \notin runNodeFilter)
      <3>1. executionData = NoItem
        BY <1>c, <2>1 DEF NodeIsExecuted
      <3>2. \/ h.node \in runNodeFilter /\ executionData' = h
            \/ h.node \notin runNodeFilter /\ executionData' = executionData
        BY <1>3 DEF TakeNode
      <3> QED BY <1>c, <3>1, <3>2
    <2>3. OnTop(nodeExecutionStack, h, nodeExecutionStack')
      <3>1. /\ Len(nodeExecutionStack) \in Nat \ {0}
            /\ Len(Tail(nodeExecutionStack)) = Len(nodeExecutionStack) - 1
            /\ \A k \in 1 .. Len(Tail(nodeExecutionStack)) :
                  Tail(nodeExecutionStack)[k] = nodeExecutionStack[k + 1]
            /\ h = nodeExecutionStack[1]
        BY <2>1, HeadTailProperties, LenProperties, EmptySeq
      <3> QED BY <2>1, <3>1 DEF OnTop
    <2>4. Courses /\ SameSuccesses
      BY <1>a, <2>1, SameRuns DEF Dead
    <2>5. OnTop(current.stack, h, current'.stack) /\ current'.waiting = current.waiting
      BY <2>1, <2>3 DEF current
    <2>6. ASSUME NEW m \in Node, NEW X, NEW S, NEW R, Course(current, executionData, S, R, m, X)
          PROVE  Course(current', executionData', S, R, m, X)
      BY <1>0, <2>2, <2>5, <2>6, CourseTaken
    <2> QED BY <1>0, <2>4, <2>6, CoursesCarried
  <1>4. CASE NodeReturnsNull
    <2>1. /\ runData' = runData /\ phase = "node" /\ executionData' = NoItem
          /\ UNCHANGED <<nodeExecutionStack, waitingExecution>>
          /\ executionData \in Item /\ runNode(executionData).kind = "null"
          /\ runData \in [Node -> Seq(Run)]
      BY <1>4 DEF NodeReturnsNull, EngineInv
    <2>2. Courses /\ SameSuccesses
      BY <1>a, <2>1, SameRuns DEF Dead
    <2>3. consumes(executionData.node)
      BY <1>0, <2>1, NullConsumes
    <2>4. current' = current
      BY <2>1 DEF current
    <2>5. ASSUME NEW m \in Node, NEW X, NEW S, NEW R, Course(current, executionData, S, R, m, X)
          PROVE  Course(current', executionData', S, R, m, X)
      BY <1>0, <1>c, <2>1, <2>3, <2>4, <2>5, CourseConsumed
    <2> QED BY <1>0, <2>2, <2>5, CoursesCarried
  <1>5. CASE NodeReturnsData
    <2>1. Courses
      BY <1>5, <1>a DEF NodeReturnsData, Dead
    <2> QED BY <1>5, <2>1, CoursesSent
  <1>6. CASE NodeStops
    <2>1. /\ nodeExecutionStack' = <<executionData>> \o nodeExecutionStack
          /\ phase = "node" /\ executionData' = NoItem /\ waitingExecution' = waitingExecution
          /\ executionData \in Item /\ nodeExecutionStack \in Seq(Item)
      BY <1>6 DEF NodeStops, EngineInv
    <2>2. Courses /\ SameSuccesses
      BY <1>6, <1>a, <2>1, NodeStopsSuccesses DEF Dead
    <2>3. OnTop(current'.stack, executionData, current.stack) /\ current'.waiting = current.waiting
      BY <2>1, PushIsOnTop DEF current
    <2>4. ASSUME NEW m \in Node, NEW X, NEW S, NEW R, Course(current, executionData, S, R, m, X)
          PROVE  Course(current', executionData', S, R, m, X)
      BY <1>0, <1>c, <2>1, <2>3, <2>4, CourseStopped
    <2> QED BY <1>0, <2>2, <2>4, CoursesCarried
  <1>7. CASE LoopEnds
    <2>1. /\ runData' = runData /\ phase = "loop"
          /\ UNCHANGED <<nodeExecutionStack, waitingExecution, executionData>>
      BY <1>7 DEF LoopEnds
    <2>2. ~Dead
      BY <2>1 DEF Dead
    <2> QED BY <1>b, <2>1, <2>2, SameRuns
  <1>8. CASE AfterFails
    <2>1. runData' = runData /\ phase = "reporting"
          /\ UNCHANGED <<nodeExecutionStack, waitingExecution, executionData>>
      BY <1>8 DEF AfterFails
    <2>2. ~Dead
      BY <2>1 DEF Dead
    <2> QED BY <1>b, <2>1, <2>2, SameRuns
  <1>9. CASE Close
    <2>1. /\ runData' = runData /\ phase' = "done" /\ UNCHANGED <<result, retried>>
          /\ UNCHANGED <<nodeExecutionStack, waitingExecution, executionData>>
      BY <1>9 DEF Close
    <2>2. ~Dead
      BY <1>d, <2>1 DEF Dead
    <2> QED BY <1>b, <2>1, <2>2, SameRuns
  <1>10. CASE Cancel
    <2>1. /\ runData' = runData /\ UNCHANGED <<phase, result, retried>>
          /\ UNCHANGED <<nodeExecutionStack, waitingExecution, executionData>>
      BY <1>10 DEF Cancel
    <2>2. ~Dead
      BY <1>d, <2>1 DEF Dead
    <2> QED BY <1>b, <2>1, <2>2, SameRuns
  <1>11. CASE Timeout
    <2>1. /\ runData' = runData /\ phase = "loop"
          /\ UNCHANGED <<nodeExecutionStack, waitingExecution, executionData>>
      BY <1>11 DEF Timeout
    <2>2. ~Dead
      BY <2>1 DEF Dead
    <2> QED BY <1>b, <2>1, <2>2, SameRuns
  <1>12. CASE Resume
    <2>1. result = "waiting" /\ UNCHANGED <<nodeExecutionStack, waitingExecution, executionData>>
      BY <1>12 DEF Resume, goesOn
    <2>2. LET n == Head(nodeExecutionStack).node
          IN  nodeExecutionStack # <<>> /\ runData' = [runData EXCEPT ![n] = Front(@)]
      BY <1>12 DEF Resume, EngineInv
    <2>3. SameSuccesses
      BY <1>c, <2>1, <2>2, GoesOnKeeps
    <2>4. ~Dead
      BY <2>1 DEF Dead
    <2> QED BY <1>b, <2>1, <2>3, <2>4
  <1>13. CASE Retry
    <2>1. /\ result = "error" /\ ~retried
          /\ UNCHANGED <<nodeExecutionStack, waitingExecution, executionData>>
      BY <1>13 DEF Retry, goesOn
    <2>2. LET n == Head(nodeExecutionStack).node
          IN  \/ runData' = runData
              \/ nodeExecutionStack # <<>> /\ runData' = [runData EXCEPT ![n] = Front(@)]
      BY <1>13 DEF Retry
    <2>3. SameSuccesses
      BY <1>c, <2>1, <2>2, GoesOnKeeps
    <2>4. ~Dead
      BY <2>1 DEF Dead
    <2> QED BY <1>b, <2>1, <2>3, <2>4
  <1>14. CASE UNCHANGED vars
    <2>1. /\ runData' = runData /\ UNCHANGED <<phase, result, retried>>
          /\ UNCHANGED <<nodeExecutionStack, waitingExecution, executionData>>
      BY <1>14 DEF vars
    <2>2. ~Dead
      BY <1>d, <2>1 DEF Dead
    <2> QED BY <1>b, <2>1, <2>2, SameRuns
  <1> QED
    BY <1>1, <1>2, <1>3, <1>4, <1>5, <1>6, <1>7, <1>8, <1>9, <1>10, <1>11, <1>12, <1>13, <1>14
    DEF Next

(***************************************************************************)
(* The invariant: only nodes that wait are disabled, and recorded as       *)
(* waiting, the check for waiting nodes leaves none that may be executed, success leaves nothing, only    *)
(* nodes on the filter are executed, and each node is in a state that goes *)
(* with the data that it was sent.                                         *)
(***************************************************************************)
DataflowInv == WaitInv /\ WaitedInv /\ CheckedInv /\ SuccessInv /\ FilterInv /\ CoursesInv

(* Initially the start node is queued, with an item of its own. *)
LEMMA DataflowInit ==
    ASSUME Init
    PROVE  DataflowInv
  <1> PICK item : item = [node |-> 1, data |-> <<<<1, 0, 1>>>>]
    OBVIOUS
  <1>1. /\ workflow \in Workflow /\ nodeExecutionStack = <<item>> /\ waitingExecution = <<>>
        /\ runData = [n \in Node |-> <<>>] /\ executionData = NoItem /\ result = "none"
        /\ disabled = {} /\ checked = FALSE
    BY DEF Init
  <1>2. WaitInv /\ WaitedInv /\ CheckedInv /\ SuccessInv /\ FilterInv
    <2>1. ASSUME NEW n \in Node PROVE Len(runData[n]) = 0
      BY <1>1
    <2> QED BY <1>1, <2>1 DEF WaitInv, WaitedInv, CheckedInv, SuccessInv, FilterInv
  <1>3. \A n \in Node : Succeeded(n) = {}
    <2> SUFFICES ASSUME NEW n \in Node PROVE Succeeded(n) = {}
      OBVIOUS
    <2>1. Len(runData[n]) = 0
      BY <1>1
    <2> QED BY <2>1 DEF Succeeded
  <1>4. \A m : DOMAIN entriesOf(waitingExecution, m) = {}
    <2>1. Len(waitingExecution) = 0
      BY <1>1
    <2> QED BY <2>1 DEF entriesOf
  <1>5. \A m \in Node : arrived(m) = {}
    BY <1>1, <1>3, SourceIsNode DEF arrived
  <1>6. \A m \in Node : executionData.node # m
    BY <1>1, EngineAssumption DEF NoItem
  <1>7. Len(nodeExecutionStack) = 1 /\ nodeExecutionStack[1] = item
    BY <1>1
  <1>8. ASSUME NEW m \in Node
        PROVE  Course(current, executionData, Succeeded(m), runData[m], m, arrived(m))
    <2>1. CASE m = 1
      <3>1. StackOf(nodeExecutionStack, m) = {1}
        <4>1. 1 .. 1 = {1}
          OBVIOUS
        <4> QED BY <1>7, <2>1, <4>1 DEF StackOf
      <3>2. Carries(m, arrived(m), item.data)
        <4>1. 1 \in DOMAIN item.data /\ item.data[1] = <<1, 0, 1>>
          OBVIOUS
        <4>2. <<1, 0, 1>> \in Node \X Nat \X Output
          BY <1>1, WorkflowFacts
        <4>3. <<1, 0, 1>> # NoData
          BY <4>2, EngineAssumption
        <4> QED BY <2>1, <4>1, <4>3 DEF Carries
      <3>3. OnceWith(nodeExecutionStack, m, arrived(m))
        BY <1>7, <3>1, <3>2 DEF OnceWith
      <3>4. InStack(current, m, arrived(m))
        BY <1>4, <3>3 DEF InStack, current
      <3> QED BY <1>3, <1>6, <2>1, <3>4 DEF Course, Given, Queued
    <2>2. CASE m # 1
      <3>1. StackOf(nodeExecutionStack, m) = {}
        <4>1. \A k \in 1 .. 1 : k = 1
          OBVIOUS
        <4> QED BY <1>7, <2>2, <4>1 DEF StackOf
      <3>2. Nowhere(current, m)
        BY <1>4, <3>1 DEF Nowhere, current
      <3> QED BY <1>3, <1>5, <1>6, <2>2, <3>2 DEF Course, Unsent
    <2> QED BY <2>1, <2>2
  <1>9. Courses
    BY <1>5, <1>8 DEF Courses
  <1> QED BY <1>2, <1>9 DEF DataflowInv, CoursesInv

(* DataflowInv holds always. *)
LEMMA DataflowInvariant == Spec => []DataflowInv
  <1>1. Init => DataflowInv
    BY DataflowInit
  <1>2. EngineInv /\ DeliveryInv /\ DataflowInv /\ [Next]_vars => DataflowInv'
    <2> SUFFICES ASSUME EngineInv, DeliveryInv, DataflowInv, [Next]_vars PROVE DataflowInv'
      OBVIOUS
    <2>1. WaitInv' /\ WaitedInv' /\ CheckedInv' /\ SuccessInv' /\ FilterInv'
      BY WaitStep, WaitedStep, CheckedStep, SuccessStep DEF DataflowInv, DeliveryInv
    <2>2. /\ acyclic' <=> acyclic
          /\ oneSourcePerInput' <=> oneSourcePerInput
          /\ sameInEachRun' <=> sameInEachRun
      <3>1. workflow' = workflow
        BY SameWorkflow
      <3>2. \A n : getParentNodes(n)' = getParentNodes(n)
        BY <3>1 DEF getParentNodes, sources
      <3>3. acyclic' <=> acyclic
        BY <3>2 DEF acyclic
      <3>4. (oneSourcePerInput' <=> oneSourcePerInput) /\ (sameInEachRun' <=> sameInEachRun)
        BY <3>1 DEF oneSourcePerInput, sameInEachRun
      <3> QED BY <3>3, <3>4
    <2>3. CoursesInv'
      BY <2>2, CoursesStep DEF CoursesInv, DataflowInv
    <2> QED BY <2>1, <2>3 DEF DataflowInv
  <1> QED BY <1>1, <1>2, EngineInvariant, DeliveryInvariant, PTL DEF Spec

(* Node m has been given its data, and took it; or still waits. *)
Taken(m) ==
    /\ Given(current, executionData, m, arrived(m))
    /\ \/ HasRun(current, executionData, Succeeded(m), runData[m], m, arrived(m))
       \/ Consumed(current, executionData, Succeeded(m), m)

Left(m) == DOMAIN entriesOf(waitingExecution, m) # {}

(* The reference is right about node m. *)
Foreseen(m) ==
    /\ dataflow[m].inputs = arrived(m)
    /\ dataflow[m].taken <=> Taken(m)
    /\ dataflow[m].waits <=> Left(m)

(* An execution that is over in success, as MatchesDataflow has it. *)
Finished ==
    /\ workflow \in Workflow /\ waitingExecution \in Waiting
    /\ acyclic /\ oneSourcePerInput /\ sameInEachRun
    /\ nodeExecutionStack = <<>> /\ executionData = NoItem
    /\ Courses
    /\ \A k \in 1 .. Len(waitingExecution) : ~mayExecute(current, k)

(* Then a node was sent nothing, or waits, or has been taken. *)
LEMMA FinishedCases ==
    ASSUME Finished, NEW m \in Node
    PROVE  \/ m # 1 /\ arrived(m) = {} /\ Succeeded(m) = {} /\ ~Left(m) /\ ~Taken(m)
           \/ /\ m # 1 /\ arrived(m) # {} /\ Succeeded(m) = {} /\ Left(m) /\ ~Taken(m)
              /\ InWait(current, m, arrived(m))
           \/ ~Left(m) /\ Taken(m)
  <1> PICK S : S = Succeeded(m)
    OBVIOUS
  <1> PICK X : X = arrived(m)
    OBVIOUS
  <1> PICK R : R = runData[m]
    OBVIOUS
  <1> PICK x : x = executionData
    OBVIOUS
  <1>1. x.node # m
    BY EngineAssumption DEF Finished, NoItem
  <1>2. StackOf(current.stack, m) = {}
    <2>1. Len(nodeExecutionStack) = 0
      BY DEF Finished
    <2> QED BY <2>1 DEF StackOf, current
  <1>3. Nowhere(current, m) <=> ~Left(m)
    BY <1>2 DEF Nowhere, Left, current
  <1>4. InWait(current, m, X) => Left(m)
    BY DEF InWait, Left, current
  <1>5. ~InStack(current, m, X)
    BY <1>2 DEF InStack, OnceWith
  <1>6. Course(current, x, S, R, m, X)
    BY DEF Finished, Courses
  <1>7. Taken(m) <=> /\ Given(current, x, m, X)
                     /\ HasRun(current, x, S, R, m, X) \/ Consumed(current, x, S, m)
    BY DEF Taken
  <1>8. Taken(m) => ~Left(m)
    BY <1>3, <1>7 DEF HasRun, Consumed
  <1>9. CASE Unsent(current, x, S, m, X)
    <2>1. m # 1 /\ X = {} /\ S = {} /\ ~Left(m)
      BY <1>3, <1>9 DEF Unsent
    <2>2. ~Taken(m)
      BY <1>7, <2>1 DEF Given
    <2> QED BY <2>1, <2>2
  <1>10. CASE Waits(current, x, S, m, X)
    BY <1>4, <1>8, <1>10 DEF Waits
  <1>11. CASE ~Unsent(current, x, S, m, X) /\ ~Waits(current, x, S, m, X)
    <2>1. Taken(m)
      BY <1>1, <1>5, <1>6, <1>7, <1>11 DEF Course, Queued, Running
    <2> QED BY <1>8, <2>1
  <1> QED BY <1>9, <1>10, <1>11

(* A node that consumes its data emits nothing. *)
LEMMA ConsumersEmitNothing ==
    ASSUME workflow \in Workflow, sameInEachRun, NEW n \in Node, consumes(n), NEW X
    PROVE  emitted(n, X) = {}
  <1> PICK b : b = workflow.behaviour[n][1]
    OBVIOUS
  <1>1. b \in Behaviour /\ Range(workflow.behaviour[n]) = {b}
    <2> PICK s : s = workflow.behaviour[n]
      OBVIOUS
    <2>1. s \in Seq(Behaviour) /\ Len(s) = 1
      BY WorkflowFacts DEF sameInEachRun
    <2>2. DOMAIN s = 1 .. 1 /\ 1 \in 1 .. Len(s)
      BY <2>1, LenProperties
    <2>3. DOMAIN s = {1}
      BY <2>2
    <2> QED BY <2>1, <2>2, <2>3, ElementOfSeq DEF Range
  <1>2. n \notin runNodeFilter \/ b.kind = "null"
    BY <1>1 DEF consumes
  <1>3. b.kind = "null" => b.outputs = {}
    BY <1>1 DEF Behaviour
  <1> QED BY <1>2, <1>3 DEF emitted

(* What a node sent is what the reference says it emitted. *)
LEMMA SentIsEmitted ==
    ASSUME Finished, NEW p \in Node, Foreseen(p), NEW o
    PROVE  (dataflow[p].taken /\ o \in emitted(p, dataflow[p].inputs)) <=>
              (p # workflow.destination /\ \E r \in Succeeded(p) : o \in runData[p][r].outputs)
  <1> PICK X : X = arrived(p)
    OBVIOUS
  <1>1. dataflow[p].inputs = X /\ (dataflow[p].taken <=> Taken(p))
    BY DEF Foreseen
  <1>2. Succeeded(p) # {} => Taken(p)
    BY FinishedCases
  <1>3. ASSUME Taken(p), consumes(p) PROVE Succeeded(p) = {} /\ emitted(p, X) = {}
    BY <1>3, ConsumersEmitNothing DEF Taken, HasRun, Consumed, Finished
  <1>4. ASSUME Taken(p), ~consumes(p)
        PROVE  \E r \in Succeeded(p) :
                  Succeeded(p) = {r} /\ (p # workflow.destination => runData[p][r].outputs = emitted(p, X))
    BY <1>4 DEF Taken, HasRun, Consumed, Ran
  <1>5. p = workflow.destination => emitted(p, X) = {}
    BY DEF emitted
  <1>6. CASE Taken(p) /\ ~consumes(p)
    BY <1>1, <1>4, <1>5, <1>6
  <1>7. CASE Taken(p) /\ consumes(p)
    BY <1>1, <1>3, <1>7
  <1>8. CASE ~Taken(p)
    BY <1>1, <1>2, <1>8
  <1> QED BY <1>6, <1>7, <1>8

(* The inputs of node n that the reference gives data, and what it says of  *)
(* the rest of the data and of the other nodes.                             *)
Fed(n) ==
    {i \in DOMAIN workflow.inputs[n] :
        \E c \in workflow.inputs[n][i] :
            dataflow[c[1]].taken /\ c[2] \in emitted(c[1], dataflow[c[1]].inputs)}

Blocked(n) ==
    \/ workflow.required[n] \ Fed(n) # {}
    \/ \E p \in getParentNodes(n) : dataflow[p].waits

Complete(n) == n = 1 \/ (Fed(n) # {} /\ Fed(n) = DOMAIN workflow.inputs[n])

(* The fate of a node, in these words. *)
LEMMA FateIs ==
    ASSUME workflow \in Workflow, acyclic, NEW n \in Node
    PROVE  /\ dataflow[n].inputs = Fed(n)
           /\ dataflow[n].taken <=> (Complete(n) \/ (Fed(n) # {} /\ ~Blocked(n)))
           /\ dataflow[n].waits <=> (Fed(n) # {} /\ ~Complete(n) /\ Blocked(n))
  <1> PICK A : A = Fed(n)
    OBVIOUS
  <1> PICK blocked \in BOOLEAN : blocked <=> Blocked(n)
    OBVIOUS
  <1> PICK complete \in BOOLEAN : complete <=> Complete(n)
    OBVIOUS
  <1>0. /\ A = {i \in DOMAIN workflow.inputs[n] :
                   \E c \in workflow.inputs[n][i] :
                      dataflow[c[1]].taken /\ c[2] \in emitted(c[1], dataflow[c[1]].inputs)}
        /\ blocked <=> \/ workflow.required[n] \ A # {}
                       \/ \E p \in getParentNodes(n) : dataflow[p].waits
        /\ complete <=> (n = 1 \/ (A # {} /\ A = DOMAIN workflow.inputs[n]))
    <2>1. A = {i \in DOMAIN workflow.inputs[n] :
                   \E c \in workflow.inputs[n][i] :
                      dataflow[c[1]].taken /\ c[2] \in emitted(c[1], dataflow[c[1]].inputs)}
      BY DEF Fed
    <2>2. blocked <=> \/ workflow.required[n] \ A # {}
                      \/ \E p \in getParentNodes(n) : dataflow[p].waits
      BY DEF Blocked
    <2>3. complete <=> (n = 1 \/ (A # {} /\ A = DOMAIN workflow.inputs[n]))
      BY DEF Complete
    <2> QED BY <2>1, <2>2, <2>3
  <1> PICK t \in BOOLEAN : t <=> complete \/ (A # {} /\ ~blocked)
    OBVIOUS
  <1> PICK w \in BOOLEAN : w <=> A # {} /\ ~complete /\ blocked
    OBVIOUS
  <1>1. dataflow[n] = fateOf(dataflow, n)
    BY DataflowFacts
  <1>2. fateOf(dataflow, n) = [inputs |-> A, taken |-> t, waits |-> w]
    <2>1. t = (complete \/ (A # {} /\ ~blocked))
      OBVIOUS
    <2>2. w = (A # {} /\ ~complete /\ blocked)
      OBVIOUS
    <2>3. blocked = (\/ workflow.required[n] \ A # {}
                     \/ \E p \in getParentNodes(n) : dataflow[p].waits)
      BY <1>0
    <2>4. complete = (n = 1 \/ (A # {} /\ A = DOMAIN workflow.inputs[n]))
      BY <1>0
    <2> QED BY <1>0, <2>1, <2>2, <2>3, <2>4 DEF fateOf
  <1>3. dataflow[n].inputs = A /\ dataflow[n].taken = t /\ dataflow[n].waits = w
    BY <1>1, <1>2
  <1> QED BY <1>3

(* A node that waits misses data, and may not be executed. *)
LEMMA LeftIsBlocked ==
    ASSUME Finished, NEW n \in Node, InWait(current, n, arrived(n))
    PROVE  /\ arrived(n) # 1 .. Len(workflow.inputs[n])
           /\ \/ workflow.required[n] \ arrived(n) # {}
              \/ \E p \in getParentNodes(n) : Left(p)
  <1> PICK X : X = arrived(n)
    OBVIOUS
  <1> PICK w : w = waitingExecution
    OBVIOUS
  <1> PICK e : e = entriesOf(w, n)
    OBVIOUS
  <1>1. w \in Waiting /\ workflow \in Workflow /\ current.waiting = w
    BY DEF Finished, current
  <1>2. DOMAIN e = {0} /\ withData(e[0]) = X
    BY <1>1 DEF InWait
  <1>3. e[0] \in Partial(n)
    BY <1>1, <1>2, EntriesFacts DEF EntriesOK
  <1>4. X # 1 .. Len(workflow.inputs[n])
    BY <1>2, <1>3 DEF Partial, withData
  <1>5. PICK k \in 1 .. Len(w) : w[k].node = n /\ w[k].entries = e
    BY <1>1, <1>2, EntriesFacts
  <1>6. firstEntry(current, k) = 0
    <2>1. {0} \subseteq Nat /\ {0} # {}
      OBVIOUS
    <2>2. Min({0}) \in {0}
      BY <2>1, LeastIsMember
    <2> QED BY <1>1, <1>2, <1>5, <2>2 DEF firstEntry
  <1>7. ~mayExecute(current, k)
    BY <1>5 DEF Finished
  <1>8. ~(workflow.required[n] \subseteq X) \/ getParentNodes(n) \cap waitingNodes(current) # {}
    BY <1>1, <1>2, <1>5, <1>6, <1>7 DEF mayExecute
  <1>9. ASSUME NEW p \in getParentNodes(n), p \in waitingNodes(current) PROVE Left(p)
    <2>1. p \in Node
      BY <1>1, ParentFacts
    <2>2. \E l \in 1 .. Len(w) : w[l].node = p
      BY <1>1, <1>9 DEF waitingNodes
    <2> QED BY <1>1, <2>1, <2>2, EntriesFacts DEF Left
  <1> QED BY <1>4, <1>8, <1>9

(* The reference is right about a node if it is about those that lead to it. *)
LEMMA ForeseenNext ==
    ASSUME Finished, NEW n \in Node, \A p \in getParentNodes(n) : Foreseen(p)
    PROVE  Foreseen(n)
  <1> PICK X : X = arrived(n)
    OBVIOUS
  <1>1. /\ workflow \in Workflow /\ acyclic
        /\ DOMAIN workflow.inputs[n] = 1 .. Len(workflow.inputs[n])
        /\ getParentNodes(n) \subseteq Node
    BY WorkflowFacts, ParentFacts DEF Finished
  <1>2. ASSUME NEW i \in 1 .. Len(workflow.inputs[n]), NEW c \in workflow.inputs[n][i]
        PROVE  (dataflow[c[1]].taken /\ c[2] \in emitted(c[1], dataflow[c[1]].inputs)) <=>
                  (/\ c[1] # workflow.destination
                   /\ \E r \in Succeeded(c[1]) : c[2] \in runData[c[1]][r].outputs)
    <2>1. c[1] \in getParentNodes(n) /\ c[1] \in Node
      BY <1>1, <1>2, SourcesFacts, ParentFacts
    <2> QED BY <2>1, SentIsEmitted
  <1>3. Fed(n) = X
    BY <1>1, <1>2 DEF arrived, Fed
  <1>4. /\ dataflow[n].inputs = X
        /\ dataflow[n].taken <=> (Complete(n) \/ (X # {} /\ ~Blocked(n)))
        /\ dataflow[n].waits <=> (X # {} /\ ~Complete(n) /\ Blocked(n))
    BY <1>1, <1>3, FateIs
  <1>5. Blocked(n) <=> \/ workflow.required[n] \ X # {}
                       \/ \E p \in getParentNodes(n) : Left(p)
    BY <1>3 DEF Foreseen, Blocked
  <1>6. Complete(n) <=> (n = 1 \/ (X # {} /\ X = 1 .. Len(workflow.inputs[n])))
    BY <1>1, <1>3 DEF Complete
  <1>7. CASE n # 1 /\ X = {} /\ ~Left(n) /\ ~Taken(n)
    BY <1>3, <1>4, <1>6, <1>7 DEF Foreseen
  <1>8. CASE n # 1 /\ X # {} /\ Left(n) /\ ~Taken(n) /\ InWait(current, n, X)
    <2>1. Blocked(n) /\ ~Complete(n)
      BY <1>5, <1>6, <1>8, LeftIsBlocked
    <2> QED BY <1>3, <1>4, <1>8, <2>1 DEF Foreseen
  <1>9. CASE ~Left(n) /\ Taken(n)
    <2>1. Complete(n) \/ (X # {} /\ ~Blocked(n))
      <3>1. CASE Closed(current, executionData, n, X) /\ X # {}
        <4>1. \A p \in getParentNodes(n) : ~Left(p)
          BY <3>1 DEF Closed, Nowhere, Left, current
        <4>2. workflow.required[n] \ X = {}
          BY <3>1 DEF Closed
        <4> QED BY <1>5, <3>1, <4>1, <4>2
      <3> QED BY <1>6, <1>9, <3>1 DEF Taken, Given
    <2> QED BY <1>3, <1>4, <1>9, <2>1 DEF Foreseen
  <1> QED BY <1>7, <1>8, <1>9, FinishedCases

(***************************************************************************)
(* An execution of a workflow without cycles that ends with success has    *)
(* executed each node that data reaches exactly once, with all the inputs  *)
(* that ever get data, and leaves waiting only nodes that miss a required  *)
(* input or come after one that does: for every workflow in which inputs   *)
(* have one source each and nodes do the same in each run, in whatever     *)
(* order its nodes are executed, and with waits, failures and retries.     *)
(***************************************************************************)
THEOREM DataflowIsExecuted == Spec => []MatchesDataflow
  <1>1. EngineInv /\ DeliveryInv /\ DataflowInv => MatchesDataflow
    <2> SUFFICES ASSUME EngineInv, DeliveryInv, DataflowInv,
                        phase = "done", result = "success", checked,
                        oneSourcePerInput, acyclic, sameInEachRun, NEW n \in Node
                 PROVE  LET fate == dataflow[n]
                            runs == {r \in DOMAIN runData[n] :
                                        runData[n][r].executionStatus = "success"}
                        IN  /\ IF fate.taken /\ ~consumes(n)
                               THEN \E r \in runs :
                                       /\ runs = {r}
                                       /\ n # 1 => withData(runData[n][r].data) = fate.inputs
                               ELSE runs = {}
                            /\ fate.waits <=>
                                  \E k \in DOMAIN waitingExecution : waitingExecution[k].node = n
      BY DEF MatchesDataflow
    <2>1. Finished
      <3>1. /\ workflow \in Workflow /\ waitingExecution \in Waiting
            /\ nodeExecutionStack = <<>> /\ executionData = NoItem
        BY DEF EngineInv, DeliveryInv, NodeIsExecuted, DataflowInv, SuccessInv
      <3>2. Courses
        BY DEF DataflowInv, CoursesInv, Dead
      <3>3. \A k \in 1 .. Len(waitingExecution) : ~mayExecute(current, k)
        BY <3>1 DEF DataflowInv, CheckedInv
      <3> QED BY <3>1, <3>2, <3>3 DEF Finished
    <2>2. Foreseen(n)
      <3> DEFINE B == {m \in Node : ~Foreseen(m)}
      <3>1. ASSUME B # {} PROVE FALSE
        <4>1. workflow \in Workflow /\ B \in SUBSET Node
          BY <2>1 DEF Finished
        <4> HIDE DEF B
        <4>2. PICK m \in B : getParentNodes(m) \cap B = {}
          BY <3>1, <4>1, FirstOfNodes
        <4>3. m \in Node /\ \A p \in getParentNodes(m) : p \in Node
          BY <4>1, <4>2, ParentFacts
        <4>4. \A p \in getParentNodes(m) : Foreseen(p)
          BY <4>2, <4>3 DEF B
        <4>5. Foreseen(m)
          BY <2>1, <4>3, <4>4, ForeseenNext
        <4> QED BY <4>2, <4>5 DEF B
      <3> QED BY <3>1
    <2> PICK S : S = Succeeded(n)
      OBVIOUS
    <2>3. S = {r \in DOMAIN runData[n] : runData[n][r].executionStatus = "success"}
      <3>1. DOMAIN runData[n] = 1 .. Len(runData[n])
        BY DEF EngineInv
      <3> QED BY <3>1 DEF Succeeded
    <2>4. IF dataflow[n].taken /\ ~consumes(n)
          THEN \E r \in S : S = {r} /\ (n # 1 => withData(runData[n][r].data) = dataflow[n].inputs)
          ELSE S = {}
      <3>1. CASE Taken(n) /\ ~consumes(n)
        BY <2>2, <3>1 DEF Foreseen, Taken, HasRun, Consumed, Ran, Carries
      <3>2. CASE Taken(n) /\ consumes(n)
        BY <2>2, <3>2 DEF Foreseen, Taken, HasRun, Consumed
      <3>3. CASE ~Taken(n)
        BY <2>1, <2>2, <3>3, FinishedCases DEF Foreseen
      <3> QED BY <3>1, <3>2, <3>3
    <2>5. dataflow[n].waits <=> \E k \in DOMAIN waitingExecution : waitingExecution[k].node = n
      <3>1. /\ waitingExecution \in Waiting
            /\ DOMAIN waitingExecution = 1 .. Len(waitingExecution)
        BY DEF EngineInv, Waiting
      <3> QED BY <2>2, <3>1, EntriesFacts DEF Foreseen, Left
    <2> QED BY <2>3, <2>4, <2>5
  <1> QED BY <1>1, EngineInvariant, DeliveryInvariant, DataflowInvariant, PTL

=============================================================================
