-------------------------- MODULE WorkflowExecute --------------------------
(***************************************************************************)
(* The execution engine: processRunExecutionData of WorkflowExecute, for   *)
(* workflows in execution order v1.  A stack holds the nodes to execute,   *)
(* with their input data; a node that succeeds puts the nodes its outputs  *)
(* lead to on the stack, and one with several inputs waits until all of    *)
(* them have data, or until the stack is empty.  An execution may be       *)
(* canceled while a node runs, time out, fail and be retried, or go to     *)
(* wait and be resumed; another instance then goes on with the saved data. *)
(*                                                                         *)
(* Data is abstracted to where it comes from: a node, its run and its      *)
(* output.                                                                 *)
(***************************************************************************)
EXTENDS Naturals, Sequences, FiniteSets, FiniteSetsExt, SequencesExt

CONSTANTS
    MaxNode,     \* nodes are numbered; node 1 starts the workflow
    MaxOutput,
    NoNode,
    NoData,      \* `null` or an empty input
    Workflow,    \* workflows to execute
    MaxRuns      \* bound: runs of a node

Node == 1 .. MaxNode
Output == 1 .. MaxOutput

(***************************************************************************)
(* What a node does: it returns items on some of its outputs, returns      *)
(* null, puts the execution to wait, or fails and returns items when the   *)
(* execution is retried.  A workflow has the behaviour of each run of a    *)
(* node, the last one for all further runs.                                *)
(***************************************************************************)
Behaviour == [kind : {"data", "error"}, outputs : SUBSET Output]
                 \cup [kind : {"null", "wait"}, outputs : {{}}]

ASSUME EngineAssumption ==
    /\ MaxNode \in Nat \ {0}
    /\ MaxOutput \in Nat \ {0}
    /\ MaxRuns \in Nat \ {0}
    /\ NoNode \notin Node
    /\ NoData \notin Node \X Nat \X Output
    /\ \A w \in Workflow :
          /\ w.inputs \in [Node -> Seq(SUBSET (Node \X Output))]
          /\ w.required \in [Node -> SUBSET Nat]
          /\ w.position \in [Node -> Nat]
          /\ \A n \in Node : w.behaviour[n] \in Seq(Behaviour) \ {<<>>}
          /\ w.destination \in Node \cup {NoNode}
          /\ w.interrupted \in BOOLEAN

VARIABLES
    workflow,
    nodeExecutionStack,
    waitingExecution,   \* nodes that wait, in the order in which they came, with their entries
    runData,            \* recorded runs of each node
    executionData,      \* what is taken from the stack and being executed
    disabled,           \* nodes that pass their data through
    retried,            \* whether the execution is a retry
    phase,              \* of the instance: "starting", "loop", "node", "reporting" (what the
                        \* loop did), "closing" or "done"
    status,             \* of the instance
    aborted,            \* whether the abort signal was given
    result,             \* the status of the run that is returned, "none" until it is made
    reports,            \* calls of the hook workflowExecuteAfter, by whom and with which status
    checked             \* whether the last iteration came to the check for waiting nodes

vars == <<workflow, nodeExecutionStack, waitingExecution, runData, executionData, disabled, retried,
          phase, status, aborted, result, reports, checked>>

(* The data of one output of one run. *)
Data == Node \X Nat \X Output

Item == [node : Node, data : Seq(Data \cup {NoData})]

NoItem == [node |-> NoNode, data |-> <<>>]

Run == [data : Seq(Data \cup {NoData}), outputs : SUBSET Output,
        executionStatus : {"success", "waiting", "error"}, error : BOOLEAN]

Result == {"success", "error", "waiting", "canceled"}

Report == [status : Result, by : {"loop", "abort", "catch"}]

EngineTypeOK ==
    /\ workflow \in Workflow
    /\ nodeExecutionStack \in Seq(Item)
    /\ \A k \in 1 .. Len(waitingExecution) :
          /\ waitingExecution[k].node \in Node
          /\ DOMAIN waitingExecution[k].entries # {}
          /\ \A r \in DOMAIN waitingExecution[k].entries :
                /\ r \in Nat
                /\ waitingExecution[k].entries[r] \in Seq(Data \cup {NoData})
                /\ NoData \in Range(waitingExecution[k].entries[r])
    /\ runData \in [Node -> Seq(Run)]
    /\ executionData \in Item \cup {NoItem}
    /\ disabled \in SUBSET Node
    /\ retried \in BOOLEAN
    /\ phase \in {"starting", "loop", "node", "reporting", "closing", "done"}
    /\ status \in {"running", "canceled"}
    /\ aborted \in BOOLEAN
    /\ result \in Result \cup {"none"}
    /\ reports \in Seq(Report)
    /\ checked \in BOOLEAN

(* run: the start node is on the stack, with an item of its own. *)
Init ==
    /\ workflow \in Workflow
    /\ nodeExecutionStack = <<[node |-> 1, data |-> <<<<1, 0, 1>>>>]>>
    /\ waitingExecution = <<>>
    /\ runData = [n \in Node |-> <<>>]
    /\ executionData = NoItem
    /\ disabled = {}
    /\ retried = FALSE
    /\ phase = "starting"
    /\ status = "running"
    /\ aborted = FALSE
    /\ result = "none"
    /\ reports = <<>>
    /\ checked = FALSE

-----------------------------------------------------------------------------
(* The workflow as a graph *)

Input == UNION {DOMAIN workflow.inputs[n] : n \in Node}

(* Connections from the outputs of node n. *)
connectionsBySourceNode(n) ==
    {c \in [output : Output, node : Node, input : Input] :
        c.input \in DOMAIN workflow.inputs[c.node] /\ <<n, c.output>> \in workflow.inputs[c.node][c.input]}

sources(n) == {c[1] : c \in UNION Range(workflow.inputs[n])}

(* Nodes from which n is reached. *)
getParentNodes(n) ==
    LET within[k \in 0 .. MaxNode] ==
            IF k = 0 THEN sources(n)
            ELSE LET near == within[k - 1] IN near \cup UNION {sources(p) : p \in near}
    IN  within[MaxNode]

(* With a destination only the nodes that lead to it are executed. *)
runNodeFilter ==
    IF workflow.destination = NoNode THEN Node
    ELSE getParentNodes(workflow.destination) \cup {workflow.destination}

-----------------------------------------------------------------------------
(* addNodeToBeExecuted *)

(* The entries of node n, a partial function from run indexes to data. *)
entriesOf(waiting, n) ==
    IF \E k \in 1 .. Len(waiting) : waiting[k].node = n
    THEN waiting[CHOOSE k \in 1 .. Len(waiting) : waiting[k].node = n].entries
    ELSE <<>>

(* Mutant: a node whose last entry is removed still waits. *)
withEntriesKept(waiting, n, entries) ==
    LET places == {k \in 1 .. Len(waiting) : waiting[k].node = n}
    IN  IF places = {} THEN Append(waiting, [node |-> n, entries |-> entries])
        ELSE [waiting EXCEPT ![CHOOSE k \in places : TRUE] = [node |-> n, entries |-> entries]]

(* A node keeps its place while it waits, and loses it with its last entry. *)
withEntries(waiting, n, entries) ==
    LET places == {k \in 1 .. Len(waiting) : waiting[k].node = n}
    IN  IF places = {} THEN Append(waiting, [node |-> n, entries |-> entries])
        ELSE LET k == CHOOSE k \in places : TRUE
             IN  IF DOMAIN entries = {} THEN RemoveAt(waiting, k)
                 ELSE [waiting EXCEPT ![k] = [node |-> n, entries |-> entries]]

without(entries, r) == [k \in (DOMAIN entries) \ {r} |-> entries[k]]

(***************************************************************************)
(* The data of output c.output goes to input c.input of node c.node.  A    *)
(* node with one input is put on the stack.  One with several gets the     *)
(* data into the first entry in which that input is empty, or else into an *)
(* entry whose index is the number of entries, and goes to the stack once  *)
(* the entry is complete.                                                  *)
(***************************************************************************)
addNodeToBeExecuted(s, c, data) ==
    LET inputs == DOMAIN workflow.inputs[c.node]
        entries == entriesOf(s.waiting, c.node)
        incomplete == {r \in DOMAIN entries : entries[r][c.input] = NoData}
        r == IF incomplete # {} THEN Min(incomplete) ELSE Cardinality(DOMAIN entries)
        entry == [i \in inputs |-> IF i = c.input THEN data
                                   ELSE IF incomplete # {} THEN entries[r][i] ELSE NoData]
    IN  IF Cardinality(inputs) = 1
        THEN [s EXCEPT !.stack = <<[node |-> c.node, data |-> <<data>>]>> \o @]
        ELSE IF \A i \in inputs : entry[i] # NoData
        THEN [stack |-> <<[node |-> c.node, data |-> entry]>> \o s.stack,
              waiting |-> withEntries(s.waiting, c.node, without(entries, r))]
        ELSE [s EXCEPT !.waiting =
                 withEntries(@, c.node, [k \in (DOMAIN entries) \cup {r} |->
                                            IF k = r THEN entry ELSE entries[k]])]

(* The order of nodesToAdd: bottom and right first, so that the node at    *)
(* the top left ends up on top of the stack.                               *)
before(c, d) ==
    LET p == workflow.position
    IN  \/ p[c.node] > p[d.node]
        \/ p[c.node] = p[d.node] /\ c.output < d.output
        \/ p[c.node] = p[d.node] /\ c.output = d.output /\ c.node < d.node
        \/ p[c.node] = p[d.node] /\ c.output = d.output /\ c.node = d.node /\ c.input < d.input

lastOf(cs) == CHOOSE c \in cs : \A d \in cs : ~before(c, d)

(* Run r of node n returned data on these outputs. *)
addNodes(s, n, r, outputs) ==
    LET nodesToAdd == {c \in connectionsBySourceNode(n) : c.output \in outputs}
        added[cs \in SUBSET nodesToAdd] ==
            IF cs = {} THEN s
            ELSE LET c == lastOf(cs)
                 IN  addNodeToBeExecuted(added[cs \ {c}], c, <<n, r, c.output>>)
    IN  added[nodesToAdd]

(***************************************************************************)
(* With the stack empty, the first node that waits, has the inputs it      *)
(* requires and depends on no other node that waits is executed with the   *)
(* data it has.                                                            *)
(***************************************************************************)
waitingNodes(s) == {s.waiting[k].node : k \in 1 .. Len(s.waiting)}

firstEntry(s, k) == Min(DOMAIN s.waiting[k].entries)

withData(data) == {i \in DOMAIN data : data[i] # NoData}

(* Mutant: a node is executed while another that it depends on waits. *)
mayExecuteEarly(s, k) ==
    LET n == s.waiting[k].node
        data == s.waiting[k].entries[firstEntry(s, k)]
    IN  workflow.required[n] \subseteq withData(data)

mayExecute(s, k) ==
    LET n == s.waiting[k].node
        data == s.waiting[k].entries[firstEntry(s, k)]
    IN  /\ workflow.required[n] \subseteq withData(data)
        /\ getParentNodes(n) \cap waitingNodes(s) = {}

nextWaiting(s) ==
    LET ready == {k \in 1 .. Len(s.waiting) : mayExecute(s, k)}
    IN  IF s.stack # <<>> \/ ready = {} THEN s
        ELSE LET k == Min(ready)
                 n == s.waiting[k].node
                 entries == s.waiting[k].entries
                 r == firstEntry(s, k)
             IN  [stack |-> <<[node |-> n, data |-> entries[r]]>>,
                  waiting |-> withEntries(s.waiting, n, without(entries, r))]

-----------------------------------------------------------------------------
(* processRunExecutionData *)

(* The hook workflowExecuteBefore has run. *)
Begin ==
    /\ phase = "starting"
    /\ phase' = "loop"
    /\ UNCHANGED <<workflow, nodeExecutionStack, waitingExecution, runData, executionData, disabled,
                   retried, status, aborted, result, reports, checked>>

(* The rejection is caught: the end is reported as an error, also after an *)
(* abort, and what this report throws is only logged.                      *)
catch ==
    /\ phase' = "closing"
    /\ result' = IF status = "canceled" THEN "canceled" ELSE "error"
    /\ reports' = Append(reports, [status |-> result', by |-> "catch"])

(***************************************************************************)
(* The hook workflowExecuteBefore fails: the results are replaced by a     *)
(* failed run of the next node.  There is none if the execution succeeded, *)
(* could not report it, and is retried.                                    *)
(***************************************************************************)
BeforeFails ==
    /\ workflow.interrupted
    /\ phase = "starting"
    /\ LET item == Head(nodeExecutionStack)
           run == [data |-> item.data, outputs |-> {}, executionStatus |-> "error", error |-> FALSE]
       IN  runData' = IF nodeExecutionStack = <<>> THEN runData
                      ELSE [n \in Node |-> IF n = item.node THEN <<run>> ELSE <<>>]
    /\ catch
    /\ UNCHANGED <<workflow, nodeExecutionStack, waitingExecution, executionData, disabled, retried,
                   status, aborted, checked>>

(* The loop takes the next node from the stack and skips it if it is not   *)
(* on the filter.                                                          *)
TakeNode ==
    /\ phase = "loop"
    /\ status # "canceled"
    /\ nodeExecutionStack # <<>>
    /\ LET item == Head(nodeExecutionStack)
       IN  /\ Len(runData[item.node]) < MaxRuns
           /\ IF item.node \in runNodeFilter
              THEN phase' = "node" /\ executionData' = item
              ELSE UNCHANGED <<phase, executionData>>
    /\ nodeExecutionStack' = Tail(nodeExecutionStack)
    /\ checked' = FALSE
    /\ UNCHANGED <<workflow, waitingExecution, runData, disabled, retried, status, aborted, result,
                   reports>>

(***************************************************************************)
(* runNode.  A disabled node passes on the data of its first input; a node *)
(* that failed succeeds when the execution is retried.                     *)
(***************************************************************************)
runNode(item) ==
    LET behaviours == workflow.behaviour[item.node]
        behaviour == behaviours[Min({Len(behaviours), Len(runData[item.node]) + 1})]
    IN  IF item.node \in disabled
        THEN [kind |-> "data", outputs |-> IF item.data[1] = NoData THEN {} ELSE {1}]
        ELSE IF behaviour.kind = "error" /\ retried THEN [behaviour EXCEPT !.kind = "data"]
        ELSE behaviour

record(outputs, executionStatus) ==
    runData' = [runData EXCEPT ![executionData.node] =
                   Append(@, [data |-> executionData.data, outputs |-> outputs,
                              executionStatus |-> executionStatus,
                              error |-> executionStatus = "error"])]

(* The node returns null: the branch ends. *)
NodeReturnsNull ==
    /\ phase = "node"
    /\ runNode(executionData).kind = "null"
    /\ phase' = "loop"
    /\ executionData' = NoItem
    /\ UNCHANGED <<workflow, nodeExecutionStack, waitingExecution, runData, disabled, retried, status,
                   aborted, result, reports, checked>>

(* The node returns data: the nodes that its outputs lead to are next,     *)
(* unless it is the destination.                                           *)
NodeReturnsData ==
    LET n == executionData.node
        outputs == runNode(executionData).outputs
        s == [stack |-> nodeExecutionStack, waiting |-> waitingExecution]
        t == nextWaiting(addNodes(s, n, Len(runData[n]) + 1, outputs))
    IN  /\ phase = "node"
        /\ runNode(executionData).kind = "data"
        /\ record(outputs, "success")
        /\ phase' = "loop"
        /\ executionData' = NoItem
        /\ IF n = workflow.destination
           THEN UNCHANGED <<nodeExecutionStack, waitingExecution, checked>>
           ELSE /\ nodeExecutionStack' = t.stack
                /\ waitingExecution' = t.waiting
                /\ checked' = TRUE
        /\ UNCHANGED <<workflow, disabled, retried, status, aborted, result, reports>>

(* Mutant: the status is taken for the abort signal. *)
processSuccessUnreported(outcome) ==
    /\ phase' = IF status = "canceled" THEN "closing" ELSE "reporting"
    /\ result' = IF status = "canceled" THEN "canceled" ELSE outcome
    /\ reports' = IF status = "canceled" THEN reports
                  ELSE Append(reports, [status |-> result', by |-> "loop"])

(***************************************************************************)
(* processSuccessExecution, up to the hook, which an abort has run before. *)
(* The run that is returned is made here.                                  *)
(***************************************************************************)
processSuccessExecution(outcome) ==
    /\ phase' = IF aborted THEN "closing" ELSE "reporting"
    /\ result' = IF status = "canceled" THEN "canceled" ELSE outcome
    /\ reports' = IF aborted THEN reports ELSE Append(reports, [status |-> result', by |-> "loop"])

(* Mutant: the node does not go back on the stack. *)
NodeStopsOffStack ==
    LET outcome == IF runNode(executionData).kind = "wait" THEN "waiting" ELSE "error"
    IN  /\ phase = "node"
        /\ runNode(executionData).kind \in {"error", "wait"}
        /\ record({}, outcome)
        /\ executionData' = NoItem
        /\ processSuccessExecution(outcome)
        /\ UNCHANGED <<workflow, nodeExecutionStack, waitingExecution, disabled, retried, status,
                       aborted, checked>>

(* The node fails, or puts the execution to wait: the loop ends, with the  *)
(* node back on the stack.                                                 *)
NodeStops ==
    LET outcome == IF runNode(executionData).kind = "wait" THEN "waiting" ELSE "error"
    IN  /\ phase = "node"
        /\ runNode(executionData).kind \in {"error", "wait"}
        /\ record({}, outcome)
        /\ nodeExecutionStack' = <<executionData>> \o nodeExecutionStack
        /\ executionData' = NoItem
        /\ processSuccessExecution(outcome)
        /\ UNCHANGED <<workflow, waitingExecution, disabled, retried, status, aborted, checked>>

(* The stack is empty or the execution is canceled. *)
LoopEnds ==
    /\ phase = "loop"
    /\ nodeExecutionStack = <<>> \/ status = "canceled"
    /\ processSuccessExecution("success")
    /\ UNCHANGED <<workflow, nodeExecutionStack, waitingExecution, runData, executionData, disabled,
                   retried, status, aborted, checked>>

(* The hook workflowExecuteAfter fails when it is run for the loop.        *)
AfterFails ==
    /\ workflow.interrupted
    /\ phase = "reporting"
    /\ catch
    /\ UNCHANGED <<workflow, nodeExecutionStack, waitingExecution, runData, executionData, disabled,
                   retried, status, aborted, checked>>

(* The hook workflowExecuteAfter and closeFunction are done. *)
Close ==
    /\ phase \in {"reporting", "closing"}
    /\ phase' = "done"
    /\ UNCHANGED <<workflow, nodeExecutionStack, waitingExecution, runData, executionData, disabled,
                   retried, status, aborted, result, reports, checked>>

(* The promise is canceled: the hook is run at once, the loop ends before  *)
(* the next node.  A run that was made already is returned as it is.       *)
Cancel ==
    /\ workflow.interrupted
    /\ phase # "done"
    /\ ~aborted
    /\ aborted' = TRUE
    /\ status' = "canceled"
    /\ reports' = Append(reports, [status |-> "canceled", by |-> "abort"])
    /\ UNCHANGED <<workflow, nodeExecutionStack, waitingExecution, runData, executionData, disabled,
                   retried, phase, result, checked>>

(* The loop finds that executionTimeoutTimestamp has passed. *)
Timeout ==
    /\ workflow.interrupted
    /\ phase = "loop"
    /\ nodeExecutionStack # <<>>
    /\ status = "running"
    /\ status' = "canceled"
    /\ UNCHANGED <<workflow, nodeExecutionStack, waitingExecution, runData, executionData, disabled,
                   retried, phase, aborted, result, reports, checked>>

(* A new instance goes on with the saved data. *)
goesOn(start) ==
    /\ phase = "done"
    /\ phase' = start
    /\ status' = "running"
    /\ aborted' = FALSE
    /\ result' = "none"
    /\ reports' = <<>>
    /\ UNCHANGED <<workflow, nodeExecutionStack, waitingExecution, executionData, checked>>

(* The execution waited: the node that put it to wait is disabled, its run *)
(* is taken back and the hook workflowExecuteBefore is not run again.      *)
Resume ==
    LET n == Head(nodeExecutionStack).node
    IN  /\ result = "waiting"
        /\ disabled' = disabled \cup {n}
        /\ runData' = [runData EXCEPT ![n] = Front(@)]
        /\ goesOn("loop")
        /\ UNCHANGED retried

(***************************************************************************)
(* The execution failed and is retried, once (a bound).  The failed run is *)
(* taken back if it holds an error, which one that BeforeFails recorded    *)
(* does not.  An execution that has waited or succeeded, and could not     *)
(* report it, goes on as it was left.                                      *)
(***************************************************************************)
Retry ==
    LET n == Head(nodeExecutionStack).node
        last == runData[n][Len(runData[n])]
        stopped == nodeExecutionStack # <<>>
        waited == stopped /\ last.executionStatus = "waiting"
    IN  /\ result = "error"
        /\ ~retried
        /\ retried' = TRUE
        /\ disabled' = IF waited THEN disabled \cup {n} ELSE disabled
        /\ runData' = IF waited \/ (stopped /\ last.error)
                      THEN [runData EXCEPT ![n] = Front(@)] ELSE runData
        /\ goesOn("starting")

Next ==
    \/ Begin \/ BeforeFails \/ TakeNode \/ NodeReturnsNull \/ NodeReturnsData \/ NodeStops
    \/ LoopEnds \/ AfterFails \/ Close \/ Cancel \/ Timeout \/ Resume \/ Retry

Spec == Init /\ [][Next]_vars

-----------------------------------------------------------------------------
(* Properties *)

(* Where datum d for connection c is held: on the stack, with a node that  *)
(* waits, by the node being executed or by one of its runs.                *)
holders(c, d) ==
    LET holds(n, ds) == n = c.node /\ c.input \in DOMAIN ds /\ ds[c.input] = d
    IN  {<<"stack", k>> : k \in {k \in DOMAIN nodeExecutionStack :
                holds(nodeExecutionStack[k].node, nodeExecutionStack[k].data)}}
        \cup (UNION {{<<"waiting", k, r>> : r \in {r \in DOMAIN waitingExecution[k].entries :
                holds(waitingExecution[k].node, waitingExecution[k].entries[r])}} :
                    k \in DOMAIN waitingExecution})
        \cup (IF holds(executionData.node, executionData.data) THEN {<<"node">>} ELSE {})
        \cup {<<"run", r>> : r \in {r \in DOMAIN runData[c.node] :
                /\ runData[c.node][r].executionStatus = "success"
                /\ holds(c.node, runData[c.node][r].data)}}

(* Nodes that take their data without a record. *)
consumes(n) ==
    n \notin runNodeFilter \/ \E b \in Range(workflow.behaviour[n]) : b.kind = "null"

DataIsAccountedFor ==
    \A n \in Node \ {workflow.destination} : \A r \in DOMAIN runData[n] :
        runData[n][r].executionStatus = "success" =>
            \A c \in connectionsBySourceNode(n) :
                c.output \in runData[n][r].outputs =>
                    LET held == holders(c, <<n, r, c.output>>)
                    IN  Cardinality(held) = 1 \/ (held = {} /\ consumes(c.node))

(* A node with several inputs has two, and at most one source of each,     *)
(* which has run at most twice.                                            *)
joinsRunTwice ==
    \A n \in Node : Len(workflow.inputs[n]) > 1 =>
        /\ Len(workflow.inputs[n]) = 2
        /\ \A i \in {1, 2} : \A c \in workflow.inputs[n][i] :
              Len(runData[c[1]]) <= 2 /\ workflow.inputs[n][i] = {c}

(***************************************************************************)
(* What a run returned is held exactly once for each node it goes to: on   *)
(* the stack, with a waiting node, by the node being executed or by one    *)
(* run of that node, whatever joins, waits, resumptions, failures, retries *)
(* and cancellations come between (addNodeToBeExecuted, the loop, and the  *)
(* stack that is saved and taken up again).  So it is while an input of a  *)
(* join gets no third datum; the third one may find the index of its entry *)
(* in use (see EntryIsKept).                                               *)
(***************************************************************************)
DataIsDelivered == joinsRunTwice => DataIsAccountedFor

(***************************************************************************)
(* "There is currently no node waiting that does not already have data for *)
(* the given input, so create a new entry": the entry of a node that waits *)
(* already is kept, also when an input of it has several sources.          *)
(***************************************************************************)
EntryIsKept == DataIsAccountedFor

(***************************************************************************)
(* Reference: which nodes of a workflow without cycles are executed, with  *)
(* which inputs, and which ones wait for ever, by the connections alone.   *)
(* A node that put the execution to wait passes on its first input.        *)
(***************************************************************************)
emitted(n, inputs) ==
    IF n \notin runNodeFilter \/ n = workflow.destination THEN {}
    ELSE IF workflow.behaviour[n][1].kind # "wait" THEN workflow.behaviour[n][1].outputs
    ELSE IF n = 1 \/ 1 \in inputs THEN {1} ELSE {}

fateOf(fate, n) ==
    LET arrives == {i \in DOMAIN workflow.inputs[n] :
                       \E c \in workflow.inputs[n][i] :
                           fate[c[1]].taken /\ c[2] \in emitted(c[1], fate[c[1]].inputs)}
        blocked == \/ workflow.required[n] \ arrives # {}
                   \/ \E p \in getParentNodes(n) : fate[p].waits
        complete == n = 1 \/ (arrives # {} /\ arrives = DOMAIN workflow.inputs[n])
    IN  [inputs |-> arrives,
         taken |-> complete \/ (arrives # {} /\ ~blocked),
         waits |-> arrives # {} /\ ~complete /\ blocked]

dataflow == LET fate[n \in Node] == fateOf(fate, n) IN fate

acyclic == \A n \in Node : n \notin getParentNodes(n)

oneSourcePerInput ==
    \A n \in Node : \A i \in DOMAIN workflow.inputs[n] : \A c, d \in workflow.inputs[n][i] : c = d

sameInEachRun == \A n \in Node : Len(workflow.behaviour[n]) = 1

(***************************************************************************)
(* An execution that ends with success, in whatever order the positions of *)
(* the nodes make it go, and with waits, failures and retries between, has *)
(* executed each node that data reaches exactly once, with all the inputs  *)
(* that ever get data, and leaves waiting only nodes that miss a required  *)
(* input or come after one that does (processRunExecutionData).  Not so    *)
(* when the last iteration was left before the check for waiting nodes.    *)
(***************************************************************************)
MatchesDataflow ==
    phase = "done" /\ result = "success" /\ checked
      /\ oneSourcePerInput /\ acyclic /\ sameInEachRun =>
        \A n \in Node :
            LET fate == dataflow[n]
                runs == {r \in DOMAIN runData[n] : runData[n][r].executionStatus = "success"}
            IN  /\ IF fate.taken /\ ~consumes(n)
                   THEN \E r \in runs :
                           runs = {r} /\ (n # 1 => withData(runData[n][r].data) = fate.inputs)
                   ELSE runs = {}
                /\ fate.waits <=> \E k \in DOMAIN waitingExecution : waitingExecution[k].node = n

(* Nothing but an abort reports after report k. *)
onlyAbortAfter(k) == \A j \in DOMAIN reports : j > k => reports[j].by = "abort"

(***************************************************************************)
(* The end of an execution is reported by workflowExecuteAfter on every    *)
(* path out of the loop.  The run that is returned has the status that was *)
(* reported last, but for an abort that comes after the run was made.  The *)
(* loop, an abort and the handler of rejections report once each: the loop *)
(* not after an abort ("Prevent from running the hook if the error is an   *)
(* abort error as it was already handled"), nor after the handler, which   *)
(* reports again what the loop could not, and also after an abort.         *)
(***************************************************************************)
EndIsReported ==
    /\ phase = "done" => \E k \in DOMAIN reports : reports[k].status = result /\ onlyAbortAfter(k)
    /\ \A j, k \in DOMAIN reports : j < k =>
          /\ reports[j].by # reports[k].by
          /\ reports[k].by # "loop"
          /\ reports[j].by = "catch" => reports[k].by = "abort"

=============================================================================
