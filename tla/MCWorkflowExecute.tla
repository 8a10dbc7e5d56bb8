------------------------- MODULE MCWorkflowExecute -------------------------
(* Instances of WorkflowExecute for TLC: workflows of up to six nodes. *)
EXTENDS WorkflowExecute

one(c) == <<{c}>>
two(c, d) == <<{c}, {d}>>
pairs(cs) == {two(c, d) : c \in cs, d \in cs}

returns(outputs) == <<[kind |-> "data", outputs |-> outputs]>>
waits == <<[kind |-> "wait", outputs |-> {}]>>
null == <<[kind |-> "null", outputs |-> {}]>>
fails == <<[kind |-> "error", outputs |-> {1}]>>
loops == returns({1}) \o returns({2})

(* The node at the top comes first, or last. *)
down == <<1, 2, 3, 4, 5>>
up == <<5, 4, 3, 2, 1>>

optional == <<{}, {}, {}, {}, {}>>

(***************************************************************************)
(* Four nodes: node 2 follows node 1, node 3 has one input or two and node *)
(* 4 has two, from any of the nodes before it; one input of node 3 may be  *)
(* left unconnected.                                                       *)
(***************************************************************************)
joins ==
    [inputs : {<<<<>>, one(<<1, 1>>), x, y, <<>>>> :
                  x \in {one(<<2, 1>>), one(<<2, 2>>), two(<<1, 1>>, <<2, 1>>),
                         two(<<2, 2>>, <<1, 1>>), two(<<2, 1>>, <<2, 2>>), <<{}, {<<2, 1>>}>>},
                  y \in pairs({<<1, 1>>, <<2, 1>>, <<2, 2>>, <<3, 1>>})},
     required : {optional, <<{}, {}, {1, 2}, {}, {}>>, <<{}, {}, {}, {2}, {}>>},
     position : {down, up},
     behaviour : {<<returns({1}), x, y, returns({}), returns({})>> :
                     x \in {returns({}), returns({1}), returns({1, 2}), waits, null},
                     y \in {returns({}), returns({1}), fails}},
     destination : {NoNode},
     interrupted : {FALSE}]

(***************************************************************************)
(* Five nodes: nodes 2 and 3 follow node 1, nodes 4 and 5 join; an         *)
(* execution goes to the end or to a destination, and may be canceled.     *)
(***************************************************************************)
chains ==
    [inputs : {<<<<>>, one(<<1, 1>>), one(<<1, 1>>), x, y>> :
                  x \in {two(<<2, 1>>, <<3, 1>>), two(<<3, 1>>, <<1, 1>>)},
                  y \in {two(<<4, 1>>, <<1, 1>>), two(<<2, 1>>, <<4, 1>>), two(<<2, 1>>, <<3, 1>>)}},
     required : {optional, <<{}, {}, {}, {1, 2}, {}>>},
     position : {down, up},
     behaviour : {<<returns({1}), x, y, z, returns({})>> :
                     x \in {returns({1}), fails, null}, y \in {returns({}), returns({1}), waits},
                     z \in {returns({1}), fails}},
     destination : {NoNode, 4, 5},
     interrupted : BOOLEAN]

(* A loop of nodes 2 and 3, whose end or whose start goes to a join. *)
cycles ==
    [inputs : {<<<<>>, <<{<<1, 1>>, <<3, 1>>}>>, one(<<2, 1>>), two(x, y), one(<<4, 1>>)>> :
                  x \in {<<2, 2>>, <<3, 1>>}, y \in {<<1, 1>>, <<2, 1>>, <<2, 2>>}},
     required : {optional},
     position : {down, up},
     behaviour : {<<returns({1}), loops, x, returns({1}), returns({})>> :
                     x \in {returns({1}), waits, fails}},
     destination : {NoNode, 5},
     interrupted : {FALSE}]

MCWorkflow == joins \cup chains \cup cycles

(***************************************************************************)
(* Node 1 leads to nodes 2 to 5; all but node 4 lead to the first input of *)
(* node 6 and node 4 leads to the second.                                  *)
(***************************************************************************)
FanInWorkflow ==
    [inputs : {<<<<>>, one(<<1, 1>>), one(<<1, 1>>), one(<<1, 1>>), one(<<1, 1>>),
                 <<{<<2, 1>>, <<3, 1>>, <<5, 1>>}, {<<4, 1>>}>>>>},
     required : {<<{}, {}, {}, {}, {}, {}>>},
     position : [1 .. 6 -> 1 .. 3],
     behaviour : {[n \in 1 .. 6 |-> returns({1})]},
     destination : {NoNode},
     interrupted : {FALSE}]

=============================================================================
