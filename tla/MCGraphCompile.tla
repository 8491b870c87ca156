--------------------------- MODULE MCGraphCompile ---------------------------
(***************************************************************************)
(* GraphCompile on graphs of data, a parameter and four operators.         *)
(***************************************************************************)
EXTENDS GraphCompile, SequencesExt

(* Nodes 0 and 2 are variables: a parameter need not precede operators.    *)
CompileGraphs ==
  {[num_nodes |-> 6, num_entries |-> 7,
    source |-> [e \in 0 .. 6 |-> IF e <= 3 THEN e ELSE IF e = 4 THEN 3 ELSE e - 1],
    variables |-> {0, 2},
    inputs |-> [n \in 0 .. 5 |-> <<<<>>, <<0>>, <<>>, a3, a4, a5>>[n + 1]],
    outputs |-> heads,
    ignored |-> [n \in 0 .. 5 |-> {}], inplace |-> [n \in 0 .. 5 |-> <<>>],
    size |-> [e \in 0 .. 6 |-> IF e \in DOMAIN sizes THEN sizes[e] ELSE 1],
    shapeless |-> shapeless,
    device |-> [n \in 0 .. 5 |-> 0], color |-> [n \in 0 .. 5 |-> 0]] :
     a3 \in {<<1>>, <<1, 2>>, <<1, 1>>}, a4 \in {<<3>>, <<3, 4>>, <<4, 1>>},
     a5 \in {<<5>>, <<5, 2>>, <<5, 1>>, <<5, 0>>},
     heads \in {<<6>>, <<6, 5>>, <<6, 1>>},
     sizes \in {<<1, 2, 1, 2, 1, 4>>, <<4, 1, 2, 1, 2, 1>>, <<1, 1, 4, 4, 1, 1>>},
     shapeless \in {{}, {4}}}
=============================================================================
