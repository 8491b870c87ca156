--------------------------- MODULE MCGraphRuntime ---------------------------
(***************************************************************************)
(* GraphRuntime on three small graphs, with every storage plan that        *)
(* the compiler may give them.                                             *)
(***************************************************************************)
EXTENDS GraphRuntime, SequencesExt

(* The attributes the executor does not read are the same for all.         *)
Graph(n, m, source, variables, inputs, inplace, outputs) ==
  [num_nodes |-> n, num_entries |-> m, source |-> source,
   variables |-> variables, inputs |-> inputs, outputs |-> outputs,
   ignored |-> [i \in 0 .. n - 1 |-> {}], inplace |-> inplace,
   size |-> [e \in 0 .. m - 1 |-> 1], shapeless |-> {},
   device |-> [i \in 0 .. n - 1 |-> 0], color |-> [i \in 0 .. n - 1 |-> 0]]

NoInplace(n) == [i \in 0 .. n - 1 |-> <<>>]

(* A chain whose last operator reads data and a parameter again.           *)
Chain == Graph(6, 6, [e \in 0 .. 5 |-> e], {0, 1},
  (0 :> <<>> @@ 1 :> <<>> @@ 2 :> <<0, 1>> @@ 3 :> <<2>> @@ 4 :> <<3>> @@ 5 :> <<4, 0, 1>>),
  NoInplace(6), <<5>>)

(* A diamond, and an operator with two outputs of which one is not read;   *)
(* a head is also read by an operator, and heads are out of order.         *)
Diamond == Graph(6, 7, (0 :> 0 @@ 1 :> 1 @@ 2 :> 2 @@ 3 :> 2 @@ 4 :> 3 @@ 5 :> 4 @@ 6 :> 5),
  {0, 1},
  (0 :> <<>> @@ 1 :> <<>> @@ 2 :> <<0>> @@ 3 :> <<2, 1>> @@ 4 :> <<2>> @@ 5 :> <<4, 5>>),
  NoInplace(6), <<6, 4>>)

(* Operators that may work in place, one on an argument with two readers;  *)
(* the parameter comes after the first operator.                           *)
Inplace == Graph(6, 6, [e \in 0 .. 5 |-> e], {0, 2},
  (0 :> <<>> @@ 1 :> <<0>> @@ 2 :> <<>> @@ 3 :> <<1, 2>> @@ 4 :> <<1, 3>> @@ 5 :> <<4>>),
  [i \in 0 .. 5 |->
     IF i \in {3, 4} THEN <<[in |-> 1, out |-> i, identity |-> FALSE]>>
     ELSE IF i = 5 THEN <<[in |-> 1, out |-> i, identity |-> TRUE]>> ELSE <<>>],
  <<5>>)

RuntimeGraphs == {Chain, Diamond, Inplace}

DataValues == {-3, 1, 2}
UnsetCell == -1001
GarbageCell == -1002

(* A value that tells apart entries, arguments and their order.            *)
Hash(e, args) == FoldLeft(LAMBDA acc, x : (acc * 31 + x + 7) % 1009, e, args)
=============================================================================
