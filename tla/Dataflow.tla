------------------------------ MODULE Dataflow ------------------------------
(***************************************************************************)
(* What a loaded model promises its caller: an inference answers with the  *)
(* values that the graph's heads have when every operator is applied, in   *)
(* any order its arguments allow, to the parameters and to this call's     *)
(* data.  Every entry has a cell of its own: nothing is shared, nothing    *)
(* survives from an earlier inference but the parameters.                  *)
(***************************************************************************)
EXTENDS CvmGraph

CONSTANTS
  Graphs,         (* the graphs of the models that may be loaded            *)
  DataNode,       (* the variable named "data"                              *)
  Data,           (* the values a blob or a caller may hold                 *)
  range,          (* the largest value that fits a variable's precision     *)
  Unset,          (* the content of a cell that has not been written        *)
  Kernel(_, _)    (* the value of an entry, from its node's arguments       *)

VARIABLES g, pc, cell, done, answer

Variable(n) == CHOOSE e \in Entries(g) : g.source[e] = n
Fits(x) == -range <= x /\ x <= range
Clamp(x) == IF x > range THEN range ELSE IF x < -range THEN -range ELSE x
Arguments(c, n) == [i \in InputPositions(g, n) |-> c[g.inputs[n][i]]]
Operators == Nodes(g) \ g.variables

Init ==
  /\ g \in Graphs
  /\ pc = "load"
  /\ cell = [e \in Entries(g) |-> Unset]
  /\ done = {}
  /\ answer = <<>>

(* A parameter must fit its precision; data is clamped to it.              *)
LoadParam(v, x) ==
  /\ pc = "load"
  /\ v # DataNode => Fits(x)
  /\ cell' = [cell EXCEPT ![Variable(v)] = Clamp(x)]
  /\ UNCHANGED <<g, pc, done, answer>>

(* A model is usable only when every parameter has been loaded.            *)
Loaded ==
  /\ pc = "load"
  /\ \A v \in g.variables \ {DataNode} : cell[Variable(v)] # Unset
  /\ pc' = "ready"
  /\ UNCHANGED <<g, cell, done, answer>>

Rejected ==
  /\ pc = "load"
  /\ pc' = "rejected"
  /\ UNCHANGED <<g, cell, done, answer>>

Request(d) ==
  /\ pc = "ready"
  /\ pc' = "run"
  /\ cell' = [e \in Entries(g) |->
                IF e = Variable(DataNode) THEN Clamp(d)
                ELSE IF g.source[e] \in g.variables THEN cell[e] ELSE Unset]
  /\ done' = {} /\ answer' = <<>>
  /\ UNCHANGED g

Compute(n) ==
  /\ pc = "run"
  /\ n \in Operators \ done
  /\ \A i \in InputPositions(g, n) : g.source[g.inputs[n][i]] \in g.variables \cup done
  /\ cell' = [e \in Entries(g) |->
                IF e \in OutputsOf(g, n) THEN Kernel(e, Arguments(cell, n)) ELSE cell[e]]
  /\ done' = done \cup {n}
  /\ UNCHANGED <<g, pc, answer>>

GetOutput ==
  /\ pc = "run" /\ done = Operators
  /\ Len(answer) < Len(g.outputs)
  /\ answer' = Append(answer, cell[g.outputs[Len(answer) + 1]])
  /\ UNCHANGED <<g, pc, cell, done>>

Answered ==
  /\ pc = "run" /\ Len(answer) = Len(g.outputs)
  /\ pc' = "ready"
  /\ UNCHANGED <<g, cell, done, answer>>

(* An operator may fail; the call then has no answer.                      *)
Fail ==
  /\ pc = "run" /\ done # Operators
  /\ pc' = "ready"
  /\ UNCHANGED <<g, cell, done, answer>>

Next ==
  \/ \E v \in g.variables, x \in Data : LoadParam(v, x)
  \/ Loaded \/ Rejected
  \/ \E d \in Data : Request(d)
  \/ \E n \in Operators : Compute(n)
  \/ GetOutput \/ Answered \/ Fail

Spec == Init /\ [][Next]_<<g, pc, cell, done, answer>>
=============================================================================
