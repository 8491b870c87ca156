----------------------------- MODULE MemoryPlan -----------------------------
(***************************************************************************)
(* What the compiler and the runtime do to a storage plan on its way from  *)
(* PlanMemory to the executor: DecorateMemoryPlan gives every variable a   *)
(* storage of its own (src/compiler/graph_compile.cc), and the runtime     *)
(* checks the plan it loads (src/runtime/graph_runtime.cc).                *)
(***************************************************************************)
EXTENDS CvmGraph

VariableEntries(gr) == {e \in Entries(gr) : gr.source[e] \in gr.variables}
OpEntries(gr) == Entries(gr) \ VariableEntries(gr)

(* Node::num_outputs: a variable has one output.                           *)
VariablesHaveOneOutput(gr) ==
  /\ gr.variables \subseteq Nodes(gr)
  /\ \A n \in gr.variables : \E e \in Entries(gr) : OutputsOf(gr, n) = {e}

(* max_id: one more than the largest storage id, and at least zero.        *)
MaxId(gr, sid) ==
  CHOOSE m \in {0} \cup {sid[e] + 1 : e \in Entries(gr)} :
    m >= 0 /\ \A e \in Entries(gr) : sid[e] < m

(* Mutants: max_id is not advanced from one variable to the next; it is    *)
(* the largest storage id itself.                                          *)
DecorateSharesVariables(gr, sid) ==
  [e \in Entries(gr) |->
     IF e \in VariableEntries(gr) THEN MaxId(gr, sid) ELSE sid[e]]
DecorateOffByOne(gr, sid) ==
  [e \in Entries(gr) |->
     IF e \in VariableEntries(gr)
     THEN MaxId(gr, sid) - 1 + Cardinality({v \in gr.variables : v < gr.source[e]})
     ELSE sid[e]]

(* Every variable, in the order of input_nodes, gets the next max_id.      *)
DecorateMemoryPlan(gr, sid) ==
  [e \in Entries(gr) |->
     IF e \in VariableEntries(gr)
     THEN MaxId(gr, sid) + Cardinality({v \in gr.variables : v < gr.source[e]})
     ELSE sid[e]]

(* PrepareGraphWithVersion: every entry has a storage, and an operator     *)
(* that is not one of reused_ops writes to none of its arguments'.         *)
PassesReuseCheck(gr, sid, reused_ops) ==
  /\ \A e \in Entries(gr) : sid[e] >= 0
  /\ \A n \in Nodes(gr) \ (gr.variables \cup reused_ops) :
       \A o \in OutputsOf(gr, n), i \in InputPositions(gr, n) :
         sid[o] # sid[gr.inputs[n][i]]

(* No operator ever writes to the storage of a variable.                   *)
VariablesAlone(gr, sid) ==
  \A v \in VariableEntries(gr), e \in Entries(gr) : v # e => sid[v] # sid[e]
=============================================================================
