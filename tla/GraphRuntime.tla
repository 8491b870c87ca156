---------------------------- MODULE GraphRuntime ----------------------------
(***************************************************************************)
(* The executor: a CvmRuntime that has been initialised and set up         *)
(* (src/runtime/graph_runtime.cc), driven by CVMAPILoadModel and by the    *)
(* CVMModel::Run of CVMAPIInference (src/core/c_api.cc, src/core/model.cc). *)
(* Every entry is a view of the storage the plan gives it, and storages    *)
(* are shared; one step is one parameter, one operator or one output.      *)
(* The plan is any that the compiler may have made; GraphCompile shows     *)
(* that those of PlanMemory are of this kind.  A tensor is one number.     *)
(***************************************************************************)
EXTENDS MemoryPlan

CONSTANTS
  Graphs,         (* the graphs of the models that may be loaded            *)
  DataNode,       (* the variable named "data"                              *)
  Data,           (* the values a blob or a caller may hold                 *)
  range,          (* 2^(precision - 1) - 1, of every variable               *)
  MaxParams,      (* how many tensors a parameter blob may hold             *)
  Unset,          (* history: the content of an entry not yet written       *)
  Garbage,        (* memory that was never written, or only half written    *)
  Kernel(_, _)    (* the value of an entry, from its node's arguments       *)

ASSUME DataAssumption ==
  /\ \A gr \in Graphs :
       /\ WellFormed(gr) /\ VariablesHaveOneOutput(gr) /\ DataNode \in gr.variables
       /\ \A n \in Nodes(gr) : gr.ignored[n] = {}   (* FIgnoreInputs is not registered *)
  /\ range \in Nat /\ MaxParams \in Nat /\ Data \subseteq Int
  /\ Unset \in Int /\ Garbage \in Int /\ Unset \notin -range .. range

VARIABLES
  g,             (* the loaded graph                                        *)
  storage_id,    (* its storage plan                                        *)
  pc,            (* what the model is doing: load, ready, run or rejected   *)
  loaded,        (* how many tensors of the blob have been loaded           *)
  set_flag,      (* the variables whose set_flag LoadParams has raised      *)
  mem,           (* storage_pool_, which data_entry_ views                  *)
  nid,           (* the operator in turn, num_nodes after the last          *)
  answer,        (* the outputs copied to the caller so far                 *)
  cell           (* history: the value last written to each entry           *)

model == <<g, storage_id>>
vars == <<model, pc, loaded, set_flag, mem, nid, answer, cell>>

-----------------------------------------------------------------------------
Operators == Nodes(g) \ g.variables
Variable(n) == CHOOSE e \in Entries(g) : g.source[e] = n
Storages == {storage_id[e] : e \in Entries(g)}

(* data_entry_[eid], for every eid: a view of storage_pool_.               *)
data_entry_ == [e \in Entries(g) |-> mem[storage_id[e]]]

Fits(x) == -range <= x /\ x <= range

Clamp(x) == IF x > range THEN range ELSE IF x < -range THEN -range ELSE x

(* The operators whose kernel may overwrite its argument (reused_ops).     *)
ReusedOps(gr) == {n \in Nodes(gr) : gr.inplace[n] # <<>>}

(* A plan that the compiler may emit, made from one that PlanMemory may.   *)
(* Storages are numbered in the order of their first entries: plans that   *)
(* differ by the numbering alone behave alike.                             *)
CompiledPlans(gr) ==
  LET raw == [Entries(gr) -> -1 .. Cardinality(OpEntries(gr)) - 1]
      Safe(sid) ==
        /\ \A e \in VariableEntries(gr) : sid[e] = -1
        /\ \A e \in OpEntries(gr) :
             sid[e] \in 0 .. Cardinality({sid[d] : d \in {x \in OpEntries(gr) : x < e}})
        /\ SafeStorage(gr, sid, [e \in Entries(gr) |-> e])
  IN {DecorateMemoryPlan(gr, sid) : sid \in {s \in raw : Safe(s)}}

Init ==
  /\ g \in Graphs
  /\ storage_id \in {sid \in CompiledPlans(g) : PassesReuseCheck(g, sid, ReusedOps(g))}
  /\ pc = "load"
  /\ loaded = 0
  /\ set_flag = {}
  /\ mem = [s \in Storages |-> Garbage]
  /\ nid = 0
  /\ answer = <<>>
  /\ cell = [e \in Entries(g) |-> Unset]

-----------------------------------------------------------------------------
(* CVMAPILoadModel: LoadParams.                                            *)

(* SetInput, past its checks: store x in the variable v.                   *)
StoreInput(v, x, written) ==
  /\ mem' = [mem EXCEPT ![storage_id[Variable(v)]] = x]
  /\ cell' = [written EXCEPT ![Variable(v)] = x]

(* The next tensor of the blob is named like the variable v.  Data is      *)
(* clamped to the precision, a parameter has to fit it.                    *)
LoadParam(v, x) ==
  /\ pc = "load" /\ loaded < MaxParams
  /\ v # DataNode => Fits(x)
  /\ loaded' = loaded + 1
  /\ set_flag' = set_flag \cup {v}
  /\ StoreInput(v, Clamp(x), cell)
  /\ UNCHANGED <<model, pc, nid, answer>>

(* A parameter that does not fit, or a name GetInputIndex does not find:   *)
(* the load fails, and CVMAPILoadModel hands out no model.                 *)
LoadThrows ==
  /\ pc = "load" /\ loaded < MaxParams
  /\ pc' = "rejected"
  /\ UNCHANGED <<model, loaded, set_flag, mem, nid, answer, cell>>

ParamsLoaded == g.variables \ {DataNode} \subseteq set_flag

(* The end of the blob.                                                    *)
LoadParamsDone ==
  /\ pc = "load"
  /\ pc' = IF ParamsLoaded THEN "ready" ELSE "rejected"
  /\ UNCHANGED <<model, loaded, set_flag, mem, nid, answer, cell>>

-----------------------------------------------------------------------------
(* CVMAPIInference: CVMModel::Run.                                         *)

(* SetInput_("data", input).                                               *)
SetInput(d) ==
  /\ pc = "ready"
  /\ pc' = "run"
  /\ nid' = 0
  /\ answer' = <<>>
  /\ StoreInput(DataNode, Clamp(d),
                [e \in Entries(g) |-> IF e \in OpEntries(g) THEN Unset ELSE cell[e]])
  /\ UNCHANGED <<model, loaded, set_flag>>

(* Mutant: a variable does not pass the turn on.                           *)
SkipVariableStays ==
  /\ pc = "run" /\ nid \in g.variables
  /\ nid' = nid
  /\ UNCHANGED <<model, pc, loaded, set_flag, mem, answer, cell>>

(* op_execs_[nid] is empty.                                                *)
SkipVariable ==
  /\ pc = "run" /\ nid \in g.variables
  /\ nid' = nid + 1
  /\ UNCHANGED <<model, pc, loaded, set_flag, mem, answer, cell>>

Arguments == [i \in InputPositions(g, nid) |-> data_entry_[g.inputs[nid][i]]]

(* An output that overwrites an argument comes out right only where the    *)
(* kernel can work in place; and two outputs in one storage spoil it.      *)
Spoiled(o) ==
  \/ \E i \in InputPositions(g, nid) :
       /\ storage_id[g.inputs[nid][i]] = storage_id[o]
       /\ ~ \E p \in DOMAIN g.inplace[nid] :
              g.inplace[nid][p].in = i /\ g.inplace[nid][p].out = o
  \/ \E q \in OutputsOf(g, nid) \ {o} : storage_id[q] = storage_id[o]

Results == [o \in OutputsOf(g, nid) |-> Kernel(o, Arguments)]

WriteOutputs ==
  mem' = [s \in Storages |->
            LET out == {o \in OutputsOf(g, nid) : storage_id[o] = s}
            IN IF out = {} THEN mem[s]
               ELSE LET o == CHOOSE o \in out : TRUE
                    IN IF Spoiled(o) THEN Garbage ELSE Results[o]]

(* op_execs_[nid](): the kernel reads and writes the views.                *)
RunOp ==
  /\ pc = "run" /\ nid \in Operators
  /\ WriteOutputs
  /\ cell' = [e \in Entries(g) |-> IF e \in OutputsOf(g, nid) THEN Results[e] ELSE cell[e]]
  /\ nid' = nid + 1
  /\ UNCHANGED <<model, pc, loaded, set_flag, answer>>

(* The kernel throws when it has written some of its outputs or none: the  *)
(* call returns an error code, and the model stays as it is.               *)
FailOp(partly) ==
  /\ pc = "run" /\ nid \in Operators
  /\ partly \subseteq {storage_id[o] : o \in OutputsOf(g, nid)}
  /\ mem' = [s \in Storages |-> IF s \in partly THEN Garbage ELSE mem[s]]
  /\ pc' = "ready"
  /\ UNCHANGED <<model, loaded, set_flag, nid, answer, cell>>

(* Mutant: the index of an output is taken for its entry id.               *)
CopyOutputToByIndex ==
  /\ pc = "run" /\ nid = g.num_nodes
  /\ Len(answer) < Len(g.outputs)
  /\ answer' = Append(answer, data_entry_[Len(answer) + 1])
  /\ UNCHANGED <<model, pc, loaded, set_flag, mem, nid, cell>>

(* GetOutput_(i, outputs[i]), for the next i.                              *)
CopyOutputTo ==
  /\ pc = "run" /\ nid = g.num_nodes
  /\ Len(answer) < Len(g.outputs)
  /\ answer' = Append(answer, data_entry_[g.outputs[Len(answer) + 1]])
  /\ UNCHANGED <<model, pc, loaded, set_flag, mem, nid, cell>>

Return ==
  /\ pc = "run" /\ nid = g.num_nodes /\ Len(answer) = Len(g.outputs)
  /\ pc' = "ready"
  /\ UNCHANGED <<model, loaded, set_flag, mem, nid, answer, cell>>

-----------------------------------------------------------------------------
Load ==
  \/ \E v \in g.variables, x \in Data : LoadParam(v, x)
  \/ LoadThrows
  \/ LoadParamsDone

Run ==
  \/ SkipVariable
  \/ RunOp
  \/ \E partly \in SUBSET Storages : FailOp(partly)
  \/ CopyOutputTo
  \/ Return

Next == Load \/ (\E d \in Data : SetInput(d)) \/ Run

(* A call runs to its end: Run is a loop of the calling thread.            *)
Spec == Init /\ [][Next]_vars /\ WF_vars(Run)

-----------------------------------------------------------------------------
(* The type invariant: the executor's state has its shape, and the loop of *)
(* Run never passes the last operator.                                     *)
TypeOK ==
  /\ pc \in {"load", "ready", "run", "rejected"}
  /\ loaded \in 0 .. MaxParams
  /\ set_flag \subseteq g.variables
  /\ storage_id \in [Entries(g) -> Nat]
  /\ DOMAIN mem = Storages
  /\ nid \in 0 .. g.num_nodes
  /\ answer \in Seq({answer[k] : k \in DOMAIN answer})
  /\ DOMAIN cell = Entries(g)

(* While a call runs, every entry that has been computed and that an       *)
(* operator to come or the caller will still read holds its value, however *)
(* the plan shares storage and whatever an earlier, failed call left.      *)
ReadsIntact ==
  pc = "run" =>
    \A e \in Entries(g) :
      /\ g.source[e] < nid
      /\ \E u \in Uses(g, e) : u[1] >= nid
      => data_entry_[e] = cell[e]

(* Once a model has been handed out, every parameter is there, fits its    *)
(* precision, and is untouched by every call, finished or failed: no       *)
(* operator's output ever lies in a parameter's storage.                   *)
ParamsSurvive ==
  pc \in {"ready", "run"} =>
    \A v \in g.variables \ {DataNode} :
      Fits(cell[Variable(v)]) /\ data_entry_[Variable(v)] = cell[Variable(v)]

-----------------------------------------------------------------------------
(* The inductive invariant behind both.  The plan is one that the compiler *)
(* may emit, for which the memory was laid out.                            *)
PlanSound ==
  SafeStorage(g, storage_id, [e \in Entries(g) |-> e]) /\ VariablesAlone(g, storage_id)

(* What has been stored in a variable is there, while the model is loaded  *)
(* and ever after; data, while a call runs.                                *)
InputsHeld ==
  \A v \in g.variables :
    /\ v \in set_flag \/ (v = DataNode /\ pc = "run")
         => data_entry_[Variable(v)] = cell[Variable(v)]
    /\ v \in set_flag \ {DataNode} => Fits(cell[Variable(v)])

UsableIsLoaded == pc \in {"ready", "run"} => ParamsLoaded

RuntimeInv == TypeOK /\ PlanSound /\ InputsHeld /\ UsableIsLoaded /\ ReadsIntact

-----------------------------------------------------------------------------
(* The executor implements dataflow with unshared cells: every answer is   *)
(* that of the graph, for this call's data and the loaded parameters.      *)
Abstract == INSTANCE Dataflow WITH done <- {n \in Operators : n < nid}
ImplementsDataflow == Abstract!Spec

(* Every call returns, to a caller that waits, an answer or an error.      *)
EveryCallReturns == pc = "run" ~> pc = "ready"
=============================================================================
