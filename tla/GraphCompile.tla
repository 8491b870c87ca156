---------------------------- MODULE GraphCompile ----------------------------
(***************************************************************************)
(* The end of GraphCompile (src/compiler/graph_compile.cc): PlanMemory on  *)
(* the graph of cvm_op nodes, then DecorateMemoryPlan, which refuses a     *)
(* plan that leaves an operator's output without a storage; and what the   *)
(* runtime makes of the plan when it loads it: the checks of               *)
(* PrepareGraphWithVersion and the pool of PlanStorage.                    *)
(***************************************************************************)
EXTENDS PlanMemory, MemoryPlan

(* cvm_op, which every operator is replaced by, registers no in-place      *)
(* option and ignores no input.                                            *)
ASSUME CvmOpAssumption ==
  \A gr \in Graphs :
    /\ VariablesHaveOneOutput(gr)
    /\ \A n \in Nodes(gr) : gr.inplace[n] = <<>> /\ gr.ignored[n] = {}

VARIABLES
  status,       (* planning, compiled or refused                            *)
  storage_id    (* the emitted attribute; nothing is emitted before the end *)

compileVars == <<vars, status, storage_id>>

CompileInit ==
  /\ Init
  /\ status = "planning"
  /\ storage_id = PerEntry(g, kBadStorageID)

ApplyPlanMemory ==
  /\ status = "planning" /\ pc # "done"
  /\ Next
  /\ UNCHANGED <<status, storage_id>>

(* The pass published a plan, and it allocates every operator's output.    *)
ApplyDecorate ==
  /\ status = "planning" /\ pc = "done"
  /\ \E p \in best :
       /\ p.not_allocated = 0
       /\ storage_id' = DecorateMemoryPlan(g, p.storage_id)
  /\ status' = "compiled"
  /\ UNCHANGED vars

(* MoveCopyAttr or CHECK_EQ(num_not_allocated, 0U) throws.                 *)
RefusePlan ==
  /\ status = "planning" /\ pc = "done"
  /\ \A p \in best : p.not_allocated # 0
  /\ status' = "refused"
  /\ UNCHANGED <<vars, storage_id>>

Finished == status # "planning" /\ UNCHANGED compileVars

CompileNext == ApplyPlanMemory \/ ApplyDecorate \/ RefusePlan \/ Finished

CompileSpec == CompileInit /\ [][CompileNext]_compileVars
FairCompileSpec == CompileSpec /\ WF_compileVars(CompileNext)

-----------------------------------------------------------------------------
(* CvmRuntime::PlanStorage and GetStorageSize, for the emitted plan.  The  *)
(* sum is a query: it changes nothing, and its check against MAX_STORAGE   *)
(* (2^32 bytes) makes it throw instead of answering.  The check is left    *)
(* out; GetStorageSize is the answer where there is one.                   *)

(* pool_entry[sid].size: the largest of the entries that share the storage *)
PoolEntrySize(sid, s) ==
  LET bytes == {Bytes(e) : e \in {e \in Entries(g) : sid[e] = s}}
  IN CHOOSE b \in bytes : \A c \in bytes : c <= b

PoolSize(sid, sids) == SumFunctionOnSet([s \in sids |-> PoolEntrySize(sid, s)], sids)

GetStorageSize == PoolSize(storage_id, {storage_id[e] : e \in Entries(g)})

-----------------------------------------------------------------------------
(* Every plan that is emitted runs: no operator overwrites what is still   *)
(* to be read, not even its own arguments; parameters lie where no         *)
(* operator ever writes; and the runtime's reuse check accepts it, for     *)
(* operators that may not share storage with their arguments as well.      *)
CompiledPlanRuns ==
  status = "compiled" =>
    /\ SafeStorage(g, storage_id, [e \in Entries(g) |-> e])
    /\ VariablesAlone(g, storage_id)
    /\ PassesReuseCheck(g, storage_id, {})

(* The inductive invariant behind CompiledPlanRuns: the planner's own;     *)
(* without in-place identities every entry holds its own value; a round    *)
(* that has counted no missing storage has given every output it has swept *)
(* one; and the same of the plan that the pass publishes.                  *)
OwnValue == [e \in Entries(g) |-> e]

AllocatedSoFar ==
  num_not_allocated = 0 => \A e \in OpEntries(g) : Swept(e) => storage[e] >= 0

PublishedPlanComplete ==
  \A p \in best :
    /\ p.storage_id \in [Entries(g) -> -1 .. g.num_entries - 1]
    /\ p.value = OwnValue
    /\ p.not_allocated = 0 => \A e \in OpEntries(g) : p.storage_id[e] >= 0

(* The accounts of the published plan: it places no variable, and its      *)
(* allocated bytes are those of its storages' largest entries.             *)
PublishedPlanAccounted ==
  \A p \in best :
    /\ \A v \in VariableEntries(g) : p.storage_id[v] = kBadStorageID
    /\ p.allocated_bytes =
         PoolSize(p.storage_id, {p.storage_id[e] : e \in Entries(g)} \ {kBadStorageID})

(* The runtime allocates for the emitted plan what the pass accounted for  *)
(* it, storage by storage grown to its largest entry, and the variables.   *)
PoolIsWhatWasPlanned ==
  status = "compiled" =>
    \E p \in best :
      GetStorageSize = p.allocated_bytes + 4 * SumFunctionOnSet(g.size, VariableEntries(g))

CompileInv ==
  /\ status \in {"planning", "compiled", "refused"}
  /\ storage_id \in [Entries(g) -> Int]
  /\ PlannerInv /\ AccountInv
  /\ value = OwnValue
  /\ AllocatedSoFar
  /\ PublishedPlanComplete /\ PublishedPlanAccounted
  /\ CompiledPlanRuns /\ PoolIsWhatWasPlanned

(* Compilation ends, with a plan if every operator's output has a shape.   *)
CompilationEnds ==
  <>(\/ status = "compiled" /\ g.shapeless \cap OpEntries(g) = {}
     \/ status = "refused" /\ g.shapeless \cap OpEntries(g) # {})
=============================================================================
