# A verification project for cvm-runtime

TLA+ models, model-checking runs and machine-checked proofs for the CVM runtime, the
deterministic executor of quantised neural networks; for the compiler that plans its memory;
and for the Python tools that prepare models for it: the model representation tool (MRT) and
the ONNX quantiser (YaQuant). The models are written from the sources under `src/`; every
definition that stands for code is listed with its lines in `PROJECT.json` ("map").

Two questions are behind the project.

**Does a loaded model always compute the function its graph denotes?** Nothing in the runtime
recomputes or cross-checks a result. An inference runs operators in node order on a pool of
storages that many tensors share, and the sharing was decided long before, by a greedy
reference-counting pass. A mistake there does not crash. It makes some graphs silently return
wrong numbers.

**Is the model that is loaded the one the user trained?** Before the runtime sees a model, a
dozen passes rewrite its graph by name, quantise it with computed precisions, store it in
checkpoints that may be stale or half written, and translate it to CVM. Each step is expected
to preserve the function, up to the error of quantisation, and few steps check that they did.

## The system

| Component | State it keeps | Operations | Correct when |
|---|---|---|---|
| Graph index (`core/graph.cc`, `graph.h`) | nodes in DFS post order, entries, inputs, heads | constructor, `entry_id` | numbering is topological, entries are dense |
| Memory planner (`pass/plan_memory.cc`) | `storage`, `storage_ref_count`, the allocator's `data_` and `free_`, the best plan so far | in-place sharing, `Request`, `Release`, the sweep of unread outputs, match-range search | no entry is overwritten before its last read; entries fit; nothing is freed twice or never |
| Node coloring (`pass/graph_algorithm.h`) | colors | `FindBestPath`, `ColorNodeGroup` | path is the best one; a color class cannot run in parallel |
| Graph compiler (`compiler/graph_compile.cc`) | the graph of `cvm_op` nodes and its attributes | `GraphCompile`, `DecorateMemoryPlan` | attributes follow their nodes; the plan emitted is executable |
| Executor (`runtime/graph_runtime.cc`) | attributes, `storage_pool_`, `data_entry_`, `op_execs_` | `Init`, `Setup`, `LoadParams`, `SetInput`, `Run`, `CopyOutputTo` | an answer is that of the graph; parameters survive |
| Runtime inference (`runtime/infer_attr.cc`) | shapes, precisions | `SetupShape`, `SetupPrecision`, `GetOps` | agrees with the operators' rules; gas is counted on the right entries |
| Model and C API (`core/model.cc`, `core/c_api.cc`, `errors.h`) | sizes, shapes, post-processing method | load, inference, save output, free | error codes, output lengths, ownership |
| Go kernel (`kernel/*.go`) | a handle | `New`, `Predict`, `Free` | life cycle of the handle |
| NDArray, parameter files (`runtime/ndarray.cc`, `param_dict.cc`) | reference-counted containers | views, copies, load/save | a view never outlives its container |
| Inference and mutation passes (`pass/infer_*.cc`, `order_mutation.cc`) | attribute vectors | sweeps to a fixed point, control dependencies | result independent of sweep order |
| Operators and kernels (`top/**`, `runtime/{formal,cpu,cuda,opencl}/ops`) | none | shape/precision rules, numeric loops | results fit the declared precision |
| MRT graph preparation and compilation (`mrt/tfm_pass.py`, `tfm_ops.py`, `transformer.py`) | the symbol, its parameters, a global name counter | `rewrite`, `fuse_transpose`, the fuse passes, `sym_calibrate`, `prepare_for_compile`, `compile` | the tensors computed stay the same; names stay unique; what comes out can be quantised or compiled |
| Channel slicing (`mrt/V2`) | the configuration per node | `sym_separate_bias`, `sym_config_infos`, `slice_channel` | the slices compute what the whole did; every node has a configuration |
| MRT quantisation (`tfm_pass.quantize`, `mrt/V2`) | thresholds, precisions, scales or buffers per node | `quantize` of each operator, requantisation | recorded precisions and scales are true; nothing overflows the word; nothing calibrated is cut |
| Drivers and checkpoints (`main2.py`, `V2/main.py`, `V3/*`) | the model directory, the objects bound so far | prepare, split, calibrate, quantize, merge, evaluate, compile; restart at any of them | what is combined comes from one chain of stages; a restart from an up-to-date checkpoint works |
| YaQuant (`mrt/yamrt/quant`) | quantised names, ranges, new nodes | static, dynamic and QAT quantisation, two formats | the saved model computes what the model did, within its ranges; calls it cannot serve are refused |
| Services (`common/thread.py`) | a lock, an event, a list of events, exit handlers | services, waits, `safe_exit`, signals | every waiting thread is woken and told; a shutdown ends the process |
| Web runs (`mrt/web`, `V3/execute.py`, `common/log.py`) | one temporary YAML file, the root logger, queues | requests, page views, runs in threads | a run uses its own options, a client sees its own log, a request ends |
| Command registry (`common/cmd.py`, `dfs.py`) | modules, groups, options by name | declarations at import, analysis of references, pruning, dispatch | a command offers exactly the options it refers to |
| Importers, older quantiser, Python bindings, JSON, registries, device layer | | | not modelled |

How they interact. `GraphCompile` replaces every operator by a `cvm_op` node, applies
`PlanMemory`, and `DecorateMemoryPlan` gives each variable a storage of its own. The graph
with its attributes is serialised. `CVMAPILoadModel` creates a `CvmRuntime` from it, which
verifies the attributes, allocates one pool block per storage id, makes every entry a view of
its block and loads parameters into the pool once. `CVMAPIInference` calls `CVMModel::Run`:
set `data`, run all operators in order, copy the outputs out. A failed operator throws through
all of it, and the handle stays usable.

What is hard: lifetimes that overlap only in particular graph shapes; one counter per storage
that is set, added to, and counted down at four places; free lists that must never hold live
storage; plans from several rounds; half-finished runs that leave their debris in the shared
pool for the next call; parameters that are written once and must outlast every call. There
are no locks and no threads in this path, so the interleavings that matter are those of calls
and failures, not of threads.

The tools. A driver loads a model (MXNet symbol and parameters), prepares it (`MRT` init
passes), optionally splits it at given nodes, slices channels (V2), calibrates thresholds over
samples, quantises, merges the parts, and evaluates or compiles the result; each stage may dump
its objects and a later invocation may start from them. The compiled symbol is what
`GraphCompile` takes. Runs are started from the command line (`common/cmd.py`), or from a
browser (`mrt/web`) in a thread per request. YaQuant is a quantiser of its own, from ONNX to
ONNX.

What is hard there: passes that find nodes by name while they rename them; axes renumbered at
every transpose that moves; precisions inferred by one formula and clipped by another; files of
different runs in one directory; a process killed between the files of one checkpoint; ranges
adopted many nodes before the node that relies on them; a lock taken in a signal handler; one
YAML file and one logger shared by all requests. All hazards, covered or not, are in
`PROJECT.json`.

## Modules

| Module | Models | Role |
|---|---|---|
| `CvmGraph` | `graph.cc`, `graph.h` | the indexed graph as a record; `Uses`, `SafeStorage`, `WellFormed` |
| `PlanMemory` | `plan_memory.cc` | the planner, one action per loop iteration; its properties and inductive invariant |
| `MemoryPlanProofs` | | facts about graphs, uses, sums and decorated plans that the proofs about planner, compiler and executor share |
| `GraphCompileProofs` | | proofs about `PlanMemory`; on top of them, that every emitted plan runs, in the pool that was planned |
| `MemoryPlan` | `graph_compile.cc`, `graph_runtime.cc` | `DecorateMemoryPlan` and the runtime's plan checks, as operators on plans |
| `GraphCompile` | `graph_compile.cc`, `graph_runtime.cc` | `PlanMemory` composed with what becomes of its plan |
| `Dataflow` | | abstract specification of a model: unshared cells, any evaluation order |
| `GraphRuntime`, `GraphRuntimeProofs` | `graph_runtime.cc`, `model.cc`, `c_api.cc` | the executor; implements `Dataflow`; proofs |
| `QuantArith` | `tfm_utils.py`, `sim_quant_helper.py`, `cvm_op.py` | precisions, scales, mantissas and the emitted integer operators |
| `MrtQuant` | `tfm_pass.py`, `tfm_ops.py` | the quantisation pass of the first generation; the properties of both |
| `MrtQuantV2` | `V2/tfm_pass.py`, `V2/tfm_ops.py`, `V2/tfm_types.py` | the second generation |
| `MrtQuantProofs` | | proofs about both generations, from powers of two and fractions up |
| `MrtFiles` | `transformer.py`, `sim_quant_helper.py`, `main2.py` | the model directory, saving and loading |
| `MrtPipeline` | `main2.py`, `V2/main.py`, `V3/*` | the drivers, with crashes and restarts; the inductive invariants of their proofs |
| `MrtPipelineProofs` | | proofs about `MrtPipeline`: what stages write and outdate; what they combine and find |
| `MrtTensor`, `MrtOperators` | `cvm_op.py`, uses of MXNet and CVM | tensors; symbols and what they compute |
| `MrtTransformers` | `tfm_ops.py`, `tfm_pass.py` | rewriting and transpose fusion of each operator |
| `MrtSlices` | `V2/tfm_ops.py`, `V2/tfm_pass.py` | bias separation, configurations, channel slicing |
| `MrtCompile` | `tfm_ops.py`, `tfm_pass.py`, `transformer.py` | translation to CVM |
| `MrtRewrite` | `tfm_base.py`, `tfm_pass.py`, `transformer.py` | the passes by name over these rules and the calibration, one name per step |
| `YamrtModel`, `YamrtOps`, `YamrtQDQ` | `onnx_model.py`, `quantizer.py`, `qdq_quantizer.py`, `operators/*` | ONNX graphs with ranges; each operator's quantiser; the other format |
| `YamrtQuantize` | `quantize.py`, `calibrate.py` | calibration and quantisation, one node per step |
| `YamrtQuantizeProofs` | | proofs about the calibration |
| `ServiceThreads`, `ServiceThreadsProofs` | `common/thread.py` | services, waits, signals and shutdown; proofs |
| `WebRuns`, `WebRunsProofs` | `mrt/web`, `V3/execute.py`, `V3/utils.py`, `common/log.py` | requests, options, the logger, streams; proofs |
| `CommandRegistry` | `common/cmd.py`, `common/dfs.py` | declarations, references, pruning, dispatch |
| `MC...` | | instances for TLC |

`MemoryPlan` is shared by `GraphCompile`, which shows what plans leave the compiler, and
`GraphRuntime`, which executes *every* plan of that kind. Together they say that a compiled
model computes its dataflow function.

### PlanMemory

| Specification | Code |
|---|---|
| `pc`, `nid`, `ipair`, `todo`, `taken` | position in `AllocMemory`'s loops |
| `storage`, `storage_inplace_index`, `storage_ref_count` | the vectors of the same names |
| `num_data`, `data`, `free` | `GraphAllocator::data_`, its `StorageEntry`s, and how often each is in `free_` |
| `match_range`, `best` | the search loop of `PlanMemory` and the attributes written to `ret` |
| `value` | history: whose value an entry carries, for in-place identities |

One step is one iteration: one in-place pair (`ShareInplace`, `SkipPair`), one output
(`RequestShapeless`, `RequestReuse`, `RequestAlloc`), one freed input (`FreeInput`), one swept
output (`SweepOutput`). `RequestReuse` may take any of the equally good blocks that the
multimap's order of equal keys could put first. Tensor shapes are reduced to their number of
elements and to whether they have dimensions at all; colors are an attribute of the nodes
(all equal stands for the default, no coloring). Not modelled: the attributes `node_range`,
`ref_count` and `storage`, which a caller could preset and `GraphCompile` never does, and with
them external and dynamic storage ids.

Assumptions on a graph (`WellFormed`): entries and inputs are in range, inputs precede
their node, and an in-place pair names an input of the same device that is not ignored.
The last condition is the obligation of those who register `FInplaceOption` and
`FIgnoreInputs`; the pass does not check it.

### GraphCompile and MemoryPlan

`GraphCompile` runs `PlanMemory` to the end, then either emits the decorated plan or refuses
(`CHECK_EQ(num_not_allocated, 0U)`, or no plan attribute at all). In the compiled graph every
operator is `cvm_op`, which registers neither in-place options nor ignored inputs; that is the
module's assumption. `GetStorageSize` is the runtime's pool for the emitted plan; the code's
check of that query against 2^32 bytes, which changes nothing but the answer, is left out.

### GraphRuntime and Dataflow

| Specification | Code |
|---|---|
| `pc = "load"`, `loaded`, `set_flag` | the loop of `LoadParams` inside `CVMAPILoadModel` |
| `mem` | `storage_pool_`; `data_entry_` is the view of it |
| `nid` | the index of the loop in `CvmRuntime::Run` |
| `answer` | the tensors filled by `GetOutput_` |
| `cell` | history: the value last written to each entry |

A tensor is one number, an operator's kernel an uninterpreted function `Kernel(entry,
arguments)`; in the runs it is a hash that tells entries, arguments and their order apart. An
operator whose output lies on one of its arguments produces `Garbage` unless it is one that
may work in place. `FailOp` is a kernel that throws after writing any part of its outputs.
`Init` admits every graph with every decorated safe plan, up to renumbering of storages, that
`PrepareGraphWithVersion` accepts: a superset of what `GraphCompile` emits.

`Dataflow` is the promise: parameters are stored when they fit, data is clamped, each call
starts from empty cells, and operators may fire in any order their arguments allow.
`GraphRuntime` implements it under the mapping `done <- {n \in Operators : n < nid}`, with
`cell` and `answer` as they are.

### MrtQuant and MrtQuantV2

A behaviour builds an arbitrary model while quantising it, one operator per step, in the order
in which `topo_visit_transformer` would visit it; the last step requantises the outputs.

| Specification | Code |
|---|---|
| `th`, `prec`, `scale` of a node | `th_dict`, `precs`, `scales`; in V2 `features`, `precs`, `buffers` |
| `sym.bound`, `sym.peak`, `sym.scale` | history: what the emitted integers can reach, what was met on the way, what one unit stands for |
| `real`, `free` | history: the magnitude calibration saw; the bound before the clip |

Floats are exact rationals; a tensor is its greatest magnitude. `MAX_BIT` and the precisions
are scaled down, 14 for 32 bits and 3 and 5 for 8 and 16, so that every rounding still occurs.
TLC's integers would not hold the products otherwise.

### MrtFiles and MrtPipeline

A file or an object is a set of *origins*: the invocations that prepared, split, calibrated and
quantised it. A save is a queue of writes in the code's order; `Kill` may drop the rest of the
queue and leaves a torn file. Loading what does not fit together is no error of the code, so an
object may have several origins, and `OutputsAgree` says that what a merge, an evaluation or a
compilation combines has one. The user is assumed to restart only from checkpoints that are up
to date (`trusted`): the code checks existence and nothing else.

### MrtRewrite, MrtTransformers, MrtSlices, MrtCompile

A symbol is a node with its arguments inside it; a tensor has exact values over a common
denominator. A pass is `topo_visit_transformer`: `BeginPass` sorts the symbol into a table of
*names*; each `Visit` takes the next name, rebuilds its operator over what the graph holds for
the names of its arguments, and calls the operator's method (`MrtTransformers`, `MrtSlices`,
`MrtCompile`); `EndPass` leaves the new symbol. `Pipeline` is the list of passes of `MRT.init`,
of V2's `init` and `calibrate`, or of `compile_to_cvm`, and `fresh` the counter of `N.n`. MXNet
and CVM are outside the repository's Python code; their operators are defined by what the
rewrites take them to do and marked external.

A model that is prepared is calibrated (`sym_calibrate` of both generations): `Sample` runs one
operator on the tensors in `out_cache`, strikes it off the readers of its arguments (`deps`),
drops the tensors nobody waits for, and records the threshold of its name (`th_dict`).

### YamrtQuantize

A quantiser is a record with the fields of `YAMRTQuantizer` (`quantized_value_map`,
`quantization_params`, `new_nodes`, `generated_value_names`) and, for `QDQQuantizer`,
`tensors_to_quantize` and its companions. One step is one batch of calibration, one node, one
tensor or one bias. A quantised tensor carries the range its scale and zero point were
computed from: quantising saturates at it, and reading a tensor with the parameters of another
range yields `Garbage`, so that the saved model is *evaluated* and compared with the source.

### ServiceThreads

A context is a thread, or a signal's run of the handler on top of the main thread; `stack` says
which of the main thread's contexts runs. Each context has a position (`pc`) in the module's
functions; one step is one statement that reads or writes something shared. A signal comes
between any two steps of the main thread, also inside the handler of an earlier one. The lock is
not reentrant: a handler that asks for it while a context below holds it stands still for ever
(`BlocksItself`).

### WebRuns and CommandRegistry

A request is a sequence of the steps of `consumers.py` (cast, empty the file, write it, read it
back and merge, start the thread) interleaved with other requests' and with runs that log.
Opening the file empties it under everybody else who has it open; closing it puts the buffer
over what is there, so that the end of a longer text may remain (`Overlaid`). `met` is history:
the requests that had `tmp.yaml` open for writing while this one used it. A record passes the
filters of *all* runs so far, because none is removed.

A program is a sequence of declarations in import order; the iteration order of Python's sets
is a parameter (`Orders`).

## Runs

| Run | Instance | Shows |
|---|---|---|
| `plan_memory` | every lifetime pattern of four operators of one size; sizes 1, 2 and 8 around the match range; two outputs, in-place identities, ignored inputs, missing shapes, devices, colors (28152 graphs) | `PlannerInv` (the inductive invariant), `RefCountsWaitingUses`, `FreeIsUnused`, `StorageFits`, `NothingLeaks`, `NotAllocatedIsExact` |
| `graph_compile` | two variables, four operators, five outputs, three size patterns, search on, with and without a missing shape | `CompiledPlanRuns`, `PoolIsWhatWasPlanned`, `NeverWorseThanUnshared`, `CompilationEnds` |
| `graph_runtime` | a chain that reads its inputs again at the end, a diamond with an unread second output, a graph with operators in place; every plan; three input values, one to be clamped; blobs of up to two tensors; any number of calls | `ReadsIntact`, `ParamsSurvive`, `ImplementsDataflow`, `EveryCallReturns` |
| `mrt_rewrite` | 1077 models of up to a few operators each, for every rewrite, slice and compile method, and the calibration of the result | `ThresholdsSampled`, `SemanticsKept`, `NamesUnique`, `ReadyToQuantize`, `OnlyUnsupportedRefused` |
| `mrt_biased_norm` | BatchNorm behind a convolution with a bias | `SemanticsKept` is **violated** |
| `mrt_quantize` | every model of two operators of `CountedOps` over data and a parameter, four thresholds, both generations | `PrecisionHonest`, `FitsWord`, `ScaleTruthful`, `InputsKeepThreshold`, `ClipKeepsThreshold` |
| `mrt_pipeline` | three drivers, every start, split or not, compiled or not, dumping or not, three invocations, one killed | `OutputsAgree`, `FailsOnlyThere`, `StartKept` |
| `yamrt_quantize` | 773 calls: chains of up to three layers, shared tensors and biases, tensors without a type, both formats, every option | `OutputsKept`, `RecordedExist`, `RangesHoldSamples`, `SavesModel` |
| `yamrt_activation` | activations behind operators whose range does not stand in for them | `OutputsKept` is **violated** |
| `mrt_threads` | a main thread that waits and calls `interrupt()`, a service that restarts, two signals at any point, one inside the handler of the other included | `NoLostWakeup`, `LeavingIsReported`, `ShutdownEnds` |
| `mrt_web` | two requests of the socket at once and a page, three sets of options, two records at two levels | `RunsOwnConfig`, `ClientSeesOwnRun`, `RequestsEnd` |
| `mrt_cmd` | programs of up to five of ten declarations, in every order, two set orders | `OffersTheClosure`, `ConflictsAreReal`, `EveryFunctionRuns` |

The two violations are disagreements between the code and what it says of itself; "findings" in
`PROJECT.json` quotes the lines. `BatchNorm.rewrite` adds the bias of the convolution it is folded
into without scaling it, in a pass that promises "equivalent" symbols (`tfm_pass.py:57`). YaQuant
drops a Relu or Clip behind any quantised operator although the range of that operator's output
was not computed from the activation, which `activation.py:16` says it is.

Deviations inside the passing runs. Where a run meets a case in which the code falls short, its
property names the case and says that there is no other.

- `ShutdownEnds` says that a shutdown ends the process or stands still in one way, `BlocksItself`:
  a signal's handler waits for `__LOCK__`, which a context below it on the main thread's stack
  holds. There are two such contexts: a main thread that waits or calls `interrupt()` itself, and
  the handler of an earlier signal that is between `thread.py:29` and `:30`, which passed the test
  at line 22 with `__QUIT_EVENT__` not yet set. The second happens whether the main thread waits or
  not. `thread.py:79` says of `interrupt` that it stops all threads.
- `FailsOnlyThere` says that two kinds of configuration fail, `Unsupported`, and no other. One is a
  start at MERGE_MODEL, which `config.example.ini:55` documents, with a COMPILATION section: it ends
  in a NameError at `main2.py:631`. The other is slicing channels in V2 for a second calibration.
- `RunsOwnConfig` does not say that runs keep apart, for they do not, and no document promises it:
  two requests served at once share `tmp.yaml`, nothing serialises them, and a run may be started
  with the options of another client. It says how far this goes: a request that met no other on the
  file uses exactly its own options, one that did uses its own, the defaults, and those of the
  requests it met.
- `OutputsKept` leaves out two cases. A bias quantised for one convolution is taken for a second
  one by name, with the wrong scale (`SharesBias`; `quantizer.py:545`, `:549`). A `Split` with sizes
  loses its inputs to a `list.extend` (`SplitsBySizes`; `split.py:24`, `:34`); a protobuf that takes
  `None` for no inputs (`takesNone`) saves a `Split` of nothing, another one makes the call raise.
- `RecordedExist` lets the inputs of an operator that was given up be on record for nothing
  (`GivenUpWith`; `quantizer.py:533`, `:662`). `SavesModel` adds what comes of it: the next operator
  takes such a tensor for quantised, and the call raises (`Stranded`; `quantizer.py:632`).
- `SavesModel` also names the calls in dynamic mode on an input without a range (`RangeUnknown`):
  the comment at `quantizer.py:520` says that nodes computing the range are added, and building them
  raises.

Known deviations that no run has. The models contain them, the runs leave them out by the choice of
their instances, and the hazards name them.

- Against "equivalent" in `tfm_pass.py:45` and `:57`: two operators that read one transpose become
  two nodes of one name, which the next pass merges (`Models <- SharedTranspose` in
  `MCMrtRewrite.cfg`); a mean over two elements becomes a sum and a shift by one bit, which shifts
  nothing (`MeanOfTwo`); `Repeat.compile` drops the argument it has just flattened (`FlatRepeat`).
  `SemanticsKept` fails on each.
- `batch_dot` records a precision that does not count what it sums, against
  `docs/mrt/quantize.md:61` (`Ops <- AllOps` in `MCMrtQuant.cfg`, where `PrecisionHonest` fails), and
  `add_n` of V2 one that counts a single addend. `mrt_quantize` speaks of all other operators.
- `cmd.py:17` says that a cycle of references raises; `refs_analysis` accepts one that closes at the
  module the search started from, and ends in a KeyError for one that it enters from outside.
  `OffersTheClosure` speaks of references without a cycle.
- No document says otherwise of the following: a `broadcast_add` with zeros records an integer range
  as its threshold (`ZeroAdds = TRUE` in `MCMrtQuant.cfg`); once a run has set a high verbosity
  nothing below it is logged by any later run, and the last messages of a run may be dropped
  (`ClientSeesOwnRun` speaks of a prefix); a name-wise setting for channels of a convolution with a
  bias is refused by an assertion of the addition that took its name, which `mrt_rewrite` counts
  among the forms the tool does not support.

Why the bounds suffice. A planner mistake needs a storage to be shared, freed and reused: the
third operator can free what the first wrote, the fourth can reuse it, and a head can still
need it. Four operators give all orders of these, two arguments give repeated reads, and sizes
1, 2, 8 lie inside and outside each match range. For the executor, four operators on two
variables give plans with one to four blocks; one failed call followed by another covers the
debris a failure can leave, and TLC explores any number of them because the state does not
grow. For the passes, a rewrite looks at an operator, its arguments and at most one reader; the
models pair every operator with every neighbour its rule distinguishes, and the limits on
matrix and mean sizes are scaled down so that two, three and more parts occur, with and without
a remainder. For quantisation, an operator sees its inputs only through threshold, precision
and scale, so that two operators in a row give every kind of input; thresholds 0, 1, 3 and 12
lie below, at and above the precisions. For the drivers, the third invocation is the first that
can combine what two earlier ones left, one of them killed. Each property of each run is broken
by a listed mutant of the code ("mutants"). The mutants stand beside the definitions they change
and take part in nothing else.

Bounds by name: `MaxMatchRange` (the value of `CVM_EXEC_MATCH_RANGE`), `MaxParams` (tensors in
a blob), `range` (the largest value of a variable's precision), and the graph sets; `MaxNodes`,
`Thresholds`, `LeafThresholds`, `Terms` (`MrtQuant`); `MaxRuns`, `MaxDeaths` (`MrtPipeline`);
`MATRIX_MAXIMUM_SIZE`, `MAXIMUM_SIZE`, `CONV_MAXIMUM_SIZE`, `FLOAT_BITS`, `INT32_MAX` and `Models` (`MrtRewrite`);
`Sources` (`YamrtQuantize`); `Signals`, `Timed` (`ServiceThreads`); `Workers`, `MaxRecords`
(`WebRuns`); `MaxDeclarations`, `Orders` (`CommandRegistry`).

Fairness. The planner, the compiler and YaQuant are single-threaded functions: weak fairness of
their next-state relation says that the thread keeps running. In `GraphRuntime` only `Run` is
weakly fair: a call that has begun goes on. Nothing forces a caller to make another call.
Termination of a kernel is part of the assumption, a kernel being one step. In `ServiceThreads`
every context is weakly fair, started services start, the interpreter's exit proceeds, and
taking `__LOCK__` is strongly fair: Python's lock does not starve a waiter for ever among
finitely many threads that give it back. Signals and failures of services are never forced. In
`WebRuns` a handler goes on and a run in its thread starts and ends; a run is not forced to log.

Deadlock is not checked where the system really stops: a rejected model, a finished
quantisation, a process that has exited, a registry whose command has run.

## Proofs

Every theorem holds for all values of the constants that the named assumptions of the modules
admit. TLC evaluates these assumptions on every run of a module that extends theirs, and each
inductive invariant below was checked by TLC on the instance of its run before it was proved. The
exception is `KeepInv` of the quantiser, which speaks of all natural numbers; TLC checks what it
implies.

| Module | Theorem | States |
|---|---|---|
| `GraphCompileProofs` | `PlannerInvariance`, `TypeCorrect`, `RefCountsCorrect`, `FreeListCorrect`, `PlansAreSafe` | the planner's inductive invariant `PlannerInv`, and what is read off it |
| | `EntriesFitTheirStorage`, `EveryStorageIsReleased`, `NotAllocatedCounted` | `StorageFits`, `NothingLeaks`, `NotAllocatedIsExact` |
| | `SharingNeverCosts` | `NeverWorseThanUnshared` |
| | `CompiledPlansRun`, `PoolsAsPlanned` | `CompiledPlanRuns`, `PoolIsWhatWasPlanned`: the pass composed with `DecorateMemoryPlan` and the runtime's checks and pool |
| `GraphRuntimeProofs` | `RuntimeInvariant`, `RuntimeTypeCorrect`, `ReadsStayIntact`, `ParametersSurvive` | the executor's inductive invariant, `ReadsIntact` and `ParamsSurvive` |
| | `ExecutorImplementsDataflow` | the refinement: `Spec => ImplementsDataflow` |
| `WebRunsProofs` | `StreamsInvariant`, `ClientsSeeTheirRuns` | `ClientSeesOwnRun`, for any number of sessions, workers and records |
| | `RunsUseTheirConfig` | `RunsOwnConfig`, for any number of sessions and workers |
| `ServiceThreadsProofs` | `ThreadTypes`, `NoWakeupIsLost`, `WaitsReportLeaving` | types, `NoLostWakeup`, `LeavingIsReported`, for any number of services, daemons and signals |
| `MrtPipelineProofs` | `CheckpointsInvariant`, `CheckpointKept` | whose files a stage writes; the action property `StartKept` |
| | `OutputsComeFromOneChain` | `OutputsAgree` |
| | `CheckpointsLoad`, `RestartsWork` | `FailsOnlyThere`; `RestartWorks`, for supported configurations |
| `MrtQuantProofs` | `QuantInvariance`, `PrecisionsHonest` | the quantiser's inductive invariant; `PrecisionHonest`, for both generations, any thresholds and any widths |
| | `ClipsKeepThreshold` | `ClipKeepsThreshold`, for the same |
| | `InputsKeep` | `InputsKeepThreshold`, for any thresholds that fit the word |
| `YamrtQuantizeProofs` | `CalibrationInvariance`, `RangesHold`, `TensorsRanged` | the inductive invariant of the calibration; `RangesHoldSamples`, for any models, samples and readers; every calibrated tensor has a range |

### Assumptions

- `GraphsAssumption`: the graphs are `WellFormed`. `MatchRangeAssumption`: a natural number.
  `CvmOpAssumption`: the compiled graph has no in-place options and no ignored inputs, as
  `cvm_op` registers neither.
- `DataAssumption` (executor): the graphs are well formed, variables have one output, one of
  them is named `data`, no operator ignores an input (`FIgnoreInputs` is not registered for any
  operator the runtime runs). Operators may still work in place. Kernels are arbitrary. The
  values `Unset` and `Garbage` are integers, and `Unset` is no value a variable may hold.
- `WebAssumption`: a session is a socket request or a page, not both; there is at least one
  worker, and levels are the four of `common/log.py`.
- `ThreadAssumption`: services, signals and the main thread are different contexts, and the lock
  has a value of its own for being free; daemons and restarting services are services.
- `ConfigsAssumption` (drivers): configurations have the fields the scripts read, and one of V3
  starts after stage 0 to 3, which `V3/execute.py` asserts.
- `MaxBitAssumption`, `PrecisionsAssumption` (quantiser): a word and every configured precision
  have two bits or more, one of them the sign; exponents leave a softmax two bits. The code has
  32, and 8, 15 or 16. `SamplesAssumption`: thresholds are natural numbers, sums have a term.
- `SourcesAssumption` (YaQuant): data readers give samples that exist, and running the model on
  one computes at least one number for every tensor to calibrate.
- `PrecisionsHonest` needs `Ops \subseteq CountedOps`: it leaves out `batch_dot` and `add_n`,
  whose declared precision does not count what they sum, and on which the property is false.
- `ClipsKeepThreshold` needs `~ZeroAdds` as well: a `broadcast_add` of the first generation with
  one operand all zeros records the range of the other's integers as a threshold, and the
  property is then false.
- `InputsKeep` needs `~ZeroAdds` for the same reason, and `ThresholdsFit`: no threshold exceeds the
  range of the word. An embedding requantises its indices to the scale one, so larger indices
  than the word holds are cut.
- `RestartsWork` needs configurations that are not `Unsupported`. There are two such kinds:
  channel slicing in V2 with more than one calibration, which fails at the second one, and
  compiling a merged model that was loaded, which ends in a NameError. Both
  are deviations of the code. `CheckpointsLoad` has no such hypothesis: it says that nothing else ever fails.

### The planner and the compiler

Call a read that is still to come on storage `s` a member of `Waiting(s)`.
`RefCountsWaitingUses` says the counter is the size of that set; every decision of the pass
depends on the counter only, so this turns arithmetic into statements about sets. Safety then
needs to know that an output written to `s` disturbs nobody in `Waiting(s)`. For a block from
the free list that is `FreeIsUnused`. For in-place sharing the counter is one and the read
waiting is the operator's own; with an in-place identity other readers may wait, and they are
served because the value is the same (`ReadsAgree`, with `Overwritten` for an argument that
the node in turn has already given away). These are not inductive alone. `OutputsHeld` says
that an output that was just placed is not in the free list until the sweep has passed it,
which is what keeps the sweep from releasing twice; `StoragesPlaced` bounds storages by placed
entries, which keeps `storage_ref_count` from being overrun; `PlacedInOrder` and `InTurn` tie
the loop position to what has been placed. One lemma per action shows that it keeps the
invariant; `ControlStep` covers the steps that move the loops only, `PlaceStep` the two that
place an output from `Request`.

`AccountInv` is what the allocator's accounts need on top of it. An entry fits its storage
because a block only ever grows and in-place sharing asks for equal sizes (`StorageFits`). That
nothing leaks is a statement about the end of a round. `UnusedIsFree` is its form for every
moment: a storage whose count has come to zero is in the free list, unless an output of the
node in turn lies on it and has not been swept. `UnallocatedCounted` does the same for the
number `AllocMemory` returns: it is the number of entries swept without a storage so far.

The sums are over sets of storages and of entries. A sum is a fold, of which the prover knows
nothing; `MemoryPlanProofs` derives what is needed, that a sum over a set is that without an
element plus the element, by the least number principle instead of an induction. Sharing never
costs because a storage is never larger than the entries placed on it (`AccountInv`), and
storages taken from the free list are not counted twice; the pool of an emitted plan is the
published account plus the variables, which lie on storages of their own (`PublishedPlanAccounted`).

`CompileInv` adds to `PlannerInv` what only holds without in-place operators, that an entry
carries its own value, and that a round which has counted no missing storage has placed every
output it has swept (`AllocatedSoFar`, `PublishedPlanComplete`). With that, `DecorateMemoryPlan`
is a matter of arithmetic: `max_id` exceeds every id (`MaxIdFacts`), the ranks of two variables
differ (`RanksDiffer`), so no variable meets another entry, and for operators the plan is the
planner's. That the runtime's check accepts it follows from safety: an operator's own argument
is read when its output is written.

### The executor

`RuntimeInv` says what the shared pool holds at every position of the loop, after any number of
calls, failed ones included. `PlanSound` is about the plan alone and never changes: it is safe,
and variables are alone on their storages (`CompiledPlanSound` derives it from what `Init`
admits). `ReadsIntact` says that for every operator still to run, an argument computed already
in this call is in the pool unchanged. An operator that runs, or fails half-way, spoils storages
only; `NothingReadLaterIsOverwritten` carries the safety of the plan from entries to storages,
and `ReadLaterIsNotSpoiled` from there to the values. `InputsHeld` is the part for variables:
what was loaded stays in its place for ever because nothing shares it, which is
`ParametersSurvive`, and it also carries `data` through a call. `UsableIsLoaded` connects the two
calls: a model that can be called has all its parameters.

`ExecutorImplementsDataflow` has one lemma per action (`LoadParamStep` to `CopyOutputToStep`).
The only interesting one is `RunOpStep`, where the invariant says that the arguments read from
the pool are those in the cells (`ArgumentsIntact`). A failed call maps to a call that is
abandoned. Since `done` is defined by `nid` and the cells are history, the mapping needs no
choice and no prophecy.

### The services and the web runs

`IInv` of `ServiceThreads` is what makes the shutdown inductive. `Exclusive`: the holder of the
lock is exactly the context between its acquire and release. `NotifiesAfterQuit`: whoever walks
the list has set `__QUIT_EVENT__`, so a thread that registers afterwards sees it and does not
sleep. `Listed`: a sleeping thread's event is in the list. `Stacked` and `AboveNotifier` order
the main thread's contexts: what lies below the running handler stands still, and if it held
the lock then nothing above it gets past `acquire`. `Unstarted` says that a service that was
not started touches nothing.

`StreamInv` of `WebRuns` is needed because a client sees only what is taken from its queue.
`Delivery` is the equation behind it: what a run has logged is what its client has been sent,
followed by its queue; or, if the root logger's printer is of the other kind, nothing was sent.
`QueuesOfStreams` says that exactly the runs still being sent have a queue, so that a record is
put into its own (`FoundByOwnPrinter`), and `RunsStream` that a run starts after its queue was
made and ends before it is removed.

`ConfigInv` is about `tmp.yaml`, with any number of requests on it at once. A step that changes
the file is one of a request that has it open for writing, and whoever uses the file then has met
that request (`WritersMet`). So an option in the file is always the own one of whoever is about
to merge it, or that of a request it met, and the file is exactly its own if it met none
(`FileIsOwn`); the merge carries this into the configuration (`ConfigIsOwn`), and a request that
is past it no longer looks at the file.

### The quantiser

`Honest(sym, prec)` is the promise: the integers of an operator stay within the range of the
precision told for it. `QuantInv` keeps it for every node, with what the next operator needs to
keep it too: thresholds are fractions, scales are positive, and a threshold of zero is told with
one bit. The last part is what a product with zeros rests on: `broadcast_mul` then declares one
bit without looking at the other side (`ZeroFactor`).

The proof goes up from arithmetic. The module's recursive functions get their equations from one
lemma (`Recursion`): a definition whose argument decreases has a solution. With it, `Pow2` turns
sums of exponents into products, a number fits the bits `get_bit_cnt` counts for it
(`BitCountBounds`), and cancelling a fraction by `Gcd` does not change it (`RatExact`). A
requantisation keeps its promise whatever mantissa the search finds, because each path ends in a
clip to the precision it declares, or declares what the bound needs; the scale stays positive
because the mantissa does (`MantissaPositive`). Products add their precisions, a sum of `k` terms
adds the bits of `k`, an addition adds one bit to the wider side (`ProductHonest`, `SumHonest`,
`PlusHonest`); `_quant` clips to what the threshold needs (`TightenedGood`). Each operator of each
generation is one lemma over these.

`ClipInv` is about that last clip. It cuts at what the *recorded* threshold needs, and what must
be kept is what calibration *saw*, so an operator that records another threshold may cut too
much. `Covers` lists why none does: it records the threshold it was given, or declares no more
bits than its own needs (an embedding, or an addend that is passed on, itself clipped before:
`Tight`), or is zero. The data needs exactly the bits its scale was made for (`InputTight`).

`KeepInv` is about the clips of the requantisations between two operators. What an input computes
at its threshold (`Units`), multiplied by the ratio of the scales, must come out of the
requantisation. Two things may take from it. Its shifts round, which costs up to two units
(`RescaleKeeps`, `EarlyShiftKeeps`). And the ratio is only approximated by a mantissa: the scale
told is at most one part in `MantissaPart` off (`MantissaExact`), so a clip made for the scale
asked may cut that part. It cuts no more, because the scale asked `Holds` the threshold
(`Unsaturated`), or the precision is computed from the scale told. The shift before a
multiplication, made when the input has too many bits for the word, leaves no more units than
the precision it declares holds (`Divided`), and the ratio left to multiply by is below two
(`NotDoubled`), so that a lost unit counts at most twice. The property says either of the two,
units or part. Demanding a single unit instead holds at some
widths only: with words of ten bits TLC finds a model that loses two. `Sampled` makes the
induction possible: thresholds are integers and what calibration saw is no more than what is
recorded.

### The drivers

The three invariants of `MrtPipeline` are layers, each proved on top of the one before.

`TrustInv` is about *where* a stage writes. What is queued belongs to the stage that dumps, and
the checkpoints which that stage outdates are not trusted meanwhile (`WritesOwn`,
`MergeUntrusted`); the stages left to run are in order and after the one started from
(`InOrder`, `Ahead`), so what an invocation may still load stays trusted (`StartTrusted`). From
this follows `CheckpointKept`, that no step changes a file of the checkpoint that was started
from.

`AgreeInv` is about *what* the files say. A checkpoint is written one file at a time, so an
invariant about `files` alone fails in the middle of every save. `Content` is what a file will
hold once the queue is written, and `Live` the checkpoints trusted then. `FilesFit` says that
each live checkpoint comes from one chain of stages, and fits the top half of the model where
it will be merged with it; `MemFits` says the same of the objects in the process, and that the
objects of stages to come are not bound yet; `FilesReady` that a stage of V3, which loads
everything anew, finds its predecessor's checkpoint live. A killed invocation loses its queue,
but then its checkpoint is no longer live.

`ReadyInv` is about *whether* the files are there. Whole objects are written (`WritesWhole`),
every file of a live checkpoint can be loaded, at the latest when the queue is written
(`StagesSound`); in V3 a checkpoint comes with its `.conf` file, the models that file speaks of
and the checkpoints before it (`ConfsSound`, `MergeReady`); the scripts have bound what their
next section takes (`Bound`).

### The calibration of YaQuant

`RangesHoldSamples` speaks of samples of readers that are finished, but `ranges` is computed from
`pending`, the runs of the reader in turn. `CalibrationInv` says what lies between: `pending`
holds the least and the greatest elements of exactly the samples read so far from that reader, in
order; `ranges` holds those of all readers before; and either every calibrated tensor has a range
or, before the first reader ends, none has: a tensor that got its range from a later reader only
would not hold the samples before. The same fact gives `TensorsRanged`, so that `RangesHold` does
not speak of an empty table. `compute_range` is a fold over the runs of a
reader, and `Extremal` and the lemmas about hulls carry "holds every element" through it, from 0
up to the number of runs (`NumbersUpTo`). After the calibration the ranges only move into the
quantiser, where nothing changes them.

### Only model-checked

- Liveness: `CompilationEnds`, `EveryCallReturns`, `ShutdownEnds`, `RequestsEnd`, `SavesModel`.
  It rests on fairness and ENABLED, which the prover does not handle.
- The properties of `MrtRewrite` and `CommandRegistry`, whose modules declare RECURSIVE operators
  (symbols, transposes and references are trees and graphs).
- `FitsWord` and `ScaleTruthful` of `MrtQuant`. Both are true of particular widths only: a sum of
  enough terms leaves any word, and how far a scale is off depends on the bits a mantissa has
  left.
- `OutputsKept` and `RecordedExist` of `YamrtQuantize`. They are statements about the graphs of the
  run: `yamrt_activation` has graphs on which the first is false.

## Not modelled

C++: numeric kernels (the executor's kernels are uninterpreted; the arithmetic of CVM operators
appears in `MrtOperators` as far as the compiled symbols need it), JSON and parameter formats,
symbol construction, registries filled before `main`, the device layer, GPU code. Concurrent
calls on one handle are not modelled: the code has no locks and promises none. Tensors passed
with a wrong shape or type are rejected before any state changes and are left out.

Python: importers from TensorFlow, Gluon, PyTorch and ONNX to MXNet (one rule per operator
between two external libraries), the older quantiser under `sym_pass.py` and `deprecated`,
the bindings under `python/cvm`, data sets and downloads. Of MRT: detection and sorting
operators, models with several outputs in the rewrites, ratio-based calibration (`lambd`), the thresholds
of an earlier calibration (`old_ths`, which no driver passes). Of V2: the
zero-point quantizer, the group convolution branch, and the moving-average and KL optimizers,
each of which raises when reached. Of YaQuant: subgraphs, histogram calibration, parameters
given by the caller, rounding inside a range.

## Plan

1. *(done)* `CvmGraph`, `PlanMemory`, its proofs; `MemoryPlan`, `GraphCompile`; `Dataflow`,
   `GraphRuntime`.
2. *(done)* The tools: `QuantArith`, `MrtQuant`, `MrtQuantV2`; `MrtFiles`, `MrtPipeline`;
   `MrtTensor` to `MrtRewrite`; `Yamrt*`; `ServiceThreads` with its proofs; `WebRuns`;
   `CommandRegistry`.
3. Proofs. *(done)* the planner with its accounts, the compiler, the executor and its
   refinement of `Dataflow`, `ServiceThreads`, `WebRuns`, all of `MrtPipeline`, the precisions,
   clips and requantisations of both quantisers, and the calibration of `YamrtQuantize`.
   *(open)* `RecordedExist`; that `GraphCompile` emits plans from which `GraphRuntime` may start,
   as a theorem about the two modules together.
4. `GraphLoad` (`PrepareGraphWithVersion`), `InferAttr` (the alternating sweeps and the
   runtime's forward pass), `ModelOutput` (`SaveTensor` against `GetOutputLength`), `ModelApi`
   (the C API and the Go kernel as owners of handles).
5. Histogram calibration of YaQuant; ratio calibration and splitting by key of MRT.
