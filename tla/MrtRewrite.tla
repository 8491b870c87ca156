----------------------------- MODULE MrtRewrite -----------------------------
(***************************************************************************)
(* The graph passes of the tool, on real graphs over real tensors: a model *)
(* is prepared for quantisation (transformer.init), or prepared and cut    *)
(* into slices for the second generation (V2/transformer.py init and       *)
(* MRT.calibrate), and a quantised model is compiled to CVM                *)
(* (transformer.compile_to_cvm).  A model that is prepared is calibrated.  *)
(*                                                                         *)
(* The passes do not compare symbols, they look them up BY NAME: a pass    *)
(* sorts the symbol into a table of names, visits each name once, rebuilds *)
(* its operator over what the graph holds for the names of its arguments,  *)
(* and lets the operator's method replace it.                              *)
(***************************************************************************)
EXTENDS MrtCompile, MrtSlices

CONSTANTS
  Models,         \* models: symbol, parameters, input values, whether quantised
  InitPasses,     \* the passes of transformer.init, in order
  SlicePasses,    \* those of V2's init and calibrate
  CompilePasses   \* those of compile_to_cvm

VARIABLES
  model,    \* the model as it was given
  sym,      \* the symbol so far
  params,   \* name -> tensor
  stage,    \* passes finished
  order,    \* names the running pass has still to visit, <<>> between passes
  table,    \* symbol_map: name -> node, in the symbol the pass started from
  graph,    \* name -> node, the new symbol
  shapes,   \* infer_shapes: name -> shape
  cfg,      \* cfg_dict: name -> channels of a slice
  fresh,    \* how often N.n was called
  sampling, \* of sym_calibrate: out_cache, deps and th_dict
  status    \* "running", "idle" (between passes), "sampling", "refused" or "done"

vars == <<model, sym, params, stage, order, table, graph, shapes, cfg, fresh, sampling, status>>

-----------------------------------------------------------------------------
Pipeline == IF model.quantized THEN CompilePasses
            ELSE IF model.sliced THEN SlicePasses ELSE InitPasses

(* fuse_multiple_inputs: every input is a slice of one flat input, in the  *)
(* order of the visit.                                                     *)
RECURSIVE TotalSize(_, _)
TotalSize(names, c) ==
  IF names = {} THEN 0
  ELSE LET n == CHOOSE m \in names : TRUE
       IN  Size(c.shapes[n]) + TotalSize(names \ {n}, c)

fuse_multiple_inputs(x, c) ==
  LET before == {n \in DOMAIN c.graph : is_inputs(table[n], c.params)}
      first == TotalSize(before, c)
      shape == ShapeOf(x, c)
      part == Nd(NameN("slice", c, 0), "slice",
                 [begin |-> <<first>>, end |-> <<first + Size(shape)>>], <<Var(DATA_NAME)>>)
  IN  IF is_inputs(x, c.params)
      THEN Result(Nd(NameN("reshape", c, 0), "reshape", [shape |-> shape], <<part>>), c)
      ELSE Result(x, c)

(* input_name_replace: a single input is called data from then on.         *)
input_name_replace(x, c) ==
  Result(IF is_inputs(x, c.params) THEN [x EXCEPT !.name = DATA_NAME] ELSE x, c)

-----------------------------------------------------------------------------
(* topo_sort: breadth first from the output; the first node of a name      *)
(* stands for all; then names whose arguments are done, round by round.    *)
RECURSIVE Discover(_, _, _)
Discover(queue, names, map) ==
  IF queue = <<>> THEN [names |-> names, map |-> map]
  ELSE LET x == Head(queue)
           RECURSIVE Children(_, _, _, _)
           Children(i, q, ns, m) ==
             IF i > Len(x.args) THEN <<q, ns, m>>
             ELSE LET y == x.args[i]
                  IN  IF y.name \in DOMAIN m THEN Children(i + 1, q, ns, m)
                      ELSE Children(i + 1, Append(q, y), Append(ns, y.name), (y.name :> y) @@ m)
           next == Children(1, Tail(queue), names, map)
       IN  Discover(next[1], next[2], next[3])

RECURSIVE Reduce(_, _, _, _)
Reduce(names, map, i, done) ==
  IF Len(done) = Len(names) THEN done
  ELSE LET n == names[i]
           had == {done[k] : k \in DOMAIN done}
           next == IF i = Len(names) THEN 1 ELSE i + 1
       IN  IF n \notin had /\ \A k \in DOMAIN map[n].args : map[n].args[k].name \in had
           THEN Reduce(names, map, next, Append(done, n))
           ELSE Reduce(names, map, next, done)

topo_sort(s) ==
  LET found == Discover(<<s>>, <<s.name>>, s.name :> s)
  IN  [order |-> Reduce(found.names, found.map, 1, <<>>), table |-> found.map]

(* What the names stand for: the tensors, computed along the sort.         *)
RECURSIVE Tensors(_, _, _, _)
Tensors(sorted, k, env, v) ==
  IF k > Len(sorted.order) THEN v
  ELSE LET x == sorted.table[sorted.order[k]]
           arg(y) == LET z == [sorted.table[y.name] EXCEPT !.out = y.out]
                     IN  IF z.op = "SliceChannel"
                         THEN Apply(z, [j \in DOMAIN z.args |-> v[z.args[j].name]]) ELSE v[y.name]
           T == IF x.op = "null" THEN env[x.name]
                ELSE Apply(x, [i \in DOMAIN x.args |-> arg(x.args[i])])
       IN  Tensors(sorted, k + 1, env, (x.name :> T) @@ v)

InputsOf(m) == SelectSeq(topo_sort(m.sym).order, LAMBDA n : n \in DOMAIN m.inputs)
Merges(m) == Len(InputsOf(m)) > 1
SingleInput(m) ==
  DATA_NAME :> IF Merges(m) THEN concat([k \in DOMAIN InputsOf(m) |-> reshape(m.inputs[InputsOf(m)[k]], <<-1>>)], 0)
               ELSE m.inputs[InputsOf(m)[1]]

(* Whether the symbol is one of CVM by now, and what it computes.          *)
Compiled == \E k \in 1 .. stage : Pipeline[k] = "cvm"
Computes(env) == IF Compiled THEN EvalCvm(sym, env) ELSE Eval(sym, env)

(* The input values, in the form the symbol expects them by now.           *)
Env == params @@ (IF stage > 0 /\ ~model.quantized THEN SingleInput(model) ELSE model.inputs)

Callback(pass, x, c) ==
  CASE pass = "inputs" -> IF Merges(model) THEN fuse_multiple_inputs(x, c) ELSE input_name_replace(x, c)
    [] pass = "fuse_multiple_outputs" -> fuse_multiple_outputs(x, c)
    [] pass = "fuse_constant" -> fuse_constant(x, c)
    [] pass = "fuse_transpose" -> fuse_transpose(x, c)
    [] pass = "rewrite" -> rewrite(x, c)
    [] pass = "rewrite_v2" -> rewrite_v2(x, c)
    [] pass = "sym_separate_bias" -> sym_separate_bias(x, c)
    [] pass = "slice_channel" -> slice_channel(x, c)
    [] pass = "ais" -> attach_input_shape(x, model.inputs[DATA_NAME].shape, c)
    [] pass = "prepare_for_compile" -> prepare_for_compile(x, c)
    [] pass = "cvm" -> compile(x, c)

-----------------------------------------------------------------------------
Init ==
  /\ model \in Models
  /\ sym = model.sym /\ params = model.params
  /\ stage = 0 /\ status = "idle" /\ fresh = 1
  /\ order = <<>> /\ table = <<>> /\ graph = <<>> /\ shapes = <<>>
  /\ cfg = model.cfg /\ sampling = <<>>

(* A pass starts: it sorts the symbol and infers the shapes of all names.  *)
BeginPass ==
  /\ status = "idle" /\ Pipeline[stage + 1] \notin {"params", "config", "calibrate"}
  /\ \E sorted \in {topo_sort(sym)} : \E tensors \in {Tensors(sorted, 1, Env, <<>>)} :
         /\ order' = sorted.order
         /\ table' = sorted.table
         /\ shapes' = [n \in DOMAIN tensors |-> tensors[n].shape]
  /\ params' = IF Pipeline[stage + 1] = "fuse_constant"
               THEN [n \in DOMAIN params |-> Float32(params[n])] ELSE params
  /\ graph' = <<>> /\ status' = "running"
  /\ UNCHANGED <<model, sym, stage, cfg, fresh, sampling>>

(* get_node: what the graph has for the name, at the output meant.         *)
get_node(y, g) == IF y.op = "SliceChannel" THEN [g[y.name] EXCEPT !.out = y.out] ELSE g[y.name]

Rebuilt(x) == [x EXCEPT !.args = [i \in DOMAIN x.args |-> get_node(x.args[i], graph)]]

Visit ==
  /\ status = "running" /\ order # <<>>
  /\ LET name == Head(order)
         x == Rebuilt(table[name])
     IN  \E r \in {Callback(Pipeline[stage + 1], x, Context(params, graph, shapes, cfg, fresh))} :
         IF r.c.ok
         THEN /\ params' = r.c.params
              /\ graph' = (name :> r.op) @@ r.c.graph
              /\ cfg' = r.c.cfg
              /\ shapes' = (r.op.name :> shapes[name]) @@ shapes
              /\ order' = Tail(order) /\ fresh' = fresh + 1
              /\ UNCHANGED status
         ELSE /\ status' = "refused"
              /\ UNCHANGED <<params, graph, shapes, cfg, order, fresh>>
  /\ UNCHANGED <<model, sym, stage, table, sampling>>

EndPass ==
  /\ status = "running" /\ order = <<>>
  /\ sym' = get_node(sym, graph)
  /\ stage' = stage + 1
  /\ status' = "idle"
  /\ order' = <<>> /\ table' = <<>> /\ graph' = <<>> /\ shapes' = <<>>
  /\ UNCHANGED <<model, params, cfg, fresh, sampling>>

(* The parameters the symbol still has are stored; every input is data.    *)
StoreParams ==
  /\ status = "idle" /\ Pipeline[stage + 1] = "params"
  /\ LET t == topo_sort(sym).table
         leaves == {n \in DOMAIN t : t[n].op = "null"}
     IN  IF \A n \in leaves : Storable(t[n], params)
         THEN /\ params' = [n \in leaves \cap DOMAIN params |-> Stored(t[n], params[n])]
              /\ stage' = stage + 1 /\ status' = "done"
         ELSE /\ status' = "refused"
              /\ UNCHANGED <<params, stage>>
  /\ UNCHANGED <<model, sym, order, table, graph, shapes, cfg, fresh, sampling>>

(* MRT.calibrate starts: every node of the graph gets a configuration.     *)
ConfigInfos ==
  /\ status = "idle" /\ Pipeline[stage + 1] = "config"
  /\ cfg' = sym_config_infos({x.name : x \in NodesOf(sym)}, cfg)
  /\ stage' = stage + 1
  /\ UNCHANGED <<model, sym, params, order, table, graph, shapes, fresh, sampling, status>>

(* MRT.calibrate.  sym_calibrate notes who reads each name, ...            *)
Readers(t) ==
  [n \in UNION {{t[m].args[i].name : i \in DOMAIN t[m].args} : m \in DOMAIN t} |->
     {m \in DOMAIN t : \E i \in DOMAIN t[m].args : t[m].args[i].name = n}]

BeginSampling ==
  /\ status = "idle" /\ Pipeline[stage + 1] = "calibrate"
  /\ \E sorted \in {topo_sort(sym)} :
       /\ order' = sorted.order
       /\ table' = sorted.table
       /\ sampling' = [out_cache |-> <<>>, deps |-> Readers(sorted.table), th_dict |-> <<>>]
  /\ status' = "sampling"
  /\ UNCHANGED <<model, sym, params, stage, graph, shapes, cfg, fresh>>

(* _get_opt, without lambd: the largest magnitude in the tensor.           *)
get_opt(T) ==
  LET magnitudes == {IF a < 0 THEN -a ELSE a : a \in {T.data[k] : k \in DOMAIN T.data}}
  IN  <<CHOOSE m \in magnitudes : \A a \in magnitudes : a <= m, T.den>>

(* ... runs the operators one by one on what is cached, and drops a tensor *)
(* with its last reader.  No operator has several outputs by now.          *)
(* Mutant: with the first.                                                 *)
LeftAtFirst(name, read) == [n \in DOMAIN sampling.deps |-> IF n \in read THEN {} ELSE sampling.deps[n]]
Left(name, read) ==
  [n \in DOMAIN sampling.deps |-> IF n \in read THEN sampling.deps[n] \ {name} ELSE sampling.deps[n]]

Sampled(x) ==
  IF x.op = "null" THEN Float32(Env[x.name])
  ELSE Apply(x, [i \in DOMAIN x.args |-> sampling.out_cache[x.args[i].name]])

Sample ==
  /\ status = "sampling" /\ order # <<>>
  /\ LET x == table[Head(order)]
         read == {x.args[i].name : i \in DOMAIN x.args}
         deps == Left(x.name, read)
         kept == {n \in DOMAIN sampling.out_cache : n \in read => deps[n] # {}}
     IN  IF read \subseteq DOMAIN sampling.out_cache /\ (model.sliced => x.name \in DOMAIN cfg)
         THEN /\ \E T \in {Sampled(x)} :
                   sampling' = [out_cache |-> x.name :> T @@ [n \in kept |-> sampling.out_cache[n]],
                                deps |-> deps, th_dict |-> x.name :> get_opt(T) @@ sampling.th_dict]
              /\ order' = Tail(order)
              /\ UNCHANGED status
         ELSE status' = "refused" /\ UNCHANGED <<sampling, order>>
  /\ UNCHANGED <<model, sym, params, stage, table, graph, shapes, cfg, fresh>>

EndSampling ==
  /\ status = "sampling" /\ order = <<>>
  /\ sampling' = [sampling EXCEPT !.out_cache = <<>>]
  /\ table' = <<>> /\ stage' = stage + 1 /\ status' = "done"
  /\ UNCHANGED <<model, sym, params, order, graph, shapes, cfg, fresh>>

Stopped == status \in {"refused", "done"} /\ UNCHANGED vars

Next ==
  \/ BeginPass \/ Visit \/ EndPass \/ StoreParams \/ ConfigInfos
  \/ BeginSampling \/ Sample \/ EndSampling \/ Stopped

Spec == Init /\ [][Next]_vars
-----------------------------------------------------------------------------
(* Operators whose transformer registers the pass quantize.                *)
Quantizes ==
  {"null", "transpose", "relu", "Activation", "Convolution", "expand_dims", "repeat",
   "FullyConnected", "Pooling", "broadcast_mul", "broadcast_add", "broadcast_sub", "Concat",
   "sum", "Flatten", "slice", "reshape", "clip", "elemwise_add", "elemwise_sub", "Dropout",
   "tile", "negative", "squeeze", "batch_dot"}

(* Calibration holds a tensor exactly as long as an operator still to run  *)
(* reads it, the output to the end; it leaves, for every name of the graph *)
(* and no other, the magnitude of the tensor that name stands for.         *)
StillRead(n) == \E m \in {order[k] : k \in DOMAIN order} : \E i \in DOMAIN table[m].args : table[m].args[i].name = n

ThresholdsSampled ==
  /\ status = "sampling" =>
       DOMAIN sampling.out_cache = {n \in DOMAIN sampling.th_dict : n = sym.name \/ StillRead(n)}
  /\ status = "done" /\ ~model.quantized =>
       \E env \in {Env} : \E tensors \in {Tensors(topo_sort(sym), 1, [n \in DOMAIN env |-> Float32(env[n])], <<>>)} :
         sampling.th_dict = [n \in {x.name : x \in NodesOf(sym)} |-> get_opt(tensors[n])]

(* Every pass keeps what the model computes: exactly, and to within one    *)
(* unit where a mean is rounded.  The compiled symbol, with the parameters *)
(* as they are stored, computes what the quantised one does.               *)
SemanticsKept ==
  status \in {"idle", "done"} =>
    Within(Computes(Env), Eval(model.sym, model.params @@ model.inputs), model.tolerance)

(* No two operators of a symbol go by one name: the next pass would take   *)
(* one for the other.                                                      *)
NamesUnique ==
  status \in {"idle", "done"} =>
    LET same(x, y) == /\ x.op = y.op /\ x.attr = y.attr
                      /\ [i \in DOMAIN x.args |-> x.args[i].name] = [i \in DOMAIN y.args |-> y.args[i].name]
    IN  \A x, y \in NodesOf(sym) : x.name = y.name => same(x, y)

(* What comes out can be quantised: every operator has a quantize pass, if *)
(* the model has no mean and no sum that must be cut up, ...               *)
Decomposes(x) ==
  \/ x.op = "mean"
  \/ x.op = "FullyConnected" /\ Eval(x.args[2], model.params).shape[2] > MATRIX_MAXIMUM_SIZE

QuantizableUncut ==
  (\A x \in NodesOf(model.sym) : ~Decomposes(x)) =>
    \A x \in NodesOf(sym) : x.op \in IF model.sliced THEN QuantizesV2 ELSE Quantizes

(* ... and no product sums more terms than a word has room for.            *)
MatrixBounded ==
  \A x \in NodesOf(sym) :
    /\ x.op = "FullyConnected" => Eval(x.args[2], Env).shape[2] <= MATRIX_MAXIMUM_SIZE
    /\ x.op = "batch_dot" => Eval(x.args[1], Env).shape[3] <= MATRIX_MAXIMUM_SIZE

(* What was cut into slices is not to be cut again.                        *)
SlicedWhole ==
  model.sliced => \A x \in NodesOf(sym) : x.op = "Convolution" => cfg[x.name] = LAYER_WISE_TYPE

ReadyToQuantize ==
  status = "done" /\ ~model.quantized => QuantizableUncut /\ MatrixBounded /\ SlicedWhole

(* A model is refused only for a form the tool does not support.           *)
OnlyUnsupportedRefused == status = "refused" => ~model.supported
=============================================================================
