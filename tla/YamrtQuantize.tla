--------------------------- MODULE YamrtQuantize ---------------------------
(***************************************************************************)
(* The quantisation of an ONNX model by yamrt: quantize_static with its    *)
(* calibration, quantize_dynamic, quantize_qat and quantize (quantize.py)  *)
(* over YAMRTQuantizer and QDQQuantizer.                                   *)
(*                                                                         *)
(* One step is one call of the calibration's data reader, one node, one    *)
(* tensor or one bias; an exception anywhere ends in stage "raised".       *)
(***************************************************************************)
EXTENDS YamrtQDQ

CONSTANTS
  Sources   \* the calls made: model, samples, options and data readers

VARIABLES
  src,      \* the call
  model,    \* the model as load_model left it
  reader,   \* the data reader being read, and the samples it has given
  pending,  \* intermediate_outputs: what the runs on those samples gave
  ranges,   \* calibrate_tensors_range
  q,        \* the quantiser
  next,     \* nodes, tensors or biases done in this stage
  stage

vars == <<src, model, reader, pending, ranges, q, next, stage>>
-----------------------------------------------------------------------------
(* load_model splits Gemm; quantize and quantize_qat take the model as it  *)
(* is.                                                                     *)
Loaded(s) ==
  IF s.api \in {"static", "dynamic"} /\ s.optimize THEN replace_gemm_with_matmul(s.graph) ELSE s.graph

(* The calibration.  select_tensors_to_calibrate: the float tensors that   *)
(* the operators to calibrate read or write, no initializers.              *)
Floats(graph) == (ToSet(graph.inputs) \cup Produced(graph)) \ (graph.ints \cup graph.unknown)
select_tensors_to_calibrate(graph, types) ==
  UNION {ToSet(graph.nodes[i].inputs) \cup ToSet(graph.nodes[i].outputs) :
           i \in {j \in DOMAIN graph.nodes : graph.nodes[j].op \in types}}
    \cap (Floats(graph) \ DOMAIN graph.inits)

(* The readers give samples there are, and a run on one of these computes  *)
(* at least one number for every tensor to calibrate.                      *)
ASSUME SourcesAssumption ==
  \A s \in Sources : s.api = "static" =>
    /\ s.readers \in Seq(Seq(DOMAIN s.samples))
    /\ \A k \in DOMAIN s.samples : \A n \in select_tensors_to_calibrate(Loaded(s), s.cfg.types) :
         Run(Loaded(s), s.samples[k])[n].v \in Seq(Int) \ {<<>>}

(* MinMaxCalibrater: least and greatest element of every tensor in a run.  *)
Extremes(graph, types, sample) ==
  On(Run(graph, sample), LAMBDA env :
     [n \in select_tensors_to_calibrate(graph, types) |->
        <<Least(ToSet(env[n].v)), Greatest(ToSet(env[n].v))>>])
Hull(a, b) == <<Least({a[1], b[1]}), Greatest({a[2], b[2]})>>
(* Mutant: the last reader decides.                                        *)
LatestRange(old, new) == new @@ old
merge_range(old, new) == [n \in DOMAIN new |-> IF n \in DOMAIN old THEN Hull(old[n], new[n]) ELSE new[n]]
compute_range(old, runs) ==
  LET new == [n \in DOMAIN runs[1] |-> Fold(LAMBDA r, e : Hull(r, e[n]), runs[1][n], runs)]
  IN  IF old = <<>> THEN new ELSE merge_range(old, new)

(* The quantiser is made.  Without exactly one ai.onnx domain (opset 0)    *)
(* that is an error, and an older opset becomes 11.  quantize hands on the *)
(* flags symmetric_weight and symmetric_activation as the two types, so    *)
(* both types are UINT32 whatever the flags say.  WeightSymmetric among    *)
(* the extra options (symmetricWeight, empty without it) has the last word *)
(* on the weights' ranges, and a type of INT32 decides in its absence.     *)
Types(s) == IF s.api = "quantize" THEN [s.cfg EXCEPT !.weight = "UINT32", !.input = "UINT32",
                                                     !.symmetricWeight = FALSE, !.symmetricActivation = FALSE]
            ELSE [s.cfg EXCEPT !.symmetricWeight = @ = {TRUE} \/ (@ = {} /\ s.cfg.weight = "INT32")]
NewQuantizer(s, graph, r) ==
  LET aged == [graph EXCEPT !.opset = IF @ < 10 THEN 11 ELSE @]
      new == [cfg |-> Types(s), model |-> aged, map |-> <<>>, new_nodes |-> <<>>, params |-> <<>>,
              generated |-> get_non_initializer_inputs(graph),
              tensor_names |-> Produced(graph) \cup ToSet(graph.inputs) \cup ToSet(graph.outputs),
              floats |-> Floats(graph), tensors |-> <<>>, per_channel |-> <<>>, bias |-> <<>>,
              removed |-> {}, receivers |-> <<>>, ok |-> graph.opset # 0]
  IN  [new EXCEPT !.params = calculate_quantization_params(new, r)]

(* remove_fake_quantized_nodes, for the QuantizeLinear node at i: the last *)
(* DequantizeLinear behind it goes with it, its readers get the tensor in  *)
(* front, and the parameters are those of the pair.                        *)
Bypass(a, i) ==
  LET node == a.q.model.nodes[i]
      dqs == SelectSeq(get_children(a.q.model, i), LAMBDA j : a.q.model.nodes[j].op = "DequantizeLinear")
      dq == dqs[Len(dqs)]
  IN  IF node.op # "QuantizeLinear" \/ ~a.q.ok THEN a
      ELSE IF \/ dqs = <<>> \/ get_parent(a.q.model, i, 1) = {} \/ get_children(a.q.model, dq) = <<>>
              \/ ~{node.inputs[2], node.inputs[3]} \subseteq DOMAIN a.q.model.inits
           THEN [a EXCEPT !.q = Fail(@)]
      ELSE [a EXCEPT !.q.model = replace_input_of_all_nodes(@, a.q.model.nodes[dq].outputs[1], node.inputs[1]),
                     !.q.params = (node.inputs[1] :> a.q.model.inits[node.inputs[2]].r) @@ @,
                     !.nodes = @ \cup {i, dq}, !.inits = @ \cup {node.inputs[2], node.inputs[3]}]
remove_fake_quantized_nodes(quantizer) ==
  LET a == Fold(Bypass, [q |-> quantizer, nodes |-> {}, inits |-> {}],
                    [i \in DOMAIN quantizer.model.nodes |-> i])
  IN  [a.q EXCEPT !.model = remove_initializers(remove_nodes(@, a.nodes), a.inits)]

(* CleanGraphInitializers: initializers nobody asks for go; what is asked  *)
(* for and is nowhere is reported.                                         *)
Requested(graph) ==
  (UNION {ToSet(DependsOn(graph.nodes[i])) : i \in DOMAIN graph.nodes} \cup ToSet(graph.outputs)) \ Produced(graph)
CleanGraphInitializers(graph) == remove_initializers(graph, DOMAIN graph.inits \ Requested(graph))
NotFound(graph) == Requested(graph) \ (DOMAIN graph.inits \cup ToSet(graph.inputs))
-----------------------------------------------------------------------------
Init ==
  /\ src \in Sources
  /\ model = src.graph
  /\ reader = <<1, 0>>
  /\ pending = <<>>
  /\ ranges = <<>>
  /\ q = <<>>
  /\ next = 0
  /\ stage = "load"

Become(quantizer, s) ==
  \E new \in {quantizer} :
    /\ q' = new
    /\ stage' = IF new.ok THEN s ELSE "raised"

(* Only quantize_static calibrates.                                        *)
Load ==
  /\ stage = "load"
  /\ model' = Loaded(src)
  /\ stage' = IF src.api = "static" THEN "calibrate" ELSE "create"
  /\ UNCHANGED <<src, reader, pending, ranges, q, next>>

(* collect_data, get_next: another sample is run.                          *)
GetNext ==
  /\ stage = "calibrate" /\ reader[1] <= Len(src.readers)
  /\ reader[2] < Len(src.readers[reader[1]])
  /\ LET sample == src.samples[src.readers[reader[1]][reader[2] + 1]]
     IN  pending' = Append(pending, Extremes(model, src.cfg.types, sample))
  /\ reader' = [reader EXCEPT ![2] = @ + 1]
  /\ UNCHANGED <<src, model, ranges, q, next, stage>>

(* The reader is at its end: the ranges are computed, and merged with      *)
(* those of the readers before.                                            *)
EndOfData ==
  /\ stage = "calibrate" /\ reader[1] <= Len(src.readers)
  /\ reader[2] = Len(src.readers[reader[1]])
  /\ IF pending = <<>> THEN stage' = "raised" /\ UNCHANGED ranges
     ELSE ranges' = compute_range(ranges, pending) /\ UNCHANGED stage
  /\ pending' = <<>>
  /\ reader' = <<reader[1] + 1, 0>>
  /\ UNCHANGED <<src, model, q, next>>

Create ==
  /\ \/ stage = "create"
     \/ stage = "calibrate" /\ reader[1] > Len(src.readers)
  /\ Become(NewQuantizer(src, model, ranges), "begin")
  /\ UNCHANGED <<src, model, reader, pending, ranges, next>>

(* quantize_model begins.                                                  *)
Begin ==
  /\ stage = "begin"
  /\ Become(IF src.cfg.qdq THEN [q EXCEPT !.receivers = ReceiversOf(q)] ELSE remove_fake_quantized_nodes(q), "nodes")
  /\ next' = 0
  /\ UNCHANGED <<src, model, reader, pending, ranges>>

QuantizeNode ==
  /\ stage = "nodes" /\ next < Len(q.model.nodes)
  /\ Become(IF src.cfg.qdq THEN CollectOne(q, next + 1) ELSE QuantizeOne(q, q.model.nodes[next + 1]), "nodes")
  /\ next' = next + 1
  /\ UNCHANGED <<src, model, reader, pending, ranges>>

(* The graph is put together; a tensor that is nowhere is an error.        *)
Finish ==
  /\ stage = "nodes" /\ next = Len(q.model.nodes) /\ ~src.cfg.qdq
  /\ LET done == _dequantize_outputs(q)
         clean == CleanGraphInitializers([done.model EXCEPT !.nodes = done.new_nodes])
     IN  Become([done EXCEPT !.model = clean, !.ok = @ /\ NotFound(clean) = {}], "save")
  /\ UNCHANGED <<src, model, reader, pending, ranges, next>>

(* QDQ: quantize_tensors, one at a time, the weights by channel, and the   *)
(* biases, one at a time.                                                  *)
BeginTensors ==
  /\ stage = "nodes" /\ next = Len(q.model.nodes) /\ src.cfg.qdq
  /\ stage' = "tensors" /\ next' = 0
  /\ UNCHANGED <<src, model, reader, pending, ranges, q>>
QuantizeNextTensor ==
  /\ stage = "tensors" /\ next < Len(q.tensors)
  /\ Become(QuantizeTensor(q, q.tensors[next + 1]), "tensors")
  /\ next' = next + 1
  /\ UNCHANGED <<src, model, reader, pending, ranges>>
QuantizeWeights ==
  /\ stage = "tensors" /\ next = Len(q.tensors)
  /\ Become(quantize_weights_per_channel(q), "biases")
  /\ next' = 0
  /\ UNCHANGED <<src, model, reader, pending, ranges>>
QuantizeNextBias ==
  /\ stage = "biases" /\ next < Len(q.bias)
  /\ Become(QuantizeBias(q, q.bias[next + 1]), "biases")
  /\ next' = next + 1
  /\ UNCHANGED <<src, model, reader, pending, ranges>>
FinishPairs ==
  /\ stage = "biases" /\ next = Len(q.bias)
  /\ LET done == RemoveNodes(q)
     IN  Become([done EXCEPT !.model = IF src.cfg.pairToWeight THEN @ ELSE CleanGraphInitializers(@)], "save")
  /\ UNCHANGED <<src, model, reader, pending, ranges, next>>

(* save_model_to_file sorts the graph first.                               *)
Save ==
  /\ stage = "save"
  /\ LET sorted == topological_sort(q.model)
     IN  Become([q EXCEPT !.model = sorted.graph, !.ok = sorted.ok \/ src.api = "quantize"], "saved")
  /\ UNCHANGED <<src, model, reader, pending, ranges, next>>

Next ==
  \/ Load \/ GetNext \/ EndOfData \/ Create \/ Begin \/ QuantizeNode \/ Finish
  \/ BeginTensors \/ QuantizeNextTensor \/ QuantizeWeights \/ QuantizeNextBias \/ FinishPairs \/ Save

Spec == Init /\ [][Next]_vars /\ WF_vars(Next)
-----------------------------------------------------------------------------
(* Two cases in which the saved model is another one, against what the     *)
(* code says of itself.  quantize_bias_static looks a bias up by name      *)
(* alone, so that a second convolution adds it at the scale of the first   *)
(* one's input and weight (quantizer.py:545, 549).  And a split by sizes   *)
(* is saved without inputs if protobuf lets it (split.py:24, 34).          *)
Chosen(ops) ==
  {i \in DOMAIN model.nodes :
     model.nodes[i].op \in ops /\ should_quantize([cfg |-> src.cfg, model |-> model], model.nodes[i])}
SharesBias ==
  \E i, j \in Chosen({"Conv"}) :
    i # j /\ \E k \in DOMAIN model.nodes[i].inputs \cap DOMAIN model.nodes[j].inputs :
               k = 3 /\ model.nodes[i].inputs[k] = model.nodes[j].inputs[k]
SplitsBySizes == \E i \in Chosen({"Split"}) : Len(model.nodes[i].inputs) > 1

(* The quantised model computes on the samples it was calibrated with what *)
(* the model computes, but for these two cases: every range holds the      *)
(* tensor's values, every quantised tensor is read with its own scale and  *)
(* zero point, and what an activation cuts off is cut off by the range     *)
(* that replaces it.                                                       *)
OutputsKept ==
  stage = "saved" /\ ~SharesBias /\ ~SplitsBySizes =>
    \A k \in DOMAIN src.samples : Outputs(q.model, src.samples[k]) = Outputs(src.graph, src.samples[k])

(* An operator is given up, and kept as it is, when an input or its output *)
(* has no range.  The inputs before that one are then on record although   *)
(* the nodes that quantise them are dropped (quantizer.py:533-534, 662).   *)
Unranged(node) == (ToSet(node.inputs) \cup ToSet(node.outputs)) \cap model.unknown # {}
GivenUpWith(n) ==
  \E i \in 1 .. next :
    LET node == q.model.nodes[i]
    IN  n \in ToSet(node.inputs) /\ Unranged(node) /\ node \in ToSet(q.new_nodes)

(* Between two nodes every tensor on record as quantised exists in the new *)
(* graph, with its scale and zero point, for a later node to read          *)
(* (quantizer.py:632); only the inputs of an operator that was given up    *)
(* may be on record for nothing.                                           *)
RecordedExist ==
  (stage = "nodes" /\ ~src.cfg.qdq) =>
    \A n \in DOMAIN q.map :
      \/ {q.map[n].q, q.map[n].scale, q.map[n].zp} \subseteq
            UNION {ToSet(q.new_nodes[i].outputs) : i \in DOMAIN q.new_nodes} \cup DOMAIN q.model.inits
      \/ GivenUpWith(n)

(* The ranges hold every element of every tensor in every sample of the    *)
(* readers that were read to their end, however the samples were split.    *)
RangesHoldSamples ==
  \A k \in 1 .. reader[1] - 1 : \A i \in DOMAIN src.readers[k] :
    LET env == Run(model, src.samples[src.readers[k][i]])
    IN  \A n \in DOMAIN ranges : \A e \in ToSet(env[n].v) : ranges[n][1] <= e /\ e <= ranges[n][2]

(* Exactly the calls the quantiser cannot serve raise; every other one     *)
(* ends with a saved model.  It cannot serve: a model without an ai.onnx   *)
(* operator set, a reader without samples, weights by channel for a        *)
(* convolution; an LSTM with weights of rank three; a split with sizes     *)
(* where protobuf raises; a pair behind an input of the model; among pairs *)
(* an activation of one.  Against its own comments it cannot serve either  *)
(* of two others.  In dynamic mode nodes are announced that compute the    *)
(* range of an input that has none (quantizer.py:520-521), but the type    *)
(* asked for makes get_qmin_qmax_for_qType raise (RangeUnknown).  And a    *)
(* tensor left on record by an operator that was given up is taken for     *)
(* quantised already by the next one (quantizer.py:632; Stranded).         *)
Unserved ==
  \/ src.graph.opset = 0
  \/ src.api = "static" /\ \E k \in DOMAIN src.readers : src.readers[k] = <<>>
  \/ src.cfg.per_channel /\ Chosen({"Conv"}) # {}
  \/ ~src.cfg.qdq /\ \E i \in DOMAIN model.nodes :
       model.nodes[i].op = "QuantizeLinear" /\ get_parent(model, i, 1) = {}
  \/ \E i \in Chosen({"LSTM"}) : model.nodes[i].attr.rank3
  \/ ~src.cfg.takesNone /\ SplitsBySizes
  \/ src.cfg.qdq /\ \E i \in Chosen({"Relu", "Clip"}) :
       /\ model.nodes[i].inputs[1] \in ToSet(model.inputs)
       /\ Readers(model, model.nodes[i].inputs[1]) = <<i>> /\ ~is_graph_output(model, model.nodes[i].outputs[1])
RangeUnknown ==
  src.cfg.mode = "IntegerOps" /\ \E i \in Chosen({"Conv", "MatMul", "Attention"}) :
    /\ model.nodes[i].inputs[1] \notin DOMAIN model.inits
    /\ \A j \in get_parent(model, i, 1) : model.nodes[j].op # "DequantizeLinear"
Stranded ==
  ~src.cfg.qdq /\ \E i, j \in Chosen(src.cfg.types) :
    LET given == model.nodes[i].inputs
    IN  i < j /\ ~Unranged(model.nodes[j]) /\ \E k, m \in DOMAIN given :
          /\ k < m /\ given[m] \in model.unknown
          /\ \A l \in 1 .. k : given[l] \notin model.unknown
          /\ given[k] \in ToSet(model.nodes[j].inputs) \ DOMAIN model.inits
SavesModel ==
  <>(stage = IF Unserved \/ RangeUnknown \/ Stranded THEN "raised" ELSE "saved")
=============================================================================
