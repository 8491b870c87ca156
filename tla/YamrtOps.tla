------------------------------ MODULE YamrtOps ------------------------------
(***************************************************************************)
(* The quantiser of yamrt at work on one node: YAMRTQuantizer's handling   *)
(* of ranges, inputs, weights and biases (quantizer.py) and the operator   *)
(* quantisers of operators/ that the registry chooses from.                *)
(*                                                                         *)
(* A quantiser is a record: cfg, the options; model, the graph it reads;   *)
(* new_nodes, the graph it writes; map, quantized_value_map, from a tensor *)
(* to the names of its quantised form, scale and zero point; generated,    *)
(* the tensors that exist as floats in the new graph; params,              *)
(* quantization_params, from a tensor to its range; ok, FALSE once an      *)
(* exception is raised.                                                    *)
(***************************************************************************)
EXTENDS YamrtModel

Fail(q) == [q EXCEPT !.ok = FALSE]
Value(q_name, scale, zp) == [q |-> q_name, scale |-> scale, zp |-> zp]
Remember(q, name, value) == [q EXCEPT !.map = (name :> value) @@ @]
Emit(q, nodes) == [q EXCEPT !.new_nodes = @ \o nodes]
AddInit(q, name, T) == [q EXCEPT !.model = add_initializer(@, name, T)]
is_input_a_weight(q, name) == name \in DOMAIN q.model.inits
is_valid_quantize_weight(q, name) == is_input_a_weight(q, name) /\ q.model.inits[name].t = "float"

(* compute_scale_zp: zero is in the range, and in its middle if symmetric. *)
Around(lo, hi, symmetric) ==
  LET l == Least({lo, 0})
      h == Greatest({hi, 0})
      a == Greatest({0 - l, h})
  IN  IF symmetric THEN <<0 - a, a>> ELSE <<l, h>>
(* get_qmin_qmax_for_qType knows two types and raises for any other.       *)
QTypes == {"INT32", "UINT32"}

(* should_quantize, without subgraphs.                                     *)
should_quantize(q, node) ==
  /\ q.cfg.only # {} => node.name \in q.cfg.only
  /\ node.op \in q.cfg.types
  /\ node.name \notin q.cfg.exclude
  /\ q.cfg.constBOnly /\ node.op = "MatMul" => is_input_a_weight(q, node.inputs[2])

(* Mutant of Adopt: without the question whether others read the input.    *)
AdoptShared(q, ranges) ==
  Fold(LAMBDA r, node :
         IF /\ node.op \in {"Clip", "Relu"} /\ should_quantize(q, node)
            /\ {node.inputs[1], node.outputs[1]} \subseteq DOMAIN r
         THEN [r EXCEPT ![node.inputs[1]] = r[node.outputs[1]]] ELSE r,
       ranges, q.model.nodes)

(* calculate_quantization_params: the input of an activation to quantise   *)
(* that is its only reader takes the range of the activation's output,     *)
(* node after node, before the ranges become scales and zero points.       *)
Adopt(q, ranges) ==
  Fold(LAMBDA r, node :
             IF /\ node.op \in {"Clip", "Relu"} /\ should_quantize(q, node)
                /\ Len(Readers(q.model, node.inputs[1])) = 1
                /\ {node.inputs[1], node.outputs[1]} \subseteq DOMAIN r
             THEN [r EXCEPT ![node.inputs[1]] = r[node.outputs[1]]] ELSE r,
           ranges, q.model.nodes)
calculate_quantization_params(q, ranges) ==
  LET r == Adopt(q, ranges)
  IN  [n \in DOMAIN r |-> Ranges(<<Around(r[n][1], r[n][2], q.cfg.symmetricActivation)>>, <<>>)]
-----------------------------------------------------------------------------
(* _get_quantization_params: names for the parameters of a tensor, added   *)
(* to the initializers; found is FALSE when nothing is known of it.        *)
_get_quantization_params(q, name, given) ==
  LET s == name \o "_scale"
      z == name \o "_zero_point"
      use == IF given # {} THEN given ELSE IF name \in DOMAIN q.params THEN {q.params[name]} ELSE {}
  IN  IF use = {} THEN [q |-> q, found |-> FALSE, scale |-> "", zp |-> ""]
      ELSE LET r == CHOOSE r \in use : TRUE
           IN [q |-> AddInit(AddInit(q, z, Zero(r)), s, Scale(r)), found |-> TRUE, scale |-> s, zp |-> z]

(* _get_dynamic_input_quantization_params asks for the range of the type   *)
(* UINT8 or INT8, which is not one of QTypes.                              *)
_get_dynamic_input_quantization_params(q) == Fail(q)

(* _get_quantize_input_nodes.  Without a range there is no node in static  *)
(* mode; in dynamic mode nodes that compute the range are asked for.       *)
_get_quantize_input_nodes(q, name, given) ==
  LET p == IF given # <<>> THEN [q |-> q, found |-> TRUE, scale |-> given[1], zp |-> given[2]]
           ELSE _get_quantization_params(q, name, {})
      node == Node(name \o "_QuantizeLinear", "QuantizeLinear", <<name, p.scale, p.zp>>,
                   <<name \o "_quantized">>, <<>>)
  IN  IF p.found THEN [q |-> Remember(p.q, name, Value(name \o "_quantized", p.scale, p.zp)), nodes |-> <<node>>]
      ELSE [q |-> IF q.cfg.static THEN q ELSE _get_dynamic_input_quantization_params(q), nodes |-> <<>>]

(* quantize_weight and quantize_weight_per_channel: the weight's own range *)
(* or the range of each channel, each element a channel here.              *)
RangeOf(v, symmetric) == Around(Least(ToSet(v)), Greatest(ToSet(v)), symmetric)
AddWeight(q, name, r, keep_float) ==
  LET n == AddInit(AddInit(q, name \o "_scale", Scale(r)), name \o "_zero_point", Zero(r))
      v == Value(name \o "_quantized", name \o "_scale", name \o "_zero_point")
  IN  Remember(IF keep_float THEN n ELSE AddInit(n, v.q, Quantized(q.model.inits[name].v, r)), name, v)
quantize_weight(q, name, qType, keep_float) ==
  IF name \in DOMAIN q.map THEN q
  ELSE IF qType \notin QTypes \/ ~is_valid_quantize_weight(q, name) THEN Fail(q)
  ELSE AddWeight(q, name, Ranges(<<RangeOf(q.model.inits[name].v, q.cfg.symmetricWeight)>>, <<>>), keep_float)
quantize_weight_per_channel(q, name, qType, keep_float) ==
  IF name \in DOMAIN q.map THEN q
  ELSE IF qType \notin QTypes \/ ~is_valid_quantize_weight(q, name) THEN Fail(q)
  ELSE LET v == q.model.inits[name].v
       IN AddWeight(q, name, Ranges([i \in DOMAIN v |-> RangeOf(<<v[i]>>, q.cfg.symmetricWeight)], <<>>), keep_float)

contains_tensor(q, name) == name \in q.tensor_names \cup q.generated

(* quantize_inputs: the names for each input in turn, and the nodes that   *)
(* quantise them.  With no range for one of them there is nothing to give  *)
(* (some is FALSE); what was recorded for those before stays recorded.     *)
Taking(q) == [q |-> q, names |-> <<>>, zps |-> <<>>, scales |-> <<>>, nodes |-> <<>>, some |-> TRUE]
Take(r, q, v) == [r EXCEPT !.q = q, !.names = Append(@, v.q), !.zps = Append(@, v.zp), !.scales = Append(@, v.scale)]
TakeInput(r, node, i, qType, perChannel) ==
  LET q == r.q
      x == node.inputs[i]
      weighed == IF q.cfg.per_channel /\ perChannel THEN quantize_weight_per_channel(q, x, qType, FALSE)
                 ELSE quantize_weight(q, x, qType, FALSE)
      there == find_node_by_name(x \o "_QuantizeLinear", q.new_nodes, q.model)
      made == _get_quantize_input_nodes(q, x, <<>>)
  IN CASE ~q.ok \/ ~r.some -> r
       [] q.ok /\ r.some /\ x \in DOMAIN q.map -> Take(r, q, q.map[x])
       [] OTHER ->
          IF is_input_a_weight(q, x)
          THEN IF weighed.ok THEN Take(r, weighed, weighed.map[x]) ELSE [r EXCEPT !.q = weighed]
          ELSE IF ~contains_tensor(q, x) THEN [r EXCEPT !.q = Fail(q)]
          ELSE IF there # <<>>
          THEN Take(r, q, Value(there[1].outputs[1], there[1].inputs[2], there[1].inputs[3]))
          ELSE IF made.nodes = <<>> THEN [r EXCEPT !.q = made.q, !.some = FALSE]
          ELSE [Take(r, made.q, made.q.map[x]) EXCEPT !.nodes = @ \o made.nodes]
quantize_inputs(q, node, indices, qType, perChannel) ==
  Fold(LAMBDA r, i : TakeInput(r, node, i, qType, perChannel), Taking(q), indices)

(* quantize_bias_static: scale of the input times scale of the weight,     *)
(* under the name of the bias.                                             *)
quantize_bias_static(q, bias, input, weight) ==
  LET p == IF input \in DOMAIN q.map THEN [q |-> q, scale |-> q.map[input].scale]
           ELSE LET g == _get_quantization_params(q, input, {})
                IN  [q |-> IF g.found THEN g.q ELSE Fail(q), scale |-> g.scale]
      inits == p.q.model.inits
      b == bias \o "_quantized"
      r == Ranges(inits[p.scale].r.ch, inits[q.map[weight].scale].r.ch)
  IN  IF bias \in DOMAIN q.map THEN q
      ELSE IF \/ ~p.q.ok \/ weight \notin DOMAIN q.map \/ ~is_valid_quantize_weight(q, bias)
              \/ q.map[weight].scale \notin DOMAIN inits \/ p.scale \notin DOMAIN inits THEN Fail(q)
      ELSE Remember(AddInit(AddInit(AddInit(p.q, b, Quantized(inits[bias].v, r)), b \o "_scale", Scale(r)),
                            b \o "_zero_point", Zero(r)),
                    bias, Value(b, b \o "_scale", b \o "_zero_point"))

(* _dequantize_value: a node that turns a tensor back into floats, unless  *)
(* it exists as floats or such a node is there.                            *)
_dequantize_value(q, name) ==
  IF name \notin DOMAIN q.map \/ name \in q.generated THEN q
  ELSE LET there == find_node_by_name(name \o "_DequantizeLinear", q.new_nodes, q.model)
           v == q.map[name]
       IN  IF there = <<>>
           THEN Emit(q, <<Node(name \o "_DequantizeLinear", "DequantizeLinear", <<v.q, v.scale, v.zp>>, <<name>>, <<>>)>>)
           ELSE IF there[1].outputs[1] = name THEN q ELSE Fail(q)
(* Mutant: the outputs stay quantised.                                     *)
QuantizedOutputs(q) == q
_dequantize_outputs(q) == Fold(LAMBDA a, name : _dequantize_value(a, name), q, q.model.outputs)
-----------------------------------------------------------------------------
(* The operator quantisers.  QuantOperatorBase keeps the node and gives it *)
(* floats to read.                                                         *)
QuantOperatorBase(q, node) == Emit(Fold(LAMBDA a, x : _dequantize_value(a, x), q, node.inputs), <<node>>)
Quant(node) == OrUnnamed(node.name, "_quant")

(* Mutant: the nodes that quantise the inputs are forgotten.               *)
RecordedAlone(q, node, nodes, op, inputs, out) ==
  LET y == node.outputs[1] \o "_quantized"
  IN  Emit(Remember(q, node.outputs[1], Value(y, out.scale, out.zp)),
           <<Node(Quant(node), op, inputs, <<y>>, node.attr)>>)
(* What the operators with a range of their own have in common: the        *)
(* output's parameters and the quantised inputs, or the node is kept.      *)
Recorded(q, node, nodes, op, inputs, out) ==
  LET y == node.outputs[1] \o "_quantized"
  IN  Emit(Remember(q, node.outputs[1], Value(y, out.scale, out.zp)),
           nodes \o <<Node(Quant(node), op, inputs, <<y>>, node.attr)>>)
Interleaved(in) == FlattenSeq([k \in DOMAIN in.names |-> <<in.names[k], in.scales[k], in.zps[k]>>])
QLinearOp(q, node, given, indices, qType, perChannel) ==
  On(_get_quantization_params(q, node.outputs[1], given), LAMBDA out :
  On(quantize_inputs(out.q, node, indices, qType, perChannel), LAMBDA in :
  LET range == <<out.scale, out.zp>>
  IN  IF ~in.q.ok THEN in.q
      ELSE IF ~out.found \/ ~in.some THEN QuantOperatorBase(in.q, node)
      ELSE Recorded(in.q, node, in.nodes, "QLinear" \o node.op,
                    IF node.op = "Concat" THEN range \o Interleaved(in) ELSE Interleaved(in) \o range, out)))

(* QLinearActivation.QuantizeClipRelu: behind a quantised tensor the node  *)
(* is dropped and its output is that tensor.                               *)
QuantizeClipRelu(q, node) ==
  IF node.inputs[1] \notin DOMAIN q.map THEN Emit(q, <<node>>)
  ELSE Remember(q, node.outputs[1], q.map[node.inputs[1]])
(* Sigmoid may be given a fixed range for NNAPI: scale 1/256, zero 0.      *)
NnapiRange == Ranges(<<<<0, 16777216>>>>, <<>>)
QLinearActivation(q, node) ==
  IF node.op \in {"Relu", "Clip"} THEN QuantizeClipRelu(q, node)
  ELSE QLinearOp(q, node, IF node.op = "Sigmoid" /\ q.cfg.nnapi THEN {NnapiRange} ELSE {}, <<1>>, q.cfg.weight, FALSE)
QLinearBinaryOp(q, node) == QLinearOp(q, node, {}, <<1, 2>>, q.cfg.input, FALSE)
QLinearPool(q, node) == QLinearOp(q, node, {}, <<1>>, q.cfg.weight, FALSE)
QLinearMatMul(q, node) == QLinearOp(q, node, {}, <<1, 2>>, q.cfg.weight, TRUE)
QLinearConcat(q, node) == QLinearOp(q, node, {}, [i \in DOMAIN node.inputs |-> i], q.cfg.weight, FALSE)

(* QLinearConv: per channel, a weight not met before is asked for as INT8. *)
ConvInputs(q, node) ==
  LET w == node.inputs[2]
  IN  IF is_input_a_weight(q, w) /\ q.cfg.per_channel
      THEN On(quantize_inputs(q, node, <<1>>, q.cfg.weight, FALSE), LAMBDA x :
           On(quantize_weight_per_channel(x.q, w, "INT8", FALSE), LAMBDA weighed :
              IF weighed.ok /\ x.some THEN Take(x, weighed, weighed.map[w]) ELSE Taking(Fail(q))))
      ELSE quantize_inputs(q, node, <<1, 2>>, q.cfg.weight, FALSE)
QLinearConv_quantize(q, node) ==
  On(_get_quantization_params(q, node.outputs[1], {}), LAMBDA out :
  On(ConvInputs(out.q, node), LAMBDA in :
  LET biased == Len(node.inputs) = 3
      r == IF biased THEN quantize_bias_static(in.q, node.inputs[3], node.inputs[1], node.inputs[2]) ELSE in.q
      bias == IF biased THEN <<r.map[node.inputs[3]].q>> ELSE <<>>
  IN  IF ~in.q.ok THEN in.q
      ELSE IF ~out.found \/ ~in.some THEN QuantOperatorBase(in.q, node)
      ELSE IF ~r.ok THEN r
      ELSE Recorded(r, node, in.nodes, "QLinearConv", Interleaved(in) \o <<out.scale, out.zp>> \o bias, out)))

(* GlobalAveragePool: only behind a quantised tensor, whose parameters     *)
(* serve the output that has none of its own.                              *)
QGlobalAveragePool(q, node) ==
  LET v == q.map[node.inputs[1]]
      p == _get_quantization_params(q, node.outputs[1], {})
      out == IF p.found THEN p ELSE [p EXCEPT !.scale = v.scale, !.zp = v.zp]
  IN  IF node.inputs[1] \notin DOMAIN q.map THEN QuantOperatorBase(q, node)
      ELSE Recorded(p.q, node, <<>>, "QLinearGlobalAveragePool", <<v.q, v.scale, v.zp, out.scale, out.zp>>, out)

(* The node itself, between quantised tensors: the output has the          *)
(* parameters of the input.                                                *)
InPlace(q, node, nodes, v) ==
  LET y == node.outputs[1] \o "_quantized"
  IN  Emit(Remember(q, node.outputs[1], Value(y, v.scale, v.zp)),
           nodes \o <<[node EXCEPT !.inputs[1] = v.q, !.outputs[1] = y]>>)
InPlaceOfWeight(q, node) ==
  IF ~is_valid_quantize_weight(q, node.inputs[1]) THEN QuantOperatorBase(q, node)
  ELSE On(quantize_inputs(q, node, <<1>>, q.cfg.weight, FALSE), LAMBDA in :
          IF ~in.q.ok THEN in.q
          ELSE InPlace(in.q, node, in.nodes, Value(in.names[1], in.scales[1], in.zps[1])))
GatherQuant(q, node) == InPlaceOfWeight(q, node)
Direct8BitOp(q, node) ==
  IF q.cfg.force THEN InPlaceOfWeight(q, node)
  ELSE IF node.inputs[1] \in DOMAIN q.map THEN InPlace(q, node, <<>>, q.map[node.inputs[1]])
  ELSE Emit(q, <<node>>)
QMaxPool(q, node) == IF q.model.opset < 12 THEN QuantOperatorBase(q, node) ELSE Direct8BitOp(q, node)
QResize(q, node) == IF q.model.opset < 11 THEN QuantOperatorBase(q, node) ELSE Direct8BitOp(q, node)

(* QPad: a constant value is quantised by the parameters of the input and  *)
(* replaces the constant; without one the zero point is the value.  A      *)
(* value that is not an initializer ends in an error.                      *)
QPad(q, node) ==
  LET v == q.map[node.inputs[1]]
      inits == q.model.inits
      c == node.inputs[3]
      r == inits[v.scale].r
      constant == [q EXCEPT !.model = add_initializer(remove_initializers(@, {c}), c \o "_quantized",
                     Quantized([i \in DOMAIN inits[c].v |-> Clipped(inits[c].v[i], r.ch[1][1], r.ch[1][2])], r))]
  IN CASE q.model.opset < 11 \/ node.inputs[1] \notin DOMAIN q.map -> QuantOperatorBase(q, node)
       [] OTHER ->
          IF node.attr.mode # "constant" THEN InPlace(q, node, <<>>, v)
          ELSE IF Len(node.inputs) <= 2 THEN InPlace(q, [node EXCEPT !.inputs = Append(@, v.zp)], <<>>, v)
          ELSE IF ~{v.scale, v.zp} \subseteq DOMAIN inits THEN QuantOperatorBase(q, node)
          ELSE IF c \in DOMAIN inits THEN InPlace(constant, [node EXCEPT !.inputs[3] = c \o "_quantized"], <<>>, v)
          ELSE Fail(q)

(* QSplit: the outputs share the parameters of the input.  With the sizes  *)
(* of the parts as a second input, make_node gets None, the value of an    *)
(* extend, for its inputs: some releases of protobuf raise, others take it *)
(* for no inputs (takesNone).                                              *)
QSplit(q, node) ==
  On(quantize_inputs(q, node, <<1>>, q.cfg.weight, FALSE), LAMBDA in :
  LET y == [k \in DOMAIN node.outputs |-> node.outputs[k] \o "quantized"]
      map == [n \in ToSet(node.outputs) |->
                Value(y[CHOOSE k \in DOMAIN y : node.outputs[k] = n], in.scales[1], in.zps[1])]
  IN  IF ~in.q.ok THEN in.q
      ELSE IF ~in.some THEN QuantOperatorBase(in.q, node)
      ELSE IF Len(node.inputs) > 1 /\ ~q.cfg.takesNone THEN Fail(in.q)
      ELSE Emit([in.q EXCEPT !.map = map @@ @],
                in.nodes \o <<Node(Quant(node), "Split", IF Len(node.inputs) > 1 THEN <<>> ELSE in.names, y, node.attr)>>))
-----------------------------------------------------------------------------
(* Integer operators: their product is cast, and multiplied by the product *)
(* of the scales, which a node of that name may already compute.           *)
IntegerOp(q, node, perChannel) ==
  On(quantize_inputs(q, node, <<1, 2>>, q.cfg.weight, perChannel), LAMBDA in :
  LET acc == node.outputs[1] \o "_output_quantized"
      named == node.name # ""
      mul == IF named THEN Quant(node) \o "_scales_mul" ELSE in.scales[1] \o "_" \o in.scales[2] \o "_mul"
      there == find_by_name(mul, in.q.new_nodes)
      biased == node.op = "Conv" /\ Len(node.inputs) = 3
      out == node.outputs[1] \o (IF biased THEN "quant_scaled_output" ELSE "")
      product ==
        in.nodes \o
        <<Node(Quant(node), node.op \o "Integer", in.names \o in.zps, <<acc>>, node.attr),
          Node(acc \o "_cast", "Cast", <<acc>>, <<acc \o "_cast_output">>, <<>>)>>
        \o (IF there = <<>> THEN <<Node(mul, "Mul", in.scales, <<mul \o ":0">>, <<>>)>> ELSE <<>>)
        \o <<Node(IF named THEN Quant(node) \o "_output_scale_mul" ELSE "", "Mul",
                  <<acc \o "_cast_output", IF there = <<>> THEN mul \o ":0" ELSE there[1].outputs[1]>>, <<out>>, <<>>)>>
  IN  IF ~in.q.ok \/ ~in.some THEN [q |-> Fail(in.q), nodes |-> <<>>] ELSE [q |-> in.q, nodes |-> product])
MatMulInteger(q, node) == On(IntegerOp(q, node, TRUE), LAMBDA p : Emit(p.q, p.nodes))

(* ConvInteger.add_bias: the bias is added as a float, once reshaped.      *)
add_bias(q, node, nodes) ==
  LET y == node.outputs[1]
      shape == y \o "_bias_reshape_shape"
  IN  IF ~is_input_a_weight(q, node.inputs[2]) THEN Fail(q)
      ELSE Emit(AddInit(q, shape, Whole(<<1>>)),
                nodes \o <<Node("", "Reshape", <<node.inputs[3], shape>>, <<y \o "_bias_reshape_output">>, <<>>),
                           Node(y \o "_bias_add", "Add", <<y \o "quant_scaled_output", y \o "_bias_reshape_output">>,
                                <<y>>, <<>>)>>)
ConvInteger(q, node) ==
  On(IntegerOp(q, node, FALSE), LAMBDA p :
     IF p.q.ok /\ Len(node.inputs) = 3 THEN add_bias(p.q, node, p.nodes) ELSE Emit(p.q, p.nodes))

InputOr(node, i) == IF i <= Len(node.inputs) THEN node.inputs[i] ELSE ""
AttentionQuant(q, node) ==
  On(quantize_inputs(q, node, <<1, 2>>, q.cfg.weight, TRUE), LAMBDA in :
      IF node.attr.qkv_hidden_sizes THEN QuantOperatorBase(q, node)
      ELSE IF ~in.q.ok THEN in.q
      ELSE IF ~in.some THEN QuantOperatorBase(in.q, node)
      ELSE Emit(in.q, in.nodes \o
             <<Node(Quant(node), "QAttention",
                    in.names \o <<node.inputs[3]>> \o in.scales \o <<InputOr(node, 4)>> \o in.zps \o <<InputOr(node, 5)>>,
                    node.outputs, node.attr)>>))

EmbedLayerNormalizationQuant(q, node) ==
  On(quantize_inputs(q, node, <<3, 4, 5, 6, 7>>, q.cfg.weight, FALSE), LAMBDA in :
      IF Len(node.outputs) > 2 THEN QuantOperatorBase(q, node)
      ELSE IF ~in.q.ok THEN in.q
      ELSE IF ~in.some THEN QuantOperatorBase(in.q, node)
      ELSE Emit(in.q, in.nodes \o
             <<Node(Quant(node), "QEmbedLayerNormalization",
                    SubSeq(node.inputs, 1, 2) \o in.names \o <<InputOr(node, 8)>> \o in.scales \o in.zps,
                    node.outputs, node.attr)>>))

(* LSTMQuant asks for INT8 weights: for a weight of rank three that no     *)
(* other node has quantised, an error.                                     *)
LSTMQuant(q, node) ==
  LET w == SubSeq(node.inputs, 2, 3)
      done == quantize_weight_per_channel(quantize_weight_per_channel(q, w[1], "INT8", FALSE), w[2], "INT8", FALSE)
      v == [k \in 1 .. 2 |-> done.map[w[k]]]
  IN  IF \E k \in 1 .. 2 : ~is_valid_quantize_weight(q, w[k]) THEN QuantOperatorBase(q, node)
      ELSE IF ~node.attr.rank3 THEN QuantOperatorBase(q, node)
      ELSE IF ~done.ok THEN done
      ELSE _dequantize_value(
             Emit(done, <<Node(Quant(node), "DynamicQuantizeLSTM",
                               <<node.inputs[1], v[1].q, v[2].q>> \o [k \in 1 .. 5 |-> InputOr(node, 3 + k)]
                               \o <<v[1].scale, v[1].zp, v[2].scale, v[2].zp>>, node.outputs, node.attr)>>),
             node.inputs[1])
-----------------------------------------------------------------------------
(* registry.py: what quantises a node in either mode.                      *)
CommonOpsRegistry == {"Gather", "Transpose", "EmbedLayerNormalization"}
IntegerOpsRegistry == {"Conv", "MatMul", "Attention", "LSTM"} \cup CommonOpsRegistry
QLinearOpsRegistry ==
  {"Conv", "MatMul", "Add", "Mul", "Relu", "Clip", "LeakyRelu", "Sigmoid", "MaxPool", "GlobalAveragePool", "Split",
   "Pad", "Reshape", "Squeeze", "Unsqueeze", "Resize", "AveragePool", "Concat"} \cup CommonOpsRegistry

IntegerQuantizer(q, node) ==
  CASE node.op = "Conv" -> ConvInteger(q, node)
    [] node.op = "MatMul" -> MatMulInteger(q, node)
    [] node.op = "Attention" -> AttentionQuant(q, node)
    [] node.op = "LSTM" -> LSTMQuant(q, node)
QLinearQuantizer(q, node) ==
  CASE node.op = "Conv" -> QLinearConv_quantize(q, node)
    [] node.op = "MatMul" -> QLinearMatMul(q, node)
    [] node.op \in {"Add", "Mul"} -> QLinearBinaryOp(q, node)
    [] node.op \in {"Relu", "Clip", "LeakyRelu", "Sigmoid"} -> QLinearActivation(q, node)
    [] node.op = "MaxPool" -> QMaxPool(q, node)
    [] node.op = "GlobalAveragePool" -> QGlobalAveragePool(q, node)
    [] node.op = "Split" -> QSplit(q, node)
    [] node.op = "Pad" -> QPad(q, node)
    [] node.op \in {"Reshape", "Squeeze", "Unsqueeze"} -> Direct8BitOp(q, node)
    [] node.op = "Resize" -> QResize(q, node)
    [] node.op = "AveragePool" -> QLinearPool(q, node)
    [] node.op = "Concat" -> QLinearConcat(q, node)
CreateOpQuantizer(q, node) ==
  CASE node.op = "Gather" -> GatherQuant(q, node)
    [] node.op = "Transpose" -> Direct8BitOp(q, node)
    [] node.op = "EmbedLayerNormalization" -> EmbedLayerNormalizationQuant(q, node)
    [] node.op \in IntegerOpsRegistry \ CommonOpsRegistry /\ q.cfg.mode = "IntegerOps" -> IntegerQuantizer(q, node)
    [] node.op \in QLinearOpsRegistry \ CommonOpsRegistry /\ q.cfg.mode = "QLinearOps" -> QLinearQuantizer(q, node)
    [] OTHER -> QuantOperatorBase(q, node)

(* The body of quantize_model's loop: one node, and what it generated.     *)
QuantizeOne(q, node) ==
  On(IF should_quantize(q, node) THEN CreateOpQuantizer(q, node) ELSE QuantOperatorBase(q, node),
     LAMBDA r : [r EXCEPT !.generated = @ \cup UNION {ToSet(r.new_nodes[k].outputs) :
                                                      k \in Len(q.new_nodes) + 1 .. Len(r.new_nodes)}])
=============================================================================
