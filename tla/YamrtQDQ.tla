------------------------------ MODULE YamrtQDQ ------------------------------
(***************************************************************************)
(* QDQQuantizer: the other format.  The operators stay float operators;    *)
(* the tensors to quantise are collected first, then a pair of a           *)
(* QuantizeLinear and a DequantizeLinear node is put behind each of them.  *)
(*                                                                         *)
(* The quantiser has four more fields: tensors, per_channel and bias, what *)
(* is collected, and removed, the positions of the nodes that go; and      *)
(* receivers, the readers of a tensor when each is to have its own pair.   *)
(***************************************************************************)
EXTENDS YamrtOps

(* quantize_tensor: a float weight, or a tensor inferred to be float.      *)
Wanted(q, name) == IF is_input_a_weight(q, name) THEN is_valid_quantize_weight(q, name) ELSE name \in q.floats
quantize_tensor(q, name) == IF Wanted(q, name) THEN [q EXCEPT !.tensors = Append(@, name)] ELSE q
quantize_tensor_per_channel(q, name) ==
  IF ~is_input_a_weight(q, name) THEN quantize_tensor(q, name)
  ELSE IF is_valid_quantize_weight(q, name) THEN [q EXCEPT !.per_channel = Append(@, name)] ELSE q
quantize_bias_tensor(q, node) ==
  IF is_valid_quantize_weight(q, node.inputs[3])
  THEN [q EXCEPT !.bias = Append(@, [name |-> node.inputs[3], input |-> node.inputs[1], weight |-> node.inputs[2]])]
  ELSE q

OutputKept(q, node) == node.op \notin q.cfg.excludeOutput
OutputTensors(q, node) == IF OutputKept(q, node) THEN node.outputs ELSE <<>>
QDQOperatorBase(q, node) ==
  Fold(LAMBDA a, name : quantize_tensor(a, name), q, node.inputs \o OutputTensors(q, node))
QDQConv(q, node) ==
  LET x == quantize_tensor(q, node.inputs[1])
      y == IF OutputKept(q, node) THEN quantize_tensor(x, node.outputs[1]) ELSE x
      w == IF q.cfg.per_channel THEN quantize_tensor_per_channel(y, node.inputs[2])
           ELSE quantize_tensor(y, node.inputs[2])
  IN  IF Len(node.inputs) = 3 THEN quantize_bias_tensor(w, node) ELSE w
QDQMatMul(q, node) ==
  Fold(LAMBDA a, name : IF q.cfg.per_channel /\ is_input_a_weight(a, name)
                            THEN quantize_tensor_per_channel(a, name) ELSE quantize_tensor(a, name),
           q, node.inputs \o OutputTensors(q, node))
QDQConcat(q, node) == quantize_tensor(QDQOperatorBase(q, node), node.outputs[1])
QDQDirect8BitOp(q, node) ==
  LET x == quantize_tensor(q, node.inputs[1])
  IN  IF OutputKept(q, node) THEN quantize_tensor(x, node.outputs[1]) ELSE x

(* try_replacing_upstream_output: the activation goes, and the node before *)
(* it writes the activation's output, which has the range to quantise by.  *)
(* The upstream tensor must be among those collected.                      *)
First(s, x) == Least({k \in DOMAIN s : s[k] = x})
Forget(s, x) == LET k == First(s, x) IN SubSeq(s, 1, k - 1) \o SubSeq(s, k + 1, Len(s))
QDQRemovableActivation(q, i) ==
  LET node == q.model.nodes[i]
      up == node.inputs[1]
      y == node.outputs[1]
  IN  IF \/ y \notin DOMAIN q.params \/ Len(Readers(q.model, up)) # 1 \/ is_graph_output(q.model, y) THEN q
      ELSE IF up \notin ToSet(q.tensors) THEN Fail(q)
      ELSE [q EXCEPT !.model = replace_output_of_all_nodes(@, up, y), !.tensors = Forget(@, up),
                     !.removed = @ \cup {i}]

CreateQDQQuantizer(q, i) ==
  LET node == q.model.nodes[i]
  IN CASE node.op = "Conv" -> QDQConv(q, node)
       [] node.op \in {"Clip", "Relu"} -> QDQRemovableActivation(q, i)
       [] node.op \in {"Reshape", "Transpose", "Squeeze", "Unsqueeze", "AveragePool"} -> QDQDirect8BitOp(q, node)
       [] node.op = "Resize" -> IF q.model.opset < 11 THEN q ELSE QDQDirect8BitOp(q, node)
       [] node.op = "MaxPool" -> IF q.model.opset < 12 THEN q ELSE QDQDirect8BitOp(q, node)
       [] node.op = "Concat" -> QDQConcat(q, node)
       [] node.op = "MatMul" -> QDQMatMul(q, node)
       [] OTHER -> QDQOperatorBase(q, node)
CollectOne(q, i) == IF should_quantize(q, q.model.nodes[i]) THEN CreateQDQQuantizer(q, i) ELSE q

ReceiversOf(q) ==
  LET positions == SelectSeq([i \in DOMAIN q.model.nodes |-> i], LAMBDA i : should_quantize(q, q.model.nodes[i]))
      all == UNION {ToSet(q.model.nodes[i].inputs) : i \in ToSet(positions)}
  IN  IF ~q.cfg.dedicated THEN <<>>
      ELSE [n \in all |-> FlattenSeq([k \in DOMAIN positions |->
              [j \in 1 .. Len(SelectSeq(q.model.nodes[positions[k]].inputs, LAMBDA m : m = n)) |-> positions[k]]])]
-----------------------------------------------------------------------------
Pair(from, middle, to, s, z) ==
  <<Node(middle, "QuantizeLinear", <<from, s, z>>, <<middle>>, <<>>),
    Node(to, "DequantizeLinear", <<middle, s, z>>, <<to>>, <<>>)>>
PairOn(q, from, middle, to, s, z, name) ==
  [q EXCEPT !.model = add_nodes(@, [k \in 1 .. 2 |-> [Pair(from, middle, to, s, z)[k] EXCEPT
                                      !.name = name \o <<"_QuantizeLinear", "_DequantizeLinear">>[k]]])]
Digits == <<"1", "2", "3", "4", "5", "6", "7", "8", "9">>

(* A weight: dequantised from its quantised form, or given a pair.         *)
QuantizeWeightTensor(q, name, weighed) ==
  LET s == name \o "_scale"
      z == name \o "_zero_point"
      y == name \o "_DequantizeLinear"
      dq == Node(y, "DequantizeLinear", <<name \o "_quantized", s, z>>, <<y>>, <<>>)
  IN  IF ~weighed.ok THEN weighed
      ELSE LET renamed == [weighed EXCEPT !.model = replace_input_of_all_nodes(@, name, y)]
           IN  IF q.cfg.pairToWeight THEN PairOn(renamed, name, name \o "_QuantizeLinear", y, s, z, name)
               ELSE [renamed EXCEPT !.model = add_nodes(@, <<dq>>)]

(* Another tensor: one pair, in front of a graph output and behind any     *)
(* other tensor, or a pair of its own for each receiver.                   *)
QuantizeActivation(p, q, name) ==
  LET mid == name \o "_QuantizeLinear"
      dq == name \o "_DequantizeLinear"
      output == is_graph_output(q.model, name)
      x == IF output THEN name \o "_QuantizeLinearInput" ELSE name
      y == IF output THEN name ELSE dq
      moved == [p.q EXCEPT !.model = IF output THEN replace_output_of_all_nodes(@, name, x)
                                     ELSE replace_input_of_all_nodes(@, name, y)]
  IN  Remember(PairOn(moved, x, mid, y, p.scale, p.zp, name), name, Value(y, p.scale, p.zp))
QuantizeForEach(p, q, name) ==
  LET r == q.receivers[name]
      y(k) == name \o "_DequantizeLinear_" \o Digits[k]
      step(a, k) ==
        LET b == [a EXCEPT !.model = add_nodes(@, Pair(name, name \o "_QuantizeLinear_" \o Digits[k], y(k), p.scale, p.zp))]
        IN  [b EXCEPT !.model = replace_node_input(@, r[k], name, y(k))]
  IN  Remember(Fold(step, p.q, [k \in DOMAIN r |-> k]), name, Value(y(Len(r)), p.scale, p.zp))

(* quantize_tensors, for one of them: a range is required.                 *)
QuantizeTensor(q, name) ==
  LET p == _get_quantization_params(q, name, {})
  IN  IF name \in DOMAIN q.map THEN q
      ELSE IF is_input_a_weight(q, name)
      THEN QuantizeWeightTensor(q, name, quantize_weight(q, name, q.cfg.weight, q.cfg.pairToWeight))
      ELSE IF ~p.found THEN Fail(q)
      ELSE IF q.cfg.dedicated /\ name \in DOMAIN q.receivers /\ Len(q.receivers[name]) > 1
      THEN QuantizeForEach(p, q, name) ELSE QuantizeActivation(p, q, name)

(* quantize_weights_per_channel asks for INT8, of opset 13 or above.       *)
quantize_weights_per_channel(q) ==
  IF q.model.opset < 13 /\ q.per_channel # <<>> THEN Fail(q)
  ELSE Fold(LAMBDA a, name :
                  QuantizeWeightTensor(a, name, quantize_weight_per_channel(a, name, "INT8", a.cfg.pairToWeight)),
                q, q.per_channel)

(* quantize_bias_tensors, for one of them: the float bias is replaced by   *)
(* the dequantised one, under its name.                                    *)
QuantizeBias(q, b) ==
  LET r == quantize_bias_static(q, b.name, b.input, b.weight)
      v == r.map[b.name]
      dq == Node(b.name \o "_DequantizeLinear", "DequantizeLinear", <<v.q, v.scale, v.zp>>, <<b.name>>, <<>>)
  IN  IF b.name \in DOMAIN q.map \/ ~r.ok THEN r
      ELSE [r EXCEPT !.model = add_nodes(remove_initializers(@, {b.name}), <<dq>>)]

RemoveNodes(q) == [q EXCEPT !.model = remove_nodes(@, q.removed)]
=============================================================================
