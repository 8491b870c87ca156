----------------------------- MODULE YamrtModel -----------------------------
(***************************************************************************)
(* ONNX graphs as the quantiser of yamrt reads and writes them: the        *)
(* helpers of onnx_model.py, and what the operators compute, of the source *)
(* model and of the quantised one.  ONNX and its runtime are not part of   *)
(* the repository; their operators stand here as the quantiser uses them.  *)
(*                                                                         *)
(* A tensor is a short sequence of integers.  A quantised tensor carries   *)
(* the range its scale and zero point were computed from: quantising       *)
(* saturates at that range, and reading the result with the scale or the   *)
(* zero point of another range gives nothing that can be relied on.        *)
(***************************************************************************)
EXTENDS Integers, SequencesExt, FiniteSetsExt

Node(name, op, inputs, outputs, attr) ==
  [name |-> name, op |-> op, inputs |-> inputs, outputs |-> outputs, attr |-> attr]

(* Scale and zero point come from one range per channel; the scale of a    *)
(* bias is the product of two scales, by holds the ranges of the second.   *)
Ranges(ch, by) == [ch |-> ch, by |-> by]
Float(v) == [t |-> "float", v |-> v]
Whole(v) == [t |-> "int", v |-> v]
Quantized(v, r) == [t |-> "q", v |-> v, r |-> r]
Scale(r) == [t |-> "scale", r |-> r]
Zero(r) == [t |-> "zero", r |-> r]
Garbage == [t |-> "garbage"]
None == [t |-> "none"]

(* f(v) with v evaluated once however often f names it, and a fold from    *)
(* the left that does so at every step.                                    *)
On(v, f(_)) == CHOOSE r \in {f(a) : a \in {v}} : TRUE
Fold(op(_, _), base, seq) ==
  LET f[i \in 0 .. Len(seq)] ==
        IF i = 0 THEN base ELSE CHOOSE r \in {op(a, seq[i]) : a \in {f[i - 1]}} : TRUE
  IN  f[Len(seq)]

Least(S) == CHOOSE a \in S : \A b \in S : a <= b
Greatest(S) == CHOOSE a \in S : \A b \in S : a >= b
Sum(v) == FoldLeft(LAMBDA a, b : a + b, 0, v)
Clipped(a, lo, hi) == IF a < lo THEN lo ELSE IF a > hi THEN hi ELSE a
Repeat2(v) == [i \in 1 .. 2 * Len(v) |-> v[(i + 1) \div 2]]
-----------------------------------------------------------------------------
(* onnx_model.py.                                                          *)
Names(graph) == {graph.nodes[i].name : i \in DOMAIN graph.nodes}
Produced(graph) == UNION {ToSet(graph.nodes[i].outputs) : i \in DOMAIN graph.nodes}
find_by_name(name, nodes) == SelectSeq(nodes, LAMBDA n : n.name = name)
find_node_by_name(name, new_nodes, graph) == find_by_name(name, graph.nodes \o new_nodes)
is_graph_output(graph, name) == name \in ToSet(graph.outputs)
get_non_initializer_inputs(graph) == ToSet(graph.inputs) \ DOMAIN graph.inits

(* add_initializer asks whether the name is taken; a second tensor that is *)
(* appended under a name is never found, for the first one comes first.    *)
add_initializer(graph, name, T) == [graph EXCEPT !.inits = @ @@ (name :> T)]

(* A weight that is also a graph input leaves the inputs with it.          *)
remove_initializers(graph, names) ==
  [graph EXCEPT !.inits = [n \in DOMAIN @ \ names |-> @[n]],
                !.inputs = SelectSeq(@, LAMBDA n : n \notin names \cap DOMAIN graph.inits)]

add_nodes(graph, nodes) == [graph EXCEPT !.nodes = @ \o nodes]
remove_nodes(graph, positions) ==
  [graph EXCEPT !.nodes = LET kept == SelectSeq([i \in DOMAIN @ |-> i], LAMBDA i : i \notin positions)
                          IN  [k \in DOMAIN kept |-> graph.nodes[kept[k]]]]

Renamed(s, old, new) == [i \in DOMAIN s |-> IF s[i] = old THEN new ELSE s[i]]
replace_node_input(graph, i, old, new) == [graph EXCEPT !.nodes[i].inputs = Renamed(@, old, new)]
replace_input_of_all_nodes(graph, old, new) ==
  [graph EXCEPT !.nodes = [i \in DOMAIN @ |-> [@[i] EXCEPT !.inputs = Renamed(@, old, new)]]]
replace_output_of_all_nodes(graph, old, new) ==
  [graph EXCEPT !.nodes = [i \in DOMAIN @ |-> [@[i] EXCEPT !.outputs = Renamed(@, old, new)]]]

(* input_name_to_nodes: the positions of the readers of a tensor, once for *)
(* every input that reads it.                                              *)
Readers(graph, name) ==
  Fold(LAMBDA acc, i : acc \o [k \in 1 .. Len(SelectSeq(graph.nodes[i].inputs, LAMBDA n : n = name)) |-> i],
           <<>>, [i \in DOMAIN graph.nodes |-> i])
get_children(graph, i) ==
  Fold(LAMBDA acc, name : acc \o Readers(graph, name), <<>>, graph.nodes[i].outputs)
get_parent(graph, i, k) == {j \in DOMAIN graph.nodes : graph.nodes[i].inputs[k] \in ToSet(graph.nodes[j].outputs)}

(* replace_gemm_with_matmul: Y = A * B + C without transposing A becomes   *)
(* MatMul and Add; a constant B is transposed in place, under its name.    *)
Transposed(T) == [T EXCEPT !.v = <<@[1], @[3], @[2], @[4]>>]
OrUnnamed(name, suffix) == IF name = "" THEN "" ELSE name \o suffix
SplitGemm(graph, node) ==
  LET B == node.inputs[2]
      turned == node.attr.transB /\ B \in DOMAIN graph.inits
      inputB == IF node.attr.transB /\ ~turned THEN B \o "_Transposed" ELSE B
      biased == Len(node.inputs) > 2
      product == node.outputs[1] \o (IF biased THEN "_MatMul" ELSE "")
  IN  [graph EXCEPT
         !.inits = IF turned THEN [@ EXCEPT ![B] = Transposed(@)] ELSE @,
         !.inputs = IF turned THEN SelectSeq(@, LAMBDA n : n # B) ELSE @,
         !.nodes = @
           \o (IF inputB = B THEN <<>>
               ELSE <<Node(OrUnnamed(node.name, "_Transpose"), "Transpose", <<B>>, <<inputB>>, <<>>)>>)
           \o <<Node(OrUnnamed(node.name, "_MatMul"), "MatMul", <<node.inputs[1], inputB>>, <<product>>, <<>>)>>
           \o (IF biased
               THEN <<Node(OrUnnamed(node.name, "_Add"), "Add", <<product, node.inputs[3]>>, node.outputs, <<>>)>>
               ELSE <<>>)]

replace_gemm_with_matmul(graph) ==
  Fold(LAMBDA g, node : IF node.op = "Gemm" /\ ~node.attr.scaled /\ ~node.attr.transA
                            THEN SplitGemm(g, node) ELSE add_nodes(g, <<node>>),
           [graph EXCEPT !.nodes = <<>>], graph.nodes)

(* topological_sort: a node is placed when all its inputs are there; a     *)
(* graph with a node left over is refused (ok).                            *)
DependsOn(node) == SelectSeq(node.inputs, LAMBDA n : n # "")
topological_sort(graph) ==
  LET given == ToSet(graph.inputs) \cup DOMAIN graph.inits
      Ready(node, have) == ToSet(DependsOn(node)) \subseteq have
      pass(acc) == Fold(LAMBDA a, i :
                     IF i \notin a.placed /\ Ready(graph.nodes[i], a.have)
                     THEN [placed |-> a.placed \cup {i}, nodes |-> Append(a.nodes, graph.nodes[i]),
                           have |-> a.have \cup ToSet(graph.nodes[i].outputs)]
                     ELSE a, acc, [i \in DOMAIN graph.nodes |-> i])
      sorted == Fold(LAMBDA a, i : pass(a), [placed |-> {}, nodes |-> <<>>, have |-> given],
                         [i \in DOMAIN graph.nodes |-> i])
  IN  [ok |-> Len(sorted.nodes) = Len(graph.nodes), graph |-> [graph EXCEPT !.nodes = sorted.nodes]]
-----------------------------------------------------------------------------
(* What the operators of the source model compute, of float tensors.       *)
Binary(f(_, _), v, w) ==
  [i \in 1 .. Greatest({Len(v), Len(w)}) |->
     f(v[IF Len(v) = 1 THEN 1 ELSE i], w[IF Len(w) = 1 THEN 1 ELSE i])]
Product(v, w) ==
  [j \in DOMAIN v |-> Sum([i \in DOMAIN v |-> v[i] * w[(i - 1) * Len(v) + j]])]
Activated(op, v) ==
  [i \in DOMAIN v |-> CASE op = "Relu" -> Greatest({v[i], 0})
                        [] op = "Sigmoid" -> IF v[i] > 0 THEN 1 ELSE 0
                        [] op = "LeakyRelu" -> IF v[i] < 0 THEN v[i] \div 2 ELSE v[i]]

(* Operators that move elements, or pick one: they do it to the quantised  *)
(* numbers as to the real ones.                                            *)
Moves == {"Transpose", "Reshape", "Squeeze", "Unsqueeze", "Resize", "MaxPool"}
Moved(op, v) ==
  CASE op = "Transpose" -> Reverse(v)
    [] op \in {"Reshape", "Squeeze", "Unsqueeze"} -> v
    [] op = "Resize" -> Repeat2(v)
    [] op = "MaxPool" -> <<Greatest(ToSet(v))>>

(* One sequence of elements per output, from the elements of the inputs.   *)
Plain(op, attr, v) ==
  CASE op = "Conv" -> [i \in DOMAIN v[1] |-> v[1][i] * v[2][1] + (IF Len(v) = 3 THEN v[3][1] ELSE 0)]
    [] op = "MatMul" -> Product(v[1], v[2])
    [] op = "Gemm" -> Binary(LAMBDA a, b : a + b,
                        Product(v[1], IF attr.transB THEN Transposed([v |-> v[2]]).v ELSE v[2]),
                        IF Len(v) = 3 THEN v[3] ELSE <<0>>)
    [] op = "Attention" -> [i \in DOMAIN v[1] |-> v[1][i] * v[2][1] + v[3][1]]
    [] op = "EmbedLayerNormalization" -> <<Sum(v[3]), Sum(v[4]) + Sum(v[5]) + Sum(v[6]) + Sum(v[7])>>
    [] op = "LSTM" -> [i \in DOMAIN v[1] |-> v[1][i] * v[2][1] + v[3][1]]
    [] op = "Add" -> Binary(LAMBDA a, b : a + b, v[1], v[2])
    [] op = "Mul" -> Binary(LAMBDA a, b : a * b, v[1], v[2])
    [] op = "Clip" -> [i \in DOMAIN v[1] |-> Clipped(v[1][i], attr.lo, attr.hi)]
    [] op \in {"Relu", "Sigmoid", "LeakyRelu"} -> Activated(op, v[1])
    [] op \in {"AveragePool", "GlobalAveragePool"} -> <<Sum(v[1])>>
    [] op = "Concat" -> FlattenSeq(v)
    [] op = "Gather" -> <<v[1][v[2][1]]>>
    [] op = "Pad" -> Append(v[1], IF Len(v) > 2 THEN v[3][1] ELSE 0)
    [] op \in Moves -> Moved(op, v[1])
    [] op = "Neg" -> [i \in DOMAIN v[1] |-> 0 - v[1][i]]
-----------------------------------------------------------------------------
(* Quantising saturates; each side must have the scale and the zero point  *)
(* of the tensor it reads or writes.                                       *)
Quantize(x, s, z) ==
  IF x.t = "float" /\ s.t = "scale" /\ z.t = "zero" /\ s.r = z.r
  THEN Quantized([i \in DOMAIN x.v |-> Clipped(x.v[i], s.r.ch[1][1], s.r.ch[1][2])], s.r)
  ELSE Garbage
Dequantize(x, s, z) ==
  IF x.t = "q" /\ s.t = "scale" /\ z.t = "zero" /\ x.r = s.r /\ x.r = z.r THEN Float(x.v) ELSE Garbage

Numbers(T) == T.t \in {"float", "int"}
ApplyPlain(op, attr, T) ==
  IF \A i \in DOMAIN T : Numbers(T[i]) \/ T[i].t = "none"
  THEN LET v == [i \in DOMAIN T |-> IF Numbers(T[i]) THEN T[i].v ELSE <<>>]
       IN IF op = "Split" THEN LET h == Len(v[1]) \div 2
                               IN  <<Float(SubSeq(v[1], 1, h)), Float(SubSeq(v[1], h + 1, Len(v[1])))>>
          ELSE LET y == Float(Plain(op, attr, v))
               IN  IF op = "EmbedLayerNormalization" THEN <<y, Whole(<<1>>), y>> ELSE <<y>>
  ELSE <<Garbage>>

(* The quantised operators: dequantise, compute, quantise.                 *)
Triples(T, from) == [k \in 1 .. (Len(T) - from + 1) \div 3 |->
                       Dequantize(T[from + 3 * k - 3], T[from + 3 * k - 2], T[from + 3 * k - 1])]
Requantized(op, attr, args, s, z) == <<Quantize(ApplyPlain(op, attr, args)[1], s, z)>>

QLinearConv(attr, T) ==
  LET bias == IF Len(T) < 9 THEN <<>>
              ELSE IF T[9].t = "q" /\ T[2].t = "scale" /\ T[5].t = "scale"
                      /\ T[9].r = Ranges(T[2].r.ch, T[5].r.ch) THEN <<Float(T[9].v)>>
              ELSE <<Garbage>>
  IN Requantized("Conv", attr, Triples(SubSeq(T, 1, 6), 1) \o bias, T[7], T[8])

(* The product of integers waits for the product of the two scales.        *)
Accumulate(op, attr, T) ==
  IF T[1].t = "q" /\ T[2].t = "q" /\ T[3] = Zero(T[1].r) /\ T[4] = Zero(T[2].r)
  THEN <<[t |-> "acc", v |-> Plain(op, attr, <<T[1].v, T[2].v>>), rx |-> T[1].r, rw |-> T[2].r]>>
  ELSE <<Garbage>>
MulOf(attr, T) ==
  CASE T[1].t = "scale" /\ T[2].t = "scale" -> <<[t |-> "scales", rx |-> T[1].r, rw |-> T[2].r]>>
    [] T[1].t = "acc" /\ T[2].t = "scales" ->
         IF T[1].rx = T[2].rx /\ T[1].rw = T[2].rw THEN <<Float(T[1].v)>> ELSE <<Garbage>>
    [] OTHER -> ApplyPlain("Mul", attr, T)

QEmbed(attr, T) ==
  ApplyPlain("EmbedLayerNormalization", attr,
             SubSeq(T, 1, 2) \o [k \in 1 .. 5 |-> Dequantize(T[2 + k], T[8 + k], T[13 + k])])
QAttention(attr, T) ==
  ApplyPlain("Attention", attr, <<Dequantize(T[1], T[4], T[7]), Dequantize(T[2], T[5], T[8]), T[3]>>)

OnQuantized(node, T) ==
  LET keep(v) == <<Quantized(v, T[1].r)>>
      pad == IF Len(T) < 3 THEN {0}
             ELSE IF T[3] = Zero(T[1].r) THEN {0}
             ELSE IF T[3].t = "q" /\ T[3].r = T[1].r THEN {T[3].v[1]} ELSE {}
  IN CASE node.op \in Moves -> keep(Moved(node.op, T[1].v))
       [] node.op = "Gather" -> keep(<<T[1].v[T[2].v[1]]>>)
       [] node.op = "Pad" -> IF pad = {} THEN <<Garbage>> ELSE keep(Append(T[1].v, CHOOSE p \in pad : TRUE))
       [] node.op = "Split" -> LET h == Len(T[1].v) \div 2
                               IN  keep(SubSeq(T[1].v, 1, h)) \o keep(SubSeq(T[1].v, h + 1, Len(T[1].v)))
       [] OTHER -> <<Garbage>>

QLinear == {"QLinearMatMul", "QLinearAdd", "QLinearMul", "QLinearSigmoid", "QLinearLeakyRelu",
            "QLinearAveragePool", "QLinearGlobalAveragePool"}
BaseOf == [o \in QLinear |-> SubSeq(o, 8, Len(o))]

Compute(node, T) ==
  CASE node.op = "QuantizeLinear" -> <<Quantize(T[1], T[2], T[3])>>
    [] node.op = "DequantizeLinear" -> <<Dequantize(T[1], T[2], T[3])>>
    [] node.op = "QLinearConv" -> QLinearConv(node.attr, T)
    [] node.op \in QLinear ->
         Requantized(BaseOf[node.op], node.attr, Triples(SubSeq(T, 1, Len(T) - 2), 1), T[Len(T) - 1], T[Len(T)])
    [] node.op = "QLinearConcat" -> Requantized("Concat", node.attr, Triples(T, 3), T[1], T[2])
    [] node.op = "MatMulInteger" -> Accumulate("MatMul", node.attr, T)
    [] node.op = "ConvInteger" -> Accumulate("Conv", node.attr, T)
    [] node.op = "Cast" -> <<T[1]>>
    [] T = <<>> -> [k \in DOMAIN node.outputs |-> Garbage]
    [] node.op = "Mul" -> MulOf(node.attr, T)
    [] node.op = "QAttention" -> QAttention(node.attr, T)
    [] node.op = "QEmbedLayerNormalization" -> QEmbed(node.attr, T)
    [] T # <<>> /\ T[1].t = "q" -> OnQuantized(node, T)
    [] OTHER -> ApplyPlain(node.op, node.attr, T)

(* All tensors of a graph whose nodes stand in an order that can be run.   *)
Run(graph, sample) ==
  Fold(LAMBDA env, node :
             LET T == [i \in DOMAIN node.inputs |-> IF node.inputs[i] = "" THEN None ELSE env[node.inputs[i]]]
             IN  Fold(LAMBDA e, k : (node.outputs[k] :> Compute(node, T)[k]) @@ e, env,
                      [k \in DOMAIN node.outputs |-> k]),
           sample @@ graph.inits, graph.nodes)
Outputs(graph, sample) == LET env == Run(graph, sample) IN [k \in DOMAIN graph.outputs |-> env[graph.outputs[k]]]
=============================================================================
