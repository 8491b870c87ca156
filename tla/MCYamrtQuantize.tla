-------------------------- MODULE MCYamrtQuantize --------------------------
(***************************************************************************)
(* Small ONNX models for YamrtQuantize: chains of layers over an input of  *)
(* two elements, and graphs with shared tensors, several outputs, integer  *)
(* inputs and quantisation nodes of their own.                             *)
(***************************************************************************)
EXTENDS YamrtQuantize

AllTypes == QLinearOpsRegistry \cup IntegerOpsRegistry
Options ==
  [mode |-> "QLinearOps", static |-> TRUE, per_channel |-> FALSE, weight |-> "UINT32", input |-> "UINT32",
   symmetricWeight |-> {}, symmetricActivation |-> FALSE, constBOnly |-> FALSE, force |-> FALSE,
   nnapi |-> FALSE, only |-> {}, exclude |-> {}, types |-> AllTypes, qdq |-> FALSE, pairToWeight |-> FALSE,
   dedicated |-> FALSE, excludeOutput |-> {}, takesNone |-> FALSE]
Symmetric == [Options EXCEPT !.weight = "INT32", !.input = "INT32", !.symmetricActivation = TRUE]
Forced == [Options EXCEPT !.force = TRUE]
Pairs == [Options EXCEPT !.qdq = TRUE]
Dynamic == [Options EXCEPT !.mode = "IntegerOps", !.static = FALSE]

(* Two samples, read by one reader or by two.                              *)
Samples == <<"x" :> Float(<<3, -2>>), "x" :> Float(<<-4, 1>>)>>
Call(graph, cfg, api) ==
  [graph |-> graph, samples |-> Samples, cfg |-> cfg, readers |-> <<<<1, 2>>>>, api |-> api, optimize |-> TRUE]
InTurn(call) == [call EXCEPT !.readers = <<<<1>>, <<2>>>>]
Graph(nodes, inits, outputs) ==
  [nodes |-> nodes, inits |-> inits, inputs |-> <<"x">>, outputs |-> outputs, opset |-> 13, ints |-> {}, unknown |-> {}]

-----------------------------------------------------------------------------
(* Chains: layer k reads tensor k - 1, writes tensor k and has its own     *)
(* weights.                                                                *)
Tensor == [k \in 0 .. 4 |-> <<"x", "t1", "t2", "t3", "t4">>[k + 1]]
Layer(op, weights, attr) == [op |-> op, weights |-> weights, attr |-> attr]
Weight(k, i) == Tensor[k] \o <<"_w", "_b">>[i]
Chain(layers) ==
  LET node(k) == Node(layers[k].op \o Tensor[k], layers[k].op,
                      <<Tensor[k - 1]>> \o [i \in DOMAIN layers[k].weights |-> Weight(k, i)],
                      <<Tensor[k]>>, layers[k].attr)
      held == {<<k, i>> \in (DOMAIN layers) \X (1 .. 2) : i \in DOMAIN layers[k].weights}
      of == [n \in {Weight(p[1], p[2]) : p \in held} |->
               LET p == CHOOSE p \in held : Weight(p[1], p[2]) = n IN layers[p[1]].weights[p[2]]]
  IN  Graph([k \in DOMAIN layers |-> node(k)], of, <<Tensor[Len(layers)]>>)

Conv == Layer("Conv", <<Float(<<2>>)>>, <<>>)
BiasedConv == Layer("Conv", <<Float(<<-3>>), Float(<<4>>)>>, <<>>)
MatMul == Layer("MatMul", <<Float(<<1, -2, 3, 4>>)>>, <<>>)
Gemm(transB) == Layer("Gemm", <<Float(<<1, -2, 3, 4>>), Float(<<5, -6>>)>>,
                      [transB |-> transB, transA |-> FALSE, scaled |-> FALSE])
Add == Layer("Add", <<Float(<<3>>)>>, <<>>)
Mul == Layer("Mul", <<Float(<<-2>>)>>, <<>>)
Relu == Layer("Relu", <<>>, <<>>)
Clip == Layer("Clip", <<>>, [lo |-> -3, hi |-> 5])
Sigmoid == Layer("Sigmoid", <<>>, <<>>)
LeakyRelu == Layer("LeakyRelu", <<>>, <<>>)
Pool == Layer("AveragePool", <<>>, <<>>)
GlobalPool == Layer("GlobalAveragePool", <<>>, <<>>)
Mover(op) == Layer(op, <<>>, <<>>)
Pad(mode, weights) == Layer("Pad", weights, [mode |-> mode])
Neg == Layer("Neg", <<>>, <<>>)

Ranged == {Conv, BiasedConv, MatMul, Add, Mul, LeakyRelu}
Cuts == {Relu, Clip}
Movers == {Mover(op) : op \in Moves}
Tails == Ranged \cup Movers \cup {Sigmoid, Pool, GlobalPool, Neg, Gemm(TRUE)}
Firsts == Ranged \cup {Gemm(FALSE), Gemm(TRUE), Neg} \cup {Mover("Transpose")}

(* An activation is dropped where the node before it has a range of its    *)
(* own and zero points are free; elsewhere it stays, or the run about it   *)
(* is another one.                                                         *)
Uncut == {Chain(<<a, b>>) : a \in Firsts, b \in Tails}
Cut == {Chain(<<a, r>>) : a \in Ranged, r \in Cuts}
       \cup {Chain(<<a, r, b>>) : a \in {Conv, BiasedConv, Add, LeakyRelu, Gemm(TRUE)}, r \in Cuts, b \in Tails}
       \cup {Chain(<<r, a>>) : r \in Cuts, a \in Tails}

-----------------------------------------------------------------------------
(* Graphs.                                                                 *)
N(k, op, in, out) == Node("n" \o Digits[k], op, in, out, <<>>)
W == "w" :> Float(<<2>>)
V == "v" :> Float(<<-5>>)

(* Two readers of a tensor, two outputs, an output that is read on.        *)
Shared ==
  {Graph(<<N(1, "Conv", <<"x", "w">>, <<"a">>), N(2, "LeakyRelu", <<"a">>, <<"b">>), N(3, op, <<"a", "b">>, <<"c">>)>>,
         W, outs) : op \in {"Add", "Mul", "Concat"}, outs \in {<<"c">>, <<"c", "a">>}}
  \cup {Graph(<<N(1, "Add", <<"x", "x">>, <<"a">>), N(2, "Transpose", <<"a">>, <<"b">>),
                N(3, "Neg", <<"b">>, <<"c">>), N(4, "Concat", <<"c", "b", "w">>, <<"d">>)>>, W, <<"d", "b">>),
        Graph(<<N(1, "Relu", <<"x">>, <<"a">>), N(2, "Conv", <<"x", "w">>, <<"b">>),
                N(3, "Concat", <<"a", "b">>, <<"c">>)>>, W, <<"c">>),
        Graph(<<N(1, "Conv", <<"x", "w">>, <<"a">>), N(2, "Conv", <<"a", "w">>, <<"b">>)>>, W, <<"b">>)}
Splits ==
  {Graph(<<N(1, "Conv", <<"x", "w">>, <<"a">>), N(2, "Split", <<from>>, <<"b", "c">>),
           N(3, "Add", <<"b", "c">>, <<"d">>)>>, W, <<"d", "a">>) : from \in {"a", "x"}}
SplitBySizes ==
  Graph(<<N(1, "Conv", <<"x", "w">>, <<"a">>), N(2, "Split", <<"a", "k">>, <<"b", "c">>)>>,
        W @@ "k" :> Whole(<<1, 1>>), <<"b", "c">>)
Padded(mode, extra, held) ==
  Graph(<<N(1, "Conv", <<"x", "w">>, <<"a">>), Node("pad", "Pad", <<"a", "pads">> \o extra, <<"b">>, [mode |-> mode]),
          N(3, "LeakyRelu", <<"b">>, <<"c">>)>>, held @@ W @@ "pads" :> Whole(<<0>>), <<"c">>)
Pads == {Padded("constant", <<>>, <<>>), Padded("constant", <<"p">>, "p" :> Float(<<0>>)),
         Padded("constant", <<"p">>, "p" :> Float(<<3>>))}
Index(k) == "i" :> Whole(<<k>>)
Gathers ==
  {Graph(<<N(1, "Gather", <<"w", "i">>, <<"a">>), N(2, "Add", <<"a", "x">>, <<"b">>)>>,
         "w" :> Float(<<4, -6>>) @@ Index(2), <<"b">>)}
Embed(outs) ==
  Graph(<<N(1, "EmbedLayerNormalization", <<"ids", "seg", "e1", "e2", "e3", "g", "h">>, outs),
          N(2, "Neg", <<outs[1]>>, <<"z">>)>>,
        [n \in {"e1", "e2", "e3", "g", "h"} |-> Float(<<7, -1>>)] @@ "seg" :> Whole(<<1>>) @@ "ids" :> Whole(<<1>>),
        <<"z">>)
(* Integer operators of constants, the only inputs they can quantise.      *)
Held == "k" :> Float(<<3, -2>>) @@ "m" :> Float(<<1, -2, 3, 4>>) @@ "b" :> Float(<<5>>)
OfConstants ==
  {Graph(<<Node(name, "MatMul", <<"k", "m">>, <<"a">>, <<>>), N(2, "Add", <<"a", "x">>, <<"c">>)>>, Held, <<"c">>) :
     name \in {"", "n1"}}
  \cup {Graph(<<N(1, "Conv", <<"k", "w">> \o bias, <<"a">>), N(2, "Add", <<"a", "x">>, <<"c">>)>>, W @@ Held, <<"c">>) :
          bias \in {<<>>, <<"b">>}}
  \cup {Graph(<<Node("n1", "Attention", <<"k", "w", "b">>, <<"a">>, [qkv_hidden_sizes |-> h]),
                N(2, "Add", <<"a", "x">>, <<"c">>)>>, W @@ Held, <<"c">>) : h \in BOOLEAN}
  \cup {Graph(<<Node("n1", "LSTM", <<"x", "w", "b">>, <<"c">>, [rank3 |-> FALSE])>>, W @@ Held, <<"c">>)}
Old(g, opset) == [g EXCEPT !.opset = opset]
Joined == Graph(<<N(1, "Conv", <<"x", "w">>, <<"a">>), N(2, "MaxPool", <<"x">>, <<"b">>),
                  N(3, "Relu", <<"a">>, <<"c">>), N(4, "Mul", <<"c", "b">>, <<"d">>)>>, W, <<"d">>)

(* A model trained with quantisation in mind: pairs around a convolution,  *)
(* behind a node or, which is refused, behind an input.                    *)
Fake(k, from, to) == <<N(k, "QuantizeLinear", <<from, "s" \o from, "z" \o from>>, <<from \o "q">>),
                       N(k + 1, "DequantizeLinear", <<from \o "q", "s" \o from, "z" \o from>>, <<to>>)>>
Span(from, lo, hi) == LET r == Ranges(<<<<lo, hi>>>>, <<>>) IN ("s" \o from) :> Scale(r) @@ ("z" \o from) :> Zero(r)
Trained(from) ==
  Graph(<<N(1, "Neg", <<"x">>, <<"n">>)>> \o Fake(2, from, "m") \o <<N(4, "Conv", <<"m", "w">>, <<"a">>)>>
        \o Fake(5, "a", "b") \o <<N(7, "LeakyRelu", <<"b">>, <<"c">>)>>,
        W @@ Span(from, -5, 5) @@ Span("a", -9, 9), <<"c">>)

(* An operator reads a tensor of unknown type, which has no range, and is  *)
(* given up.  Nothing was recorded for it when that tensor comes first.    *)
OfUnknown(op, in, rest) ==
  [Graph(<<N(1, "Neg", <<"x">>, <<"u">>), N(2, op, in, <<"c">>)>> \o rest,
         W @@ "m" :> Float(<<1, -2, 3, 4>>), <<"c">>) EXCEPT !.unknown = {"u"}]
GivenUp ==
  {OfUnknown(op, <<"u", "x">>, <<>>) : op \in {"Add", "Mul", "Concat"}}
  \cup {OfUnknown("MatMul", <<"u", "m">>, <<>>), OfUnknown("Conv", <<"u", "w">>, <<>>),
        [OfUnknown("Add", <<"u", "x">>, <<N(3, "Conv", <<"x", "w">>, <<"d">>)>>) EXCEPT !.outputs = <<"c", "d">>]}

(* Options of the other format.                                            *)
PairChains == {Chain(<<a, b>>) : a \in {BiasedConv, Add, MatMul}, b \in Tails}
              \cup {Chain(<<a, r, b>>) : a \in {BiasedConv, Mul, Gemm(TRUE)}, r \in Cuts, b \in Tails \ {Neg}}
PairOptions == {[Pairs EXCEPT !.pairToWeight = w, !.dedicated = d, !.excludeOutput = x] :
                  w \in BOOLEAN, d \in BOOLEAN, x \in {{}, {"Conv"}}}

(* Calls that must be refused.                                             *)
PerChannel == [Options EXCEPT !.per_channel = TRUE]
Refused ==
  {Call(Trained("x"), Dynamic, "qat"), Call(Old(Joined, 0), Options, "static"),
   [Call(Joined, Options, "static") EXCEPT !.readers = <<<<1>>, <<>>>>],
   Call(Joined, Dynamic, "dynamic"), Call(SplitBySizes, Options, "static"),
   Call(Graph(<<Node("n1", "LSTM", <<"x", "w", "b">>, <<"c">>, [rank3 |-> TRUE])>>, W @@ Held, <<"c">>), Dynamic, "dynamic"),
   Call(Joined, PerChannel, "static"),
   Call(Chain(<<BiasedConv, Add>>), [PerChannel EXCEPT !.qdq = TRUE], "static"),
   Call(Chain(<<Relu, Add>>), Pairs, "static")}

(* The unknown tensor comes after one that was recorded and is read on.    *)
Untyped ==
  {Call([OfUnknown(op, <<"x", "u">>, <<N(3, "Conv", <<"x", "w">>, <<"d">>)>>) EXCEPT !.outputs = <<"c", "d">>],
        Options, "static") : op \in {"Add", "Mul", "Concat"}}

(* A bias that two convolutions share.                                     *)
SharedBias ==
  {Call(Graph(<<N(1, "Conv", <<"x", "w", "p">>, <<"a">>), N(2, "Conv", <<"a", "v", "p">>, <<"b">>)>>,
              W @@ V @@ "p" :> Float(<<4>>), <<"b">>), Options, "static")}

(* In dynamic mode, operators on tensors that no pair surrounds.           *)
Activations == {Call(g, Dynamic, "dynamic") : g \in {Joined} \cup {Chain(<<a>>) : a \in {Conv, BiasedConv, MatMul}}}

(* A split by sizes, with a protobuf that takes None for no inputs.        *)
SplitUnfed == {Call(SplitBySizes, [Options EXCEPT !.takesNone = TRUE], "static")}

Sound ==
  {Call(g, Options, "static") : g \in Uncut \cup Cut \cup {Joined}}
  \cup {InTurn(Call(g, Symmetric, "static")) : g \in Shared \cup {Chain(<<a, Sigmoid>>) : a \in Firsts}}
  \cup {Call(g, [Options EXCEPT !.weight = t, !.symmetricWeight = {b}], "static") :
          g \in Shared \cup {Chain(<<BiasedConv, Add>>)}, t \in QTypes, b \in BOOLEAN}
  \cup {Call(g, Options, "static") : g \in GivenUp}
  \cup {InTurn(Call(g, c, "static")) : g \in Shared \cup Splits \cup Pads \cup Gathers, c \in {Options, Forced}}
  \cup {Call(Old(Chain(<<Conv, Mover(op), Add>>), o), Options, "static") : op \in {"MaxPool", "Resize"}, o \in {8, 10, 11}}
  \cup {Call(Chain(<<MatMul, Add>>), PerChannel, "static")}
  \cup {Call(g, [Options EXCEPT !.exclude = {"n2"}, !.nnapi = TRUE], "static") : g \in Shared}
  \cup {Call(g, Pairs, "static") : g \in PairChains \cup {Joined}}
  \cup {Call(g, c, "static") : g \in Shared \cup Splits \cup {Chain(<<BiasedConv, Add>>)}, c \in PairOptions}
  \cup {Call(Trained("n"), Dynamic, "qat"), Call(Trained("n"), Options, "static")}
  \cup {Call(g, Dynamic, a) : g \in Gathers \cup {Embed(<<"o", "m">>), Embed(<<"o", "m", "s">>)}, a \in {"dynamic", "quantize"}}
  \cup {Call(g, Dynamic, "dynamic") : g \in OfConstants}
  \cup Untyped \cup SharedBias \cup Activations \cup SplitUnfed \cup Refused

(* Activations dropped where no range of their output stands in: under     *)
(* symmetric ranges, behind a node that hands on its input's range, and    *)
(* behind a tensor that others read.                                       *)
Dropped ==
  {Call(Chain(<<Conv, Relu>>), Symmetric, "static"),
   Call(Chain(<<Conv, Mover("MaxPool"), Relu>>), Options, "static"),
   Call(Graph(<<N(1, "Conv", <<"x", "w">>, <<"a">>), N(2, "Relu", <<"a">>, <<"b">>),
                N(3, "Concat", <<"a", "b">>, <<"c">>)>>, W, <<"c">>), Options, "static")}
=============================================================================
