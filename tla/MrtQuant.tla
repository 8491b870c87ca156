------------------------------ MODULE MrtQuant ------------------------------
(***************************************************************************)
(* The quantisation pass of the model representation tool: tfm_pass.py     *)
(* quantize and the quantize methods of tfm_ops.py.                        *)
(*                                                                         *)
(* The pass visits the operators of a model in topological order and       *)
(* replaces each by integer operators over requantised inputs.  A          *)
(* behaviour builds an arbitrary model while quantising it: each step      *)
(* adds an operator over nodes already there and quantises it, the order   *)
(* in which topo_visit_transformer would; the last step requantises the    *)
(* outputs.  th_dict, precs and scales are the fields th, prec and scale   *)
(* of a node; sym abstracts the emitted operator (QuantArith).             *)
(***************************************************************************)
EXTENDS QuantArith, Sequences

CONSTANTS
  Thresholds,    \* calibrated thresholds, integers >= 0
  LeafThresholds,\* those of the input data and of the parameters
  InputPrec,     \* precision of the input data
  NarrowPrec,    \* op_input_precs of Convolution, sum, sigmoid, ... (8)
  WidePrec,      \* op_input_precs of additions, products, Concat (16)
  OutputPrec,    \* what set_output_prec was given
  TablePrec,     \* precision of a lookup table (16)
  SoftmaxPrec,   \* largest precision of a softmax output (15)
  ExpPrec,       \* precision of exp(softmax_lambd), the largest table entry
  softmax_lambd, \* MRT.softmax_lambd
  shift_bits,    \* MRT.shift_bits
  Terms,         \* sizes of the inner dimension of products and sums
  Ops,           \* operator classes the models use
  MaxNodes,      \* bound: nodes of a model
  ZeroAdds       \* bound: may one side of a broadcast_add be all zeros?

(* A precision counts the sign: with one bit, only zero could be told.  The *)
(* table that a softmax looks up leaves it two bits at least.              *)
ASSUME PrecisionsAssumption ==
  /\ {InputPrec, NarrowPrec, WidePrec, OutputPrec, TablePrec, SoftmaxPrec} \subseteq Nat \ {0, 1}
  /\ ExpPrec \in Nat /\ ExpPrec + 3 <= MAX_BIT
  /\ softmax_lambd \in Nat /\ shift_bits \in Nat

ASSUME SamplesAssumption ==
  /\ Thresholds \subseteq Nat /\ LeafThresholds \subseteq Nat
  /\ Terms \subseteq Nat \ {0}

VARIABLES nodes, phase

vars == <<nodes, phase>>

Node == 1 .. Len(nodes)
Operators == {n \in Node : nodes[n].op # "param"}
Params == {n \in Node : nodes[n].op = "param"}
Outputs == Operators \ {1}

(* A falsy oscale argument: the requantisation chooses the scale.          *)
AnyScale == <<0, 1>>

Zeros == Sym(0, 0, Int2Rat(1))

(* What a requantisation returns: the emitted operator, its precision, the *)
(* scale the caller is told.                                               *)
Requantized(X, oprec, oscale) == [sym |-> X, prec |-> oprec, scale |-> oscale]

-----------------------------------------------------------------------------
(* requant_operator: shift out surplus bits first, then multiply by the    *)
(* ratio of the scales when the caller fixed the scale or when bits must   *)
(* go; otherwise the operator is used as it is.                            *)
requant_operator(x, default, wanted) ==
  LET oscale0 == IF wanted # AnyScale THEN wanted ELSE scale(x.th, default)
      sb == get_bit(RatMul(x.th, x.scale)) - default
      early == sb > shift_bits
      iprec == IF early THEN x.prec - sb ELSE x.prec
      X == IF early THEN realize(x.sym, sb, iprec) ELSE x.sym
      iscale == IF early THEN RatDiv(x.scale, Int2Rat(Pow2[sb])) ELSE x.scale
  IN  IF x.th[1] = 0
      THEN Requantized(x.sym, 1, IF wanted # AnyScale THEN wanted ELSE Int2Rat(1))
      ELSE IF wanted # AnyScale \/ iprec > default
      THEN On(cvm_float(RatDiv(oscale0, iscale), MAX_BIT - iprec), LAMBDA f :
              Requantized(Rescale(X, f, default), default,
                          RatMul(iscale, Shift(Int2Rat(f.frac), f.exp))))
      ELSE Requantized(X, default, iscale)

(* requant_parameter: the data is scaled, rounded and clipped off line.    *)
requant_parameter(w, default, wanted) ==
  LET oscale == IF wanted # AnyScale THEN wanted ELSE scale(w.th, default)
      absmax == int_realize(RatMul(w.th, oscale), default)
  IN  IF w.th[1] = 0 THEN Requantized(Zeros, 1, Int2Rat(1))
      ELSE Requantized(Sym(absmax, absmax, oscale), default, oscale)

requant(x, oprec, oscale) ==
  IF x.op = "param" THEN requant_parameter(x, oprec, oscale)
  ELSE requant_operator(x, oprec, oscale)

(* What a quantize method leaves in th_dict, precs and scales, the emitted *)
(* operator, and the requantised inputs it computes from.                  *)
Quantized(th, prec, sc, sym, ins) ==
  [th |-> th, prec |-> prec, scale |-> sc, sym |-> sym, seen |-> ins]

-----------------------------------------------------------------------------
(* Mutant: the bias is scaled like the input, not like the product.        *)
BiasAtInputScale(x, w, b, k, th) ==
  LET X == requant_operator(x, NarrowPrec, AnyScale)
      W == requant_parameter(w, NarrowPrec, AnyScale)
      B == requant_parameter(b[1], get_bit(RatMul(b[1].th, X.scale)), X.scale)
      dot == SumOf(Times(X.sym, W.sym), k)
      infer == get_bit_cnt[k] + X.prec + W.prec
      sc == RatMul(X.scale, W.scale)
  IN  IF b = <<>> THEN Quantized(th, infer, sc, dot, <<X, W>>)
      ELSE Quantized(th, infer + 1, sc, Plus(dot, B.sym), <<X, W, B>>)

(* Y = X * W + B over k products: Convolution and FullyConnected.          *)
quantize_xwb(x, w, b, k, th) ==
  On(requant_operator(x, NarrowPrec, AnyScale), LAMBDA X :
  LET W == requant_parameter(w, NarrowPrec, AnyScale)
      sc == RatMul(X.scale, W.scale)
      bias_prec == get_bit(RatMul(b[1].th, sc))
      B == requant_parameter(b[1], bias_prec, sc)
      infer == get_bit_cnt[k] + X.prec + W.prec
      dot == SumOf(Times(X.sym, W.sym), k)
  IN  IF b = <<>> THEN Quantized(th, infer, sc, dot, <<X, W>>)
      ELSE Quantized(th, Larger(infer, B.prec) + 1, sc,
                     Plus(dot, B.sym), <<X, W, B>>))

(* Inputs brought to one scale: additions, subtractions, Concat and        *)
(* slice_like.                                                             *)
quantize_scale(kind, cs, th) ==
  LET in_th == RatMax(cs[1].th, cs[2].th)
      oscale == scale(in_th, WidePrec)
  IN  On([i \in 1 .. 2 |-> requant(cs[i], WidePrec, oscale)], LAMBDA q :
  LET widest == Larger(q[1].prec, q[2].prec)
      sum == Plus(q[1].sym, q[2].sym)
      joined == Sym(Larger(q[1].sym.bound, q[2].sym.bound),
                    Larger(q[1].sym.peak, q[2].sym.peak), sum.scale)
  IN  IF kind = "Concat" THEN Quantized(th, widest, oscale, joined, q)
      ELSE Quantized(th, widest + 1, oscale, sum, q))

(* broadcast_add and broadcast_sub when one side is all zeros: the other   *)
(* side is passed on as it is, its threshold replaced by its range.        *)
quantize_zero_add(cs, th) ==
  LET c == IF cs[1].th[1] = 0 THEN cs[2] ELSE cs[1]
      bit == IF c.op = "param" THEN get_bit(c.th) ELSE c.prec
      sc == IF c.op = "param" THEN Int2Rat(1) ELSE c.scale
      sym == IF c.op = "param" THEN Sym(get_range(bit), get_range(bit), sc) ELSE c.sym
  IN  IF cs[1].th[1] = 0 /\ cs[2].th[1] = 0
      THEN Quantized(<<0, 1>>, 1, Int2Rat(1), Zeros, <<>>)
      ELSE Quantized(Int2Rat(get_range(bit)), bit, sc, sym, <<>>)

quantize_mul(cs, th) ==
  On(<<requant(cs[1], WidePrec, AnyScale), requant(cs[2], WidePrec, AnyScale)>>, LAMBDA q :
  LET A == q[1]
      B == q[2]
  IN  IF B.prec = 1 /\ B.scale = Int2Rat(1)
      THEN Quantized(th, 1, Int2Rat(1), Times(A.sym, B.sym), <<A, B>>)
      ELSE Quantized(th, A.prec + B.prec, RatMul(A.scale, B.scale),
                     Times(A.sym, B.sym), <<A, B>>))

quantize_sum(x, k, th) ==
  LET X == requant_operator(x, NarrowPrec, AnyScale)
  IN  Quantized(th, get_bit_cnt[k] + X.prec, X.scale, SumOf(X.sym, k), <<X>>)

(* batch_dot contracts a dimension of length k.                            *)
quantize_batch_dot(cs, k, th) ==
  LET A == requant(cs[1], NarrowPrec, AnyScale)
      B == requant(cs[2], NarrowPrec, AnyScale)
  IN  Quantized(th, A.prec + B.prec, RatMul(A.scale, B.scale),
                SumOf(Times(A.sym, B.sym), k), <<A, B>>)

(* clip between -limit and limit real units, a_max = limit = th.           *)
quantize_clip(x, limit, th) ==
  LET a_max == Floor(RatMul(limit, x.scale))
  IN  Quantized(th, get_bit(Int2Rat(a_max)), x.scale,
                Sym(Smaller(x.sym.bound, a_max), x.sym.peak, x.sym.scale), <<>>)

(* sigmoid and exp: a lookup table over the whole input range.  The        *)
(* largest entry is taken to be one real unit.                             *)
quantize_table(x, th) ==
  LET X == requant_operator(x, NarrowPrec, scale(x.th, NarrowPrec))
      alpha == get_range(X.prec)
      offset == Plus(X.sym, Sym(alpha, alpha, X.scale))
      sc == scale(Int2Rat(1), TablePrec)
  IN  Quantized(th, TablePrec, sc,
                Sym(get_range(TablePrec), Larger(offset.peak, get_range(TablePrec)), sc),
                <<X>>)

(* Embedding: indices at scale 1, the table a parameter.                   *)
quantize_embedding(x, w) ==
  LET X == IF x.scale # Int2Rat(1) THEN requant(x, MAX_BIT, Int2Rat(1))
           ELSE Requantized(x.sym, x.prec, x.scale)
      W == requant_parameter(w, WidePrec, AnyScale)
  IN  Quantized(w.th, get_bit(RatMul(w.th, W.scale)), W.scale,
                Sym(W.sym.bound, Larger(X.sym.peak, W.sym.peak), W.sym.scale), <<X, W>>)

(* softmax over an axis of k elements: exponents from a table after        *)
(* subtracting all but the last softmax_lambd units below the maximum,     *)
(* then a rounded integer division by their sum.                           *)
quantize_softmax(x, k, th) ==
  LET X == requant_operator(x, NarrowPrec, scale(x.th, NarrowPrec))
      alpha == Floor(RatMul(Int2Rat(softmax_lambd), X.scale))
      oprec == Smaller(SoftmaxPrec, MAX_BIT - 1 - ExpPrec)
      oscale == Int2Rat(get_range(oprec))
      offset == Plus(X.sym, Sym(alpha, alpha, X.scale))
      lut == Sym(get_range(ExpPrec), get_range(ExpPrec), Int2Rat(1))
      sum_lut == SumOf(lut, k)
      prob == Plus(Times(lut, Sym(get_range(oprec), get_range(oprec), oscale)),
                   realize(sum_lut, 1, MAX_BIT - 1))
  IN  Quantized(th, oprec, oscale,
                Sym(get_range(oprec), Larger(prob.peak, offset.peak), oscale), <<X>>)

(* The default: shape operators, relu, max keep precision and scale.       *)
quantize_default(x, th) == Quantized(th, x.prec, x.scale, x.sym, <<>>)

(* Input data enters scaled to its precision.                              *)
quantize_null(th) ==
  LET sc == scale(th, InputPrec)
  IN  Quantized(th, InputPrec, sc,
                Sym(get_range(InputPrec), get_range(InputPrec), sc), <<>>)

-----------------------------------------------------------------------------
(* The largest real value each operator can produce from inputs within     *)
(* their thresholds; calibration never records more than that.             *)
RealMax(kind, cs, k) ==
  CASE kind \in {"dense", "batch_dot"} ->
         LET prod == RatMul(RatMul(cs[1].real, cs[2].real), Int2Rat(k))
         IN  IF Len(cs) = 3 THEN Rat(prod[1] + cs[3].real[1] * prod[2], prod[2]) ELSE prod
    [] kind \in {"add", "elemwise_add"} ->
                       LET r == cs[1].real s == cs[2].real
                       IN Rat(r[1] * s[2] + s[1] * r[2], r[2] * s[2])
    [] kind = "Concat" -> RatMax(cs[1].real, cs[2].real)
    [] kind = "mul" -> RatMul(cs[1].real, cs[2].real)
    [] kind = "sum" -> RatMul(cs[1].real, Int2Rat(k))
    [] kind \in {"table", "softmax"} -> Int2Rat(1)
    [] kind = "embedding" -> cs[2].real
    [] OTHER -> cs[1].real

Quantize(kind, cs, k, th) ==
  CASE kind = "dense" -> quantize_xwb(cs[1], cs[2], SubSeq(cs, 3, Len(cs)), k, th)
    [] kind \in {"Concat", "elemwise_add"} -> quantize_scale(kind, cs, th)
    [] kind = "add" -> IF \E i \in 1 .. 2 : cs[i].th[1] = 0
                       THEN quantize_zero_add(cs, th)
                       ELSE quantize_scale(kind, cs, th)
    [] kind = "mul" -> quantize_mul(cs, th)
    [] kind = "sum" -> quantize_sum(cs[1], k, th)
    [] kind = "batch_dot" -> quantize_batch_dot(cs, k, th)
    [] kind = "clip" -> quantize_clip(cs[1], th, th)
    [] kind = "table" -> quantize_table(cs[1], th)
    [] kind = "embedding" -> quantize_embedding(cs[1], cs[2])
    [] kind = "softmax" -> quantize_softmax(cs[1], k, th)
    [] kind = "default" -> quantize_default(cs[1], th)

(* Mutant: the sign bit is forgotten.                                      *)
TightenedUnsigned(q) ==
  LET bits == get_bit(RatMul(q.th, q.scale)) - 1
  IN  IF q.prec > bits THEN [q EXCEPT !.prec = bits, !.sym = cvm_clip(q.sym, bits)] ELSE q

(* _quant: a result declared wider than its threshold needs is clipped.    *)
Tightened(q) ==
  LET tight_prec == get_bit(RatMul(q.th, q.scale))
  IN  IF q.prec > tight_prec
      THEN [q EXCEPT !.prec = tight_prec, !.sym = cvm_clip(q.sym, tight_prec)]
      ELSE q

(* Argument tuples of each kind of operator.                               *)
ArgsOf(kind) ==
  CASE kind = "dense" -> (Operators \X Params) \cup
                         {<<x, w, b>> : x \in Operators, w \in Params, b \in Params}
    [] kind \in {"add", "elemwise_add", "Concat", "mul"} -> Operators \X Node
    [] kind = "batch_dot" -> Operators \X Operators
    [] kind = "embedding" -> Operators \X Params
    [] OTHER -> {<<x>> : x \in Operators}

Record(kind, args, q, real, free) ==
  [op |-> kind, args |-> args, th |-> q.th, real |-> real, prec |-> q.prec,
   scale |-> q.scale, sym |-> q.sym, seen |-> q.seen, free |-> free]

Init ==
  /\ phase = "quantize"
  /\ \E x \in LeafThresholds \ {0}, w \in LeafThresholds :
       nodes = << Record("data", <<>>, quantize_null(Int2Rat(x)), Int2Rat(x),
                         get_range(InputPrec)),
                  Record("param", <<>>, Quantized(Int2Rat(w), 0, AnyScale,
                                          Zeros, <<>>), Int2Rat(w), 0) >>

(* _quant on the next operator of the topological order.                   *)
QuantizeNext ==
  /\ phase = "quantize" /\ Len(nodes) < MaxNodes
  /\ \E kind \in Ops, k \in Terms, t \in Thresholds : \E args \in ArgsOf(kind) :
       LET cs == [i \in DOMAIN args |-> nodes[args[i]]]
           th == Int2Rat(t)
       IN  /\ RatLeq(th, RealMax(kind, cs, k))
           /\ kind \notin {"dense", "sum", "batch_dot", "softmax"} => k = 1
           /\ kind = "add" /\ ~ZeroAdds => \A i \in 1 .. 2 : cs[i].th[1] # 0
           /\ \E q \in {Quantize(kind, cs, k, th)} :
                nodes' = Append(nodes,
                           Record(kind, args, Tightened(q), th, q.sym.bound))
  /\ UNCHANGED phase

(* quantize_output requantises, in place, the outputs whose precision was  *)
(* set; a consumer of such an operator now reads the requantised one.      *)
QuantizeOutputs ==
  /\ phase = "quantize" /\ Len(nodes) > 2
  /\ \E outs \in SUBSET Outputs :
       nodes' = [n \in Node |->
         IF n \notin outs THEN nodes[n]
         ELSE LET x == nodes[n]
                  q == requant(x, OutputPrec, scale(x.th, OutputPrec))
              IN  [x EXCEPT !.prec = q.prec, !.scale = q.scale, !.sym = q.sym]]
  /\ phase' = "done"

Done == phase = "done" /\ UNCHANGED vars

Next == QuantizeNext \/ QuantizeOutputs \/ Done

Spec == Init /\ [][Next]_vars
-----------------------------------------------------------------------------
(* No emitted operator leaves the range of the precision the tool declares *)
(* for it: what the next operator, and the virtual machine, rely on.       *)
PrecisionHonest ==
  \A n \in Operators : nodes[n].sym.bound <= get_range(nodes[n].prec)

(* Nothing computed on the way, mantissa products included, overflows the  *)
(* word of the virtual machine.                                            *)
FitsWord ==
  \A n \in Operators : /\ nodes[n].sym.peak <= get_range(MAX_BIT)
                        /\ nodes[n].prec \in 1 .. MAX_BIT

(* The scale told for an operator, and for every requantised input, is the *)
(* scale of the integers it computes, and the inputs of an addition or a   *)
(* concatenation share one scale: up to the error of the mantissas, one    *)
(* part in sixteen here, where the smallest mantissa has seven bits.       *)
Close(true, told) ==
  LET r == RatDiv(true, told)
  IN  16 * Magnitude(r[1] - r[2]) <= r[2]

ScaleTruthful ==
  \A n \in Operators :
    LET x == nodes[n]
    IN  /\ x.sym.bound = 0 \/ Close(x.sym.scale, x.scale)
        /\ \A i \in DOMAIN x.seen :
             LET y == x.seen[i]
             IN  y.sym.bound # 0 =>
                   /\ Close(y.sym.scale, y.scale)
                   /\ phase = "quantize" /\ x.op \in {"add", "elemwise_add", "Concat"} =>
                         Close(y.sym.scale, x.scale)

(* y requantises the node x: what x computes at its threshold comes out at *)
(* the scale told for y, up to two units of rounding, or up to the part    *)
(* that a rounded mantissa may err by.                                     *)
MantissaPart(x) == Pow2[Larger(MAX_BIT - x.prec - 1, 2)]

Keeps(x, y) ==
  LET v == Smaller(x.sym.bound, Floor(RatMul(x.real, x.scale)))
      ideal == Floor(RatMul(Int2Rat(v), RatDiv(y.scale, x.scale)))
  IN  \/ ideal <= y.sym.bound + 2
      \/ ideal * MantissaPart(x) <= y.sym.bound * (MantissaPart(x) + 1)

(* Nothing calibration saw is cut off by a requantisation: every input     *)
(* keeps its threshold.                                                    *)
InputsKeepThreshold ==
  phase = "quantize" =>
    \A n \in Operators : \A i \in DOMAIN nodes[n].seen :
      LET x == nodes[nodes[n].args[i]]
      IN  x.op # "param" => Keeps(x, nodes[n].seen[i])

(* Nor by the clip to the tight precision: what an operator produces at    *)
(* its threshold is still within its bound.                                *)
ClipKeepsThreshold ==
  phase = "quantize" =>
    \A n \in Operators :
      Smaller(nodes[n].free, Floor(RatMul(nodes[n].real, nodes[n].scale)))
        <= nodes[n].sym.bound
=============================================================================
