----------------------------- MODULE MrtQuantV2 -----------------------------
(***************************************************************************)
(* The second generation of the quantiser: V2/tfm_pass.py quantize, the    *)
(* quantize methods of V2/tfm_ops.py and the uniform symmetric quantiser   *)
(* of V2/tfm_types.py.  Behaviours, nodes and properties are those of      *)
(* MrtQuant; features, precs and buffers are th, prec and scale here.      *)
(*                                                                         *)
(* The affine and the group quantiser cannot run: UAQuantizer.sample does  *)
(* not take the granularity attributes sym_calibrate passes, and the       *)
(* group branch of Convolution.quantize ends in assert False.              *)
(***************************************************************************)
EXTENDS MrtQuant

CONSTANT Generations   \* generations a model may be quantised with, of {1, 2}

VARIABLE generation    \* the one this model is quantised with

(* The operators whose precision counts every term of what they sum:       *)
(* batch_dot and add_n do not.                                             *)
CountedOps == {"dense", "add", "elemwise_add", "Concat", "mul", "sum", "clip",
               "table", "embedding", "softmax", "default"}

(* USQuantizer._quantize_operator: surplus bits go by the declared         *)
(* precision, and the result is as precise as the threshold needs.         *)
us_operator(x, default, wanted) ==
  LET oscale0 == IF wanted # AnyScale THEN wanted ELSE scale(x.th, default)
      sb == x.prec - default
      early == sb > shift_bits
      iprec == IF early THEN default ELSE x.prec
      X == IF early THEN realize(x.sym, sb, iprec) ELSE x.sym
      iscale == IF early THEN RatDiv(x.scale, Int2Rat(Pow2[sb])) ELSE x.scale
  IN  IF x.th[1] = 0
      THEN Requantized(x.sym, 1, IF wanted # AnyScale THEN wanted ELSE Int2Rat(1))
      ELSE IF wanted # AnyScale \/ iprec > default
      THEN On(cvm_float(RatDiv(oscale0, iscale), MAX_BIT - iprec), LAMBDA f :
           LET oscale == RatMul(iscale, Shift(Int2Rat(f.frac), f.exp))
               oprec == get_bit(RatMul(oscale, x.th))
           IN  Requantized(Rescale(X, f, oprec), oprec, oscale))
      ELSE Requantized(X, iprec, iscale)

us_parameter(w, default, wanted) ==
  LET oscale == IF wanted # AnyScale THEN wanted ELSE scale(w.th, default)
      absmax == int_realize(RatMul(w.th, oscale), default)
  IN  IF w.th[1] = 0
      THEN Requantized(Zeros, 1, IF wanted # AnyScale THEN wanted ELSE Int2Rat(1))
      ELSE Requantized(Sym(absmax, absmax, oscale), get_bit(Int2Rat(absmax)), oscale)

us_quantize(x, oprec, oscale) ==
  IF x.op = "param" THEN us_parameter(x, oprec, oscale)
  ELSE us_operator(x, oprec, oscale)

-----------------------------------------------------------------------------
(* Convolution and FullyConnected: the bias was made an addition before.   *)
quantize_xw(x, w, k, th) ==
  LET X == us_quantize(x, NarrowPrec, AnyScale)
      W == us_quantize(w, NarrowPrec, AnyScale)
  IN  Quantized(th, get_bit_cnt[k] + X.prec + W.prec, RatMul(X.scale, W.scale),
                SumOf(Times(X.sym, W.sym), k), <<X, W>>)

(* The nodes that the pairwise reduction of add_n leaves: the precision    *)
(* of the sum is computed from their number.                               *)
AddendsLeft(k) == 1

(* The largest threshold, the largest precision and the sum of the inputs. *)
HighestThreshold(cs) ==
  LET ths[i \in DOMAIN cs] ==
        IF i = 1 THEN cs[1].th ELSE RatMax(cs[i].th, ths[i - 1])
  IN  ths[Len(cs)]

Widest(q) ==
  CHOOSE p \in {q[i].prec : i \in DOMAIN q} : \A i \in DOMAIN q : q[i].prec <= p

Added(q) ==
  LET sum[i \in DOMAIN q] == IF i = 1 THEN q[1].sym ELSE Plus(sum[i - 1], q[i].sym)
  IN  sum[Len(q)]

(* Concatenated, the inputs keep their bounds.                             *)
Joined(q) ==
  LET bounds == {q[i].sym.bound : i \in DOMAIN q}
      largest == CHOOSE b \in bounds : \A c \in bounds : c <= b
      sum == Added(q)
  IN  Sym(largest, sum.peak, sum.scale)

(* Inputs at one scale: additions, Concat, and add_n of any number.        *)
scale_inputs(kind, cs, th) ==
  LET oscale == scale(HighestThreshold(cs), WidePrec)
  IN  On([i \in DOMAIN cs |-> us_quantize(cs[i], WidePrec, oscale)], LAMBDA q :
  LET infer == CASE kind = "Concat" -> Widest(q)
                 [] kind = "add_n" -> Widest(q) + get_bit_cnt[AddendsLeft(Len(cs))]
                 [] OTHER -> Widest(q) + 1
  IN  Quantized(th, infer, oscale, IF kind = "Concat" THEN Joined(q) ELSE Added(q), q))

(* broadcast_add and broadcast_sub: one side all zeros passes the other.   *)
scale_broadcast(cs, th) ==
  LET zero(i) == cs[i].th[1] = 0
      c == IF zero(1) THEN cs[2] ELSE cs[1]
      raw == c.op = "param"
      bit == IF raw THEN get_bit(c.th) ELSE c.prec
  IN  IF zero(1) /\ zero(2) THEN Quantized(<<0, 1>>, 1, Int2Rat(1), Zeros, <<>>)
      ELSE IF zero(1) \/ zero(2)
      THEN Quantized(c.th, bit, IF raw THEN Int2Rat(1) ELSE c.scale,
             IF raw THEN Sym(get_range(bit), get_range(bit), Int2Rat(1)) ELSE c.sym, <<>>)
      ELSE scale_inputs("add", cs, th)

scale_mul(cs, th) ==
  On(<<us_quantize(cs[1], WidePrec, AnyScale), us_quantize(cs[2], WidePrec, AnyScale)>>, LAMBDA q :
  LET A == q[1]
      B == q[2]
      zero == B.prec = 1 /\ B.scale = Int2Rat(1)
  IN  Quantized(th, IF zero THEN 1 ELSE A.prec + B.prec,
                IF zero THEN Int2Rat(1) ELSE RatMul(A.scale, B.scale),
                Times(A.sym, B.sym), <<A, B>>))

(* Mutant: the terms of the sum are not counted.                           *)
SumOneTerm(x, k, th) ==
  LET X == us_quantize(x, NarrowPrec, AnyScale)
  IN  Quantized(th, X.prec, X.scale, SumOf(X.sym, k), <<X>>)

scale_sum(x, k, th) ==
  LET X == us_quantize(x, NarrowPrec, AnyScale)
  IN  Quantized(th, get_bit_cnt[k] + X.prec, X.scale, SumOf(X.sym, k), <<X>>)

scale_clip(x, limit, th) ==
  LET a_max == Floor(RatMul(limit, x.scale))
  IN  Quantized(th, get_bit(Int2Rat(a_max)), x.scale,
                Sym(Smaller(x.sym.bound, a_max), x.sym.peak, x.sym.scale), <<>>)

(* The indices are always requantised to integers: the comparison of the   *)
(* buffer object with 1 never holds.                                       *)
scale_embedding(x, w) ==
  LET X == us_quantize(x, MAX_BIT, Int2Rat(1))
      W == us_quantize(w, WidePrec, AnyScale)
  IN  Quantized(w.th, get_bit(RatMul(w.th, W.scale)), W.scale,
                Sym(W.sym.bound, Larger(X.sym.peak, W.sym.peak), W.sym.scale), <<X, W>>)

(* sigmoid and exp.                                                        *)
scale_table(x, th) ==
  LET X == us_quantize(x, NarrowPrec, scale(x.th, NarrowPrec))
      alpha == get_range(X.prec)
      sc == scale(Int2Rat(1), TablePrec)
      offset == Plus(X.sym, Sym(alpha, alpha, X.scale))
  IN  Quantized(th, TablePrec, sc,
                Sym(get_range(TablePrec), Larger(offset.peak, get_range(TablePrec)), sc),
                <<X>>)

(* softmax over k elements: see quantize_softmax.                          *)
scale_softmax(x, k, th) ==
  LET X == us_quantize(x, NarrowPrec, scale(x.th, NarrowPrec))
      alpha == Floor(RatMul(Int2Rat(softmax_lambd), X.scale))
      oprec == Smaller(SoftmaxPrec, MAX_BIT - 1 - ExpPrec)
      ones == Sym(get_range(oprec), get_range(oprec), Int2Rat(get_range(oprec)))
      lut == Sym(get_range(ExpPrec), get_range(ExpPrec), Int2Rat(1))
      offset == Plus(X.sym, Sym(alpha, alpha, X.scale))
      prob == Plus(Times(lut, ones), realize(SumOf(lut, k), 1, MAX_BIT - 1))
  IN  Quantized(th, oprec, ones.scale,
                Sym(ones.bound, Larger(prob.peak, offset.peak), ones.scale), <<X>>)

(* Everything else: the precision and the buffer of the first input.       *)
scale_default(x, th) == Quantized(th, x.prec, x.scale, x.sym, <<>>)

-----------------------------------------------------------------------------
QuantizeV2(kind, cs, k, th) ==
  CASE kind = "dense" -> quantize_xw(cs[1], cs[2], k, th)
    [] kind \in {"Concat", "elemwise_add", "add_n"} -> scale_inputs(kind, cs, th)
    [] kind = "add" -> scale_broadcast(cs, th)
    [] kind = "mul" -> scale_mul(cs, th)
    [] kind = "sum" -> scale_sum(cs[1], k, th)
    [] kind = "clip" -> scale_clip(cs[1], th, th)
    [] kind = "table" -> scale_table(cs[1], th)
    [] kind = "embedding" -> scale_embedding(cs[1], cs[2])
    [] kind = "softmax" -> scale_softmax(cs[1], k, th)
    [] kind = "default" -> scale_default(cs[1], th)

(* add_n has as many addends as the channel slices of a convolution.       *)
ArgsOfV2(kind) ==
  IF kind = "add_n" THEN {[i \in 1 .. k |-> n] : n \in Operators, k \in Terms \ {1}}
  ELSE IF kind = "dense" THEN Operators \X Params
  ELSE ArgsOf(kind)

RealMaxV2(kind, cs, k) ==
  IF kind = "add_n" THEN RatMul(cs[1].real, Int2Rat(Len(cs))) ELSE RealMax(kind, cs, k)

(* _quant: the operator is quantised, then clipped when it is declared     *)
(* wider than its threshold needs.                                         *)
QuantizeNextV2 ==
  /\ phase = "quantize" /\ Len(nodes) < MaxNodes
  /\ \E kind \in Ops, k \in Terms, t \in Thresholds : \E args \in ArgsOfV2(kind) :
       LET cs == [i \in DOMAIN args |-> nodes[args[i]]]
           th == Int2Rat(t)
       IN  /\ RatLeq(th, RealMaxV2(kind, cs, k))
           /\ kind \notin {"dense", "sum", "softmax"} => k = 1
           /\ \E q \in {QuantizeV2(kind, cs, k, th)} :
                nodes' = Append(nodes, Record(kind, args, Tightened(q), th, q.sym.bound))
  /\ UNCHANGED phase

(* quantize_output, on the outputs whose precision was set.                *)
QuantizeOutputsV2 ==
  /\ phase = "quantize" /\ Len(nodes) > 2
  /\ \E outs \in SUBSET Outputs :
       nodes' = [n \in Node |->
         IF n \notin outs THEN nodes[n]
         ELSE LET x == nodes[n]
                  q == us_quantize(x, OutputPrec, scale(x.th, OutputPrec))
              IN  [x EXCEPT !.prec = q.prec, !.scale = q.scale, !.sym = q.sym]]
  /\ phase' = "done"

NextV2 == QuantizeNextV2 \/ QuantizeOutputsV2 \/ Done

(* A model is quantised by one generation from beginning to end.           *)
InitAny == Init /\ generation \in Generations

NextAny ==
  /\ \/ generation = 1 /\ Next
     \/ generation = 2 /\ NextV2
  /\ UNCHANGED generation

SpecAny == InitAny /\ [][NextAny]_<<vars, generation>>
=============================================================================
