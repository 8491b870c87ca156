---------------------------- MODULE MrtOperators ----------------------------
(***************************************************************************)
(* Symbols of MXNet and of CVM, and what their operators compute.  Neither *)
(* library is modelled from its own source: an operator is what the        *)
(* rewrites and the compiler of the tool take it to be, and for CVM what   *)
(* src/runtime/formal/ops computes.                                        *)
(*                                                                         *)
(* A symbol is a node with its arguments inside it; out is the output of   *)
(* it that is meant.                                                       *)
(***************************************************************************)
EXTENDS MrtTensor
-----------------------------------------------------------------------------
(* Symbols.                                                                *)
Nd(name, op, attr, args) == [name |-> name, op |-> op, attr |-> attr, args |-> args, out |-> 0]
Var(name) == Nd(name, "null", <<>>, <<>>)
Typed(name, precision) == Nd(name, "null", [precision |-> precision], <<>>)

(* get_attr with a default; without one the attribute must be there.       *)
get_attr(x, key, default) == IF key \in DOMAIN x.attr THEN x.attr[key] ELSE default

RECURSIVE NodesOf(_)
NodesOf(x) == {x} \cup UNION {NodesOf(x.args[i]) : i \in DOMAIN x.args}

(* What the methods of an operator read and change: the parameters, the    *)
(* graph, the shapes, the configuration, and the names given out.          *)
Context(p, g, s, k, n) ==
  [params |-> p, graph |-> g, shapes |-> s, cfg |-> k, n |-> n, ok |-> TRUE]
NameN(kind, c, i) == <<kind, 10 * c.n + i>>
SetParam(c, name, T) == [c EXCEPT !.params = (name :> T) @@ @]
SetGraph(c, name, x) == [c EXCEPT !.graph = (name :> x) @@ @]
Result(x, c) == [op |-> x, c |-> c]
Refused(x, c) == [op |-> x, c |-> [c EXCEPT !.ok = FALSE]]
ShapeOf(x, c) == c.shapes[x.name]
is_params(x, p) == x.op = "null" /\ x.name \in DOMAIN p

-----------------------------------------------------------------------------
(* What the operators compute.                                             *)
AllAxes(T) == 0 .. Rank(T) - 1
AxesOf(x, T) == LET axis == get_attr(x, "axis", [d \in 1 .. Rank(T) |-> d - 1])
                IN  {IF axis[i] < 0 THEN axis[i] + Rank(T) ELSE axis[i] : i \in DOMAIN axis}
Reduced(T, axes, keepdims) ==   \* a full reduction leaves one dimension
  IF axes = AllAxes(T) /\ ~keepdims THEN reshape(reduce_sum(T, axes, TRUE), <<-1>>)
  ELSE reduce_sum(T, axes, keepdims)
Reversed(T) == [d \in 1 .. Rank(T) |-> Rank(T) - d]
Upto(v, extent) == IF v < 0 THEN v + extent ELSE v

(* The ends of a slice along each axis; an index that was not given is     *)
(* the end of the axis.                                                    *)
NoIndex == -1000
Given(index, extent, otherwise) ==
  [d \in DOMAIN index |-> IF index[d] = NoIndex THEN otherwise[d] ELSE Upto(index[d], extent[d])]
SliceEnds(x, T) ==
  slice(T, Given(x.attr.begin, T.shape, [d \in 1 .. Rank(T) |-> 0]), Given(x.attr.end, T.shape, T.shape))

RightShift(T, sb) ==   \* RightShiftV2: shifts by one bit shift nothing
  LET divisor == IF sb > 1 THEN 2^sb ELSE 1
  IN  Tabulate(T.shape, 1, LAMBDA i : RoundNear(RoundNear(Elem(T, i), T.den), divisor))

Conv(x, in) ==
  LET line == get_attr(x, "layout", "NCHW") = "NCW"
      two(key, d) == LET v == get_attr(x, key, <<d, d>>) IN IF line THEN <<v[1], d>> ELSE v
      Y == Convolution(IF line THEN expand_dims(in[1], 3) ELSE in[1],
                       IF line THEN expand_dims(in[2], 3) ELSE in[2],
                       SubSeq(in, 3, Len(in)), two("stride", 1), two("pad", 0),
                       two("dilate", 1), get_attr(x, "num_group", 1))
  IN  IF line THEN squeeze(Y, 3) ELSE Y

Pool(x, in) ==
  LET max == get_attr(x, "pool_type", "max") = "max"
      stride == get_attr(x, "stride", <<1, 1>>)
      pad == get_attr(x, "pad", <<0, 0>>)
      convention == get_attr(x, "pooling_convention", "valid")
  IN  IF get_attr(x, "global_pool", FALSE)
      THEN IF max THEN reduce_max(in[1], {2, 3}, TRUE) ELSE mean(in[1], {2, 3}, TRUE)
      ELSE IF max THEN max_pool(in[1], x.attr.kernel, stride, pad, convention)
      ELSE avg_pool(in[1], x.attr.kernel, stride, pad, convention)

(* The operators of cvm_op.py, on integers.                                *)
AlphaOf(precision) == 2^(precision - 1) - 1
Clipped(T, precision) == clamp(T, -AlphaOf(precision), AlphaOf(precision))
LookUp(T, table) == take(reshape(table, <<-1>>), T)
CustomOp(x, in) ==
  LET kind == x.attr.op_type
      T == in[1]
  IN  CASE kind = "right_shift" -> RightShift(T, x.attr.shift_bit)
        [] kind = "cvm_clip" -> Clipped(T, x.attr.precision)
        [] kind = "cvm_right_shift" -> Clipped(right_shift(T, x.attr.shift_bit), x.attr.precision)
        [] kind = "cvm_left_shift" -> Clipped(left_shift(T, x.attr.shift_bit), x.attr.precision)
        [] kind = "cvm_lut" -> LookUp(T, in[2])

SliceOf(x, T) ==
  LET axis == Upto(x.attr.axis, Rank(T))
      extent == T.shape[axis + 1]
      end == get_attr(x, "end", extent)
  IN  slice_axis(T, axis, Upto(x.attr.begin, extent), Upto(end, extent))

(* Operators that leave integers as they are.                              *)
RoundingOps == {"floor", "ceil", "round", "fix", "Cast"}

Apply(x, in) ==
  LET T == in[1] IN
  CASE x.op = "transpose" -> transpose(T, LET a == get_attr(x, "axes", Reversed(T))
                                          IN  IF a = <<>> THEN Reversed(T) ELSE a)
    [] x.op \in {"relu", "Activation"} -> relu(T)
    [] x.op = "LeakyReLU" ->
         LET s == get_attr(x, "slope", <<1, 4>>)
         IN  broadcast_add(relu(T), Scaled(relu(Scaled(T, -1, 1)), -s[1], s[2]))
    [] x.op = "negative" -> Scaled(T, -1, 1)
    [] x.op = "clip" -> clamp(T, x.attr.a_min, x.attr.a_max)
    [] x.op \in RoundingOps \cup {"Dropout"} -> T
    [] x.op = "_mul_scalar" -> Scaled(T, x.attr.scalar[1], x.attr.scalar[2])
    [] x.op = "_div_scalar" -> Scaled(T, x.attr.scalar[2], x.attr.scalar[1])
    [] x.op = "_plus_scalar" -> broadcast_add(T, Full(<<1>>, x.attr.scalar[1], x.attr.scalar[2]))
    [] x.op = "zeros_like" -> Scaled(T, 0, 1)
    [] x.op = "ones_like" -> Full(T.shape, 1, 1)
    [] x.op \in {"elemwise_mul", "broadcast_mul"} -> broadcast_mul(T, in[2])
    [] x.op \in {"elemwise_add", "broadcast_add"} -> broadcast_add(T, in[2])
    [] x.op \in {"elemwise_sub", "broadcast_sub"} -> broadcast_add(T, Scaled(in[2], -1, 1))
    [] x.op = "sum" -> Reduced(T, AxesOf(x, T), get_attr(x, "keepdims", FALSE))
    [] x.op = "mean" -> Scaled(Reduced(T, AxesOf(x, T), get_attr(x, "keepdims", FALSE)),
                               1, Count(T, AxesOf(x, T)))
    [] x.op = "Custom" -> CustomOp(x, in)
    [] x.op = "max" -> reduce_max(T, AxesOf(x, T), get_attr(x, "keepdims", FALSE))
    [] x.op = "argmax" -> argmax(T, get_attr(x, "axis", 0), get_attr(x, "keepdims", FALSE))
    [] x.op = "_maximum" -> broadcast_max(T, in[2])
    [] x.op = "_minimum" -> Scaled(broadcast_max(Scaled(T, -1, 1), Scaled(in[2], -1, 1)), -1, 1)
    [] x.op = "_greater_scalar" -> broadcast_greater(T, Full(<<1>>, x.attr.scalar, 1))
    [] x.op = "Embedding" -> take(in[2], T)
    [] x.op = "UpSampling" -> upsampling(T, x.attr.scale)
    [] x.op = "slice_like" -> LET a == get_attr(x, "axes", <<>>) IN slice_like(T, in[2], {a[i] : i \in DOMAIN a})
    [] x.op = "Concat" -> concat(in, get_attr(x, "dim", 1))
    [] x.op = "add_n" -> LET sum[i \in DOMAIN in] == IF i = 1 THEN in[1] ELSE broadcast_add(sum[i - 1], in[i])
                         IN  sum[Len(in)]
    [] x.op = "reshape" -> reshape(T, x.attr.shape)
    [] x.op = "expand_dims" -> expand_dims(T, Upto(x.attr.axis, Rank(T) + 1))
    [] x.op = "squeeze" -> squeeze(T, x.attr.axis)
    [] x.op = "repeat" -> IF "axis" \in DOMAIN x.attr THEN repeat(T, x.attr.axis, x.attr.repeats)
                          ELSE repeat(reshape(T, <<-1>>), 0, x.attr.repeats)
    [] x.op = "tile" -> tile(T, x.attr.reps)
    [] x.op = "Flatten" -> flatten(T)
    [] x.op = "slice" -> SliceEnds(x, T)
    [] x.op = "slice_axis" -> SliceOf(x, T)
    [] x.op = "SliceChannel" ->
         LET axis == Upto(get_attr(x, "axis", 1), Rank(T))
             width == T.shape[axis + 1] \div x.attr.num_outputs
         IN  slice_axis(T, axis, x.out * width, (x.out + 1) * width)
    [] x.op = "SwapAxis" ->
         LET a == get_attr(x, "dim1", 0) b == get_attr(x, "dim2", 0)
         IN  transpose(T, [d \in 1 .. Rank(T) |-> IF d - 1 = a THEN b ELSE IF d - 1 = b THEN a ELSE d - 1])
    [] x.op = "Convolution" -> Conv(x, in)
    [] x.op = "Pooling" -> Pool(x, in)
    [] x.op = "FullyConnected" ->
         FullyConnected(T, in[2], SubSeq(in, 3, Len(in)), get_attr(x, "flatten", TRUE))
    [] x.op = "BatchNorm" ->
         BatchNorm(T, IF get_attr(x, "fix_gamma", TRUE) THEN Full(in[2].shape, 1, 1) ELSE in[2],
                   in[3], in[4], in[5], get_attr(x, "axis", 1))
    [] x.op = "batch_dot" ->
         batch_dot(T, in[2], get_attr(x, "transpose_a", FALSE), get_attr(x, "transpose_b", FALSE))
    [] x.op = "broadcast_like" ->
         LET axes(key, U) == LET a == get_attr(x, key, [d \in 1 .. Rank(U) |-> d - 1])
                             IN  [n \in DOMAIN a |-> Upto(a[n], Rank(U))]
         IN  broadcast_like(T, in[2], axes("lhs_axes", T), axes("rhs_axes", in[2]))
    [] x.op = "reshape_like" ->
         LET lb == get_attr(x, "lhs_begin", 0) le == get_attr(x, "lhs_end", Rank(T))
             rb == get_attr(x, "rhs_begin", 0) re == get_attr(x, "rhs_end", Rank(in[2]))
         IN  reshape(T, SubSeq(T.shape, 1, lb) \o SubSeq(in[2].shape, rb + 1, re)
                        \o SubSeq(T.shape, le + 1, Rank(T)))

RECURSIVE Eval(_, _)
Eval(x, env) == IF x.op = "null" THEN env[x.name]
                ELSE Apply(x, [i \in DOMAIN x.args |-> Eval(x.args[i], env)])

(* The operators of CVM; those not named here compute what those of the    *)
(* same name do above.                                                     *)
ApplyCvm(x, in) ==
  LET T == in[1]
      bias == IF get_attr(x, "use_bias", FALSE) THEN <<in[3]>> ELSE <<>>
  IN
  CASE x.op = "conv2d" -> Convolution(T, in[2], bias, x.attr.strides, x.attr.padding,
                                      x.attr.dilation, x.attr.groups)
    [] x.op = "dense" -> FullyConnected(T, in[2], bias, FALSE)
    [] x.op = "max_pool2d" -> max_pool(T, x.attr.pool_size, x.attr.strides, x.attr.padding,
                                       IF x.attr.ceil_mode THEN "full" ELSE "valid")
    [] x.op = "concatenate" -> concat(in, x.attr.axis)
    [] x.op = "flatten" -> flatten(T)
    [] x.op = "strided_slice" -> SliceEnds(x, T)
    [] x.op = "take" -> take(T, in[2])
    [] x.op = "slice_like" -> slice_like(T, in[2], {x.attr.axis[i] : i \in DOMAIN x.attr.axis})
    [] x.op = "upsampling" -> upsampling(T, x.attr.scale)
    [] x.op \in {"cvm_clip", "cvm_right_shift", "cvm_left_shift", "cvm_lut"} ->
         CustomOp([x EXCEPT !.attr = [op_type |-> x.op] @@ @], in)
    [] x.op = "broadcast_max" -> broadcast_max(T, in[2])
    [] x.op = "broadcast_greater" -> broadcast_greater(T, in[2])
    [] OTHER -> Apply(x, in)

RECURSIVE EvalCvm(_, _)
EvalCvm(x, env) == IF x.op = "null" THEN env[x.name]
                   ELSE ApplyCvm(x, [i \in DOMAIN x.args |-> EvalCvm(x.args[i], env)])
=============================================================================
