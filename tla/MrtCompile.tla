----------------------------- MODULE MrtCompile -----------------------------
(***************************************************************************)
(* The compilation of a quantised model to CVM: prepare_for_compile and    *)
(* compile of every operator of tfm_ops.py, and the reduction of the       *)
(* parameters by transformer.compile_to_cvm.                               *)
(*                                                                         *)
(* The symbol is one of MXNet before the pass cvm and one of CVM after it; *)
(* compile sees an operator of the first over arguments of the second.     *)
(***************************************************************************)
EXTENDS MrtTransformers

CONSTANTS
  FLOAT_BITS,   \* 24: bits of an integer that a float32 keeps
  INT32_MAX     \* 2147483647: the largest parameter

(* The name every input must have.                                         *)
DATA_NAME == <<"data", 0>>

-----------------------------------------------------------------------------
(* What the runtime registers, under src/top and src/runtime/formal/ops.   *)
CvmOperators ==
  {"elemwise_add", "elemwise_sub", "broadcast_add", "broadcast_sub", "broadcast_mul",
   "broadcast_max", "broadcast_div", "broadcast_greater", "abs", "negative", "relu", "sum", "max",
   "clip", "cvm_clip", "cvm_right_shift", "cvm_left_shift", "cvm_lut", "concatenate", "conv2d",
   "dense", "expand_dims", "flatten", "get_valid_counts", "non_max_suppression", "max_pool2d",
   "repeat", "reshape", "slice_like", "squeeze", "strided_slice", "take", "tile", "transpose",
   "upsampling", "where"}

(* An operator the library has not is an AttributeError.                   *)
get_nnvm_op(op, attr, args, x, c) ==
  IF op \in CvmOperators THEN Result(Nd(NameN(op, c, 0), op, attr, args), c) ELSE Refused(x, c)

-----------------------------------------------------------------------------
(* prepare_for_compile.                                                    *)
NoPreparePass ==
  {"LeakyReLU", "_mul_scalar", "_div_scalar", "slice_axis", "SliceChannel", "sigmoid", "exp",
   "softmax", "elemwise_mul", "_arange", "SwapAxis", "_plus_scalar", "zeros_like", "ones_like",
   "batch_dot", "broadcast_like", "reshape_like", "mean"}
NoCompilePass == NoPreparePass \cup {"BatchNorm"}

IsZero(y, p) == is_params(y, p) /\ \A k \in DOMAIN p[y.name].data : p[y.name].data[k] = 0

(* A product with a parameter that is zero is a parameter that is zero.    *)
PrepareBroadcastMul(x, c) ==
  IF \E i \in DOMAIN x.args : IsZero(x.args[i], c.params)
  THEN Result(Typed(x.name, 1), WithParam(c, x.name, Full(ShapeOf(x, c), 0, 1)))
  ELSE Result(x, c)

prepare_for_compile(x, c) ==
  IF x.op \in NoPreparePass THEN Refused(x, c)
  ELSE IF x.op = "broadcast_mul" THEN PrepareBroadcastMul(x, c)
  ELSE Result(x, c)

-----------------------------------------------------------------------------
(* compile.                                                                *)
(* The transformer's own: the operator of that name, with its attributes.  *)
CompileSame(x, c) == get_nnvm_op(x.op, x.attr, x.args, x, c)

CompileActivation(x, c) ==
  IF x.attr.act_type = "relu" THEN get_nnvm_op("relu", <<>>, x.args, x, c)
  ELSE Refused(x, c)   \* stays an operator of MXNet, which CVM cannot take

CompileConvolution(x, c) ==
  get_nnvm_op("conv2d",
    [strides |-> get_attr(x, "stride", <<1, 1>>), padding |-> get_attr(x, "pad", <<0, 0>>),
     dilation |-> get_attr(x, "dilate", <<1, 1>>), groups |-> get_attr(x, "num_group", 1),
     use_bias |-> ~get_attr(x, "no_bias", FALSE)], x.args, x, c)

CompilePad(x, c) ==
  IF x.attr.mode # "constant" THEN Refused(x, c)
  ELSE get_nnvm_op("pad", [pad_width |-> x.attr.pad_width,
                           pad_value |-> get_attr(x, "constant_value", 0)], x.args, x, c)

CompileExpandDims(x, c) == get_nnvm_op("expand_dims", [axis |-> x.attr.axis], x.args, x, c)

(* The indices are the first argument of the one and the second of the     *)
(* other.                                                                  *)
CompileEmbedding(x, c) ==
  get_nnvm_op("take", [axis |-> 0], <<x.args[2], x.args[1]>>, x, c)

(* Without an axis the argument should be made flat; the flat one is made  *)
(* and not used.                                                           *)
CompileRepeat(x, c) ==
  get_nnvm_op("repeat", [repeats |-> x.attr.repeats, axis |-> get_attr(x, "axis", 0)], x.args, x, c)

CompileSliceLike(x, c) ==
  get_nnvm_op("slice_like", [axis |-> get_attr(x, "axes", <<>>)], x.args, x, c)

CompileUpSampling(x, c) ==
  get_nnvm_op("upsampling", [scale |-> x.attr.scale], <<x.args[1]>>, x, c)

CompileFullyConnected(x, c) ==
  LET flat == Nd(NameN("flatten", c, 1), "flatten", <<>>, <<x.args[1]>>)
  IN  get_nnvm_op("dense", [use_bias |-> ~get_attr(x, "no_bias", FALSE)],
                  IF get_attr(x, "flatten", TRUE) THEN [x.args EXCEPT ![1] = flat] ELSE x.args, x, c)

(* The kind of pooling is read from an attribute that is never there, so   *)
(* it is always the maximum; a global one is not an operator of CVM.       *)
CompilePooling(x, c) ==
  IF "kernel" \notin DOMAIN x.attr THEN Refused(x, c)
  ELSE IF get_attr(x, "global_pool", FALSE)
  THEN get_nnvm_op("global_max_pool2d", <<>>, x.args, x, c)
  ELSE get_nnvm_op("max_pool2d",
         [pool_size |-> x.attr.kernel, strides |-> get_attr(x, "stride", <<1, 1>>),
          padding |-> get_attr(x, "pad", <<0, 0>>),
          ceil_mode |-> get_attr(x, "pooling_convention", "valid") = "full"], x.args, x, c)

CompileConcat(x, c) == get_nnvm_op("concatenate", [axis |-> get_attr(x, "dim", 1)], x.args, x, c)
CompileFlatten(x, c) == get_nnvm_op("flatten", <<>>, x.args, x, c)

(* An index that is not given is written out.                              *)
FixedEnds(x, c) ==
  LET shape == ShapeOf(x.args[1], c)
      or(index, otherwise) ==
        [d \in DOMAIN index |-> IF index[d] = NoIndex THEN otherwise[d] ELSE index[d]]
  IN  [begin |-> or(x.attr.begin, [d \in DOMAIN shape |-> 0]), end |-> or(x.attr.end, shape)]

CompileSlice(x, c) == get_nnvm_op("strided_slice", FixedEnds(x, c), x.args, x, c)
CompileReshape(x, c) == get_nnvm_op("reshape", [shape |-> x.attr.shape], x.args, x, c)

(* Any other kind is a shift, by the name it has.                          *)
CompileCustom(x, c) ==
  LET kind == x.attr.op_type
      needed == CASE kind = "cvm_clip" -> {"precision"}
                  [] kind = "cvm_lut" -> {"in_dim"}
                  [] OTHER -> {"precision", "shift_bit"}
  IN  IF needed \subseteq DOMAIN x.attr
      THEN get_nnvm_op(kind, [a \in needed |-> x.attr[a]], x.args, x, c)
      ELSE Refused(x, c)

CompileClip(x, c) == get_nnvm_op("clip", [a_min |-> x.attr.a_min, a_max |-> x.attr.a_max], x.args, x, c)
CompileMinimum(x, c) == get_nnvm_op("broadcast_min", <<>>, x.args, x, c)
CompileMaximum(x, c) == get_nnvm_op("broadcast_max", <<>>, x.args, x, c)
ArgAttr(x) == [axis |-> get_attr(x, "axis", 0), keepdims |-> get_attr(x, "keepdims", FALSE)]
CompileArgmax(x, c) == get_nnvm_op("argmax", ArgAttr(x), x.args, x, c)
CompileArgmin(x, c) == get_nnvm_op("argmin", ArgAttr(x), x.args, x, c)

(* The scalar becomes a parameter.                                         *)
CompileGreaterScalar(x, c) ==
  LET name == NameN("greater_scalar", c, 1)
      T == Full(<<1>>, x.attr.scalar, 1)
  IN  get_nnvm_op("broadcast_greater", <<>>, Append(x.args, Typed(name, get_bit(T))), x,
                  SetParam(c, name, T))

compile(x, c) ==
  CASE x.op \in NoCompilePass -> Refused(x, c)
    [] x.op = "null" -> Result(x, c)
    [] x.op \in RoundingOps \cup {"Dropout"} -> Result(x.args[1], c)
    [] x.op = "Activation" -> CompileActivation(x, c)
    [] x.op = "Convolution" -> CompileConvolution(x, c)
    [] x.op = "Pad" -> CompilePad(x, c)
    [] x.op = "expand_dims" -> CompileExpandDims(x, c)
    [] x.op = "Embedding" -> CompileEmbedding(x, c)
    [] x.op = "repeat" -> CompileRepeat(x, c)
    [] x.op = "slice_like" -> CompileSliceLike(x, c)
    [] x.op = "UpSampling" -> CompileUpSampling(x, c)
    [] x.op = "FullyConnected" -> CompileFullyConnected(x, c)
    [] x.op = "Pooling" -> CompilePooling(x, c)
    [] x.op = "Concat" -> CompileConcat(x, c)
    [] x.op = "Flatten" -> CompileFlatten(x, c)
    [] x.op = "slice" -> CompileSlice(x, c)
    [] x.op = "reshape" -> CompileReshape(x, c)
    [] x.op = "Custom" -> CompileCustom(x, c)
    [] x.op = "clip" -> CompileClip(x, c)
    [] x.op = "_minimum" -> CompileMinimum(x, c)
    [] x.op = "_maximum" -> CompileMaximum(x, c)
    [] x.op = "argmax" -> CompileArgmax(x, c)
    [] x.op = "argmin" -> CompileArgmin(x, c)
    [] x.op = "_greater_scalar" -> CompileGreaterScalar(x, c)
    [] OTHER -> CompileSame(x, c)

-----------------------------------------------------------------------------
(* attach_input_shape: the input named data is told its shape.             *)
attach_input_shape(x, shape, c) ==
  IF is_inputs(x, c.params) /\ x.name = DATA_NAME
  THEN Result([x EXCEPT !.attr = [shape |-> shape] @@ @], c) ELSE Result(x, c)

(* fuse_constant holds the parameters as float32 meanwhile, and they are   *)
(* rounded to it: an integer to FLOAT_BITS bits, halves to even.  What     *)
(* rounding does to a fraction is left out.                                *)
Rounded(v) ==
  LET u == CHOOSE e \in 0 .. 30 : Abs(v) \div 2^e < 2^FLOAT_BITS /\ (e = 0 \/ Abs(v) \div 2^(e - 1) >= 2^FLOAT_BITS)
      q == v \div 2^u
      r == v % 2^u
      up == 2 * r > 2^u \/ (2 * r = 2^u /\ q % 2 = 1)
  IN  IF u = 0 THEN v ELSE (IF up THEN q + 1 ELSE q) * 2^u
Float32(T) == IF T.den = 1 THEN [T EXCEPT !.data = [k \in DOMAIN @ |-> Rounded(@[k])]] ELSE T

(* compile_to_cvm: every parameter is an integer of 32 bits and is stored  *)
(* in as many as it says it needs, eight or 32.                            *)
Storable(x, p) ==
  /\ x.op = "null"
  /\ x.name \notin DOMAIN p => x.name = DATA_NAME
  /\ x.name \in DOMAIN p =>
       /\ "precision" \in DOMAIN x.attr
       /\ \A k \in DOMAIN p[x.name].data : /\ p[x.name].data[k] % p[x.name].den = 0
                                           /\ Abs(p[x.name].data[k]) \div p[x.name].den <= INT32_MAX
AsInt8(v) == ((v + 128) % 256) - 128
Stored(x, T) ==
  LET int(v) == v \div T.den
  IN  [T EXCEPT !.den = 1, !.data = [k \in DOMAIN @ |->
         IF x.attr.precision > 8 THEN int(@[k]) ELSE AsInt8(int(@[k]))]]
=============================================================================
