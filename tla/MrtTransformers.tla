-------------------------- MODULE MrtTransformers ---------------------------
(***************************************************************************)
(* The transformers of tfm_ops.py: what fuse_transpose and rewrite make of *)
(* each operator, and the callbacks of the fuse passes of tfm_pass.py.     *)
(***************************************************************************)
EXTENDS MrtOperators

CONSTANTS
  CONV_MAXIMUM_SIZE,    \* 65536: more products than a convolution sums
  MATRIX_MAXIMUM_SIZE,  \* 65536: products summed by one operator
  MAXIMUM_SIZE          \* 128: elements averaged by one operator
-----------------------------------------------------------------------------
(* fuse_transpose: move transposes towards the output, and merge them.     *)
IsTranspose(x) == x.op = "transpose"
Identity(axes) == \A d \in DOMAIN axes : axes[d] = d - 1

(* Mutant: the permutations are composed the wrong way round.              *)
MergeReversed(x, c) ==
  LET X == x.args[1]
      axes == [d \in DOMAIN x.attr.axes |-> x.attr.axes[X.attr.axes[d] + 1]]
  IN  IF ~IsTranspose(X) THEN Result(x, c)
      ELSE IF Identity(axes) THEN Result(X.args[1], c)
      ELSE Result(Nd(x.name, "transpose", [axes |-> axes], X.args), c)

MergeTransposes(x, c) ==
  LET X == x.args[1]
      axes == [d \in DOMAIN x.attr.axes |-> X.attr.axes[x.attr.axes[d] + 1]]
  IN  IF "axes" \notin DOMAIN x.attr THEN Refused(x, c)
      ELSE IF ~IsTranspose(X) THEN Result(x, c)
      ELSE IF Identity(axes) THEN Result(X.args[1], c)
      ELSE Result(Nd(x.name, "transpose", [axes |-> axes], X.args), c)

(* The operator goes before the transpose; both keep their names.          *)
reverse_transpose(x, c) ==
  LET X == x.args[1]
  IN  IF ~IsTranspose(X) THEN Result(x, c)
      ELSE Result([X EXCEPT !.args = <<[x EXCEPT !.args = X.args]>>], c)

(* Arguments that are all transposed alike: transpose the result instead.  *)
AllTransposed(x) ==
  /\ \A i \in DOMAIN x.args : IsTranspose(x.args[i])
  /\ \A i \in DOMAIN x.args : x.args[i].attr.axes = x.args[1].attr.axes

(* Mutant: the transpose takes the name of the operator it follows.        *)
ft_named_alike(x, attr, c) ==
  LET inner == Nd(x.name, x.op, attr, [i \in DOMAIN x.args |-> x.args[i].args[1]])
  IN  Result(Nd(x.name, "transpose", x.args[1].attr, <<inner>>), c)

ft_multi_input(x, attr, c) ==
  LET inner == Nd(x.name, x.op, attr, [i \in DOMAIN x.args |-> x.args[i].args[1]])
  IN  Result(Nd(NameN("fuse_transpose", c, 0), "transpose", x.args[1].attr, <<inner>>), c)

ConcatTransposed(x, c) ==
  IF "dim" \notin DOMAIN x.attr THEN Refused(x, c)
  ELSE ft_multi_input(x, [dim |-> x.args[1].attr.axes[x.attr.dim + 1]], c)

(* The reduced axes are those before the transpose; what is left of it     *)
(* comes after the reduction.                                              *)
fuse_transpose_reduce(x, c) ==
  LET X == x.args[1]
      axes == X.attr.axes
      axis == get_attr(x, "axis", [d \in DOMAIN ShapeOf(X, c) |-> d - 1])
      naxis == {axes[Upto(axis[i], Len(axes)) + 1] : i \in DOMAIN axis}
      left == SelectSeq(axes, LAMBDA a : a \notin naxis)
      naxes == [d \in DOMAIN left |-> Cardinality({e \in DOMAIN left : left[e] < left[d]})]
      reduce(name, keep) == Nd(name, x.op, [axis |-> ToSeqOf(naxis), keepdims |-> keep], X.args)
  IN  IF ~IsTranspose(X) THEN Result(x, c)
      ELSE IF get_attr(x, "keepdims", FALSE)
      THEN Result(Nd(x.name, "transpose", [axes |-> axes],
                     <<reduce(NameN("reduce", c, 0), TRUE)>>), c)
      ELSE IF naxes # [d \in DOMAIN ShapeOf(x, c) |-> d - 1]
      THEN Result(Nd(x.name, "transpose", [axes |-> naxes],
                     <<reduce(NameN("reduce", c, 0), FALSE)>>), c)
      ELSE Result(reduce(x.name, FALSE), c)

NoFusePass == {"SliceChannel", "broadcast_sub", "Custom"}

fuse_transpose(x, c) ==
  CASE x.op \in NoFusePass -> Refused(x, c)
    [] x.op = "transpose" -> MergeTransposes(x, c)
    [] x.op \in {"relu", "LeakyReLU", "clip", "Dropout", "Activation"} -> reverse_transpose(x, c)
    [] x.op \in {"elemwise_add", "elemwise_sub", "elemwise_mul"} /\ AllTransposed(x) ->
         ft_multi_input(x, <<>>, c)
    [] x.op = "Concat" /\ AllTransposed(x) -> ConcatTransposed(x, c)
    [] x.op \in {"sum", "mean"} -> fuse_transpose_reduce(x, c)
    [] OTHER -> Result(x, c)

-----------------------------------------------------------------------------
(* rewrite: replace what the quantiser cannot do.                          *)
WithParam(c, name, T) == SetGraph(SetParam(c, name, T), name, Var(name))

(* A scalar constant, made once per pass.  A parameter left by an earlier  *)
(* pass is not in the graph, and looking it up fails.                      *)
ConstName(q) == <<"const_var", q[1], q[2]>>

(* Mutant: a constant that was made is not found again.                    *)
ConstOnce(q, c) ==
  IF ConstName(q) \in DOMAIN c.params THEN [c EXCEPT !.ok = FALSE]
  ELSE WithParam(c, ConstName(q), Full(<<1>>, q[1], q[2]))

nd_const(q, c) ==
  LET name == ConstName(q)
  IN  IF name \in DOMAIN c.graph THEN c
      ELSE IF name \in DOMAIN c.params THEN [c EXCEPT !.ok = FALSE]
      ELSE WithParam(c, name, Full(<<1>>, q[1], q[2]))
Const(q) == Var(ConstName(q))

RewriteLeaky(x, c) ==
  LET X == x.args[1]
      slope == NameN("slope", c, 0)
      part(i, op, args) == Nd(NameN("auto", c, i), op, <<>>, args)
      negative == part(3, "relu", <<part(2, "negative", <<X>>)>>)
      scaled == part(4, "broadcast_mul", <<negative, Var(slope)>>)
      s == get_attr(x, "slope", <<1, 4>>)
  IN  Result(part(5, "elemwise_sub", <<part(1, "relu", <<X>>), scaled>>),
             WithParam(c, slope, Full(<<1>>, s[1], s[2])))

RewriteMulScalar(x, c) ==
  Result(Nd(x.name, "broadcast_mul", <<>>, <<x.args[1], Const(x.attr.scalar)>>),
         nd_const(x.attr.scalar, c))

(* Mutant: a division becomes a multiplication by a scalar, which no one   *)
(* visits again.                                                           *)
DivAsMulScalar(x, c) ==
  Result(Nd(x.name, "_mul_scalar", [scalar |-> <<x.attr.scalar[2], x.attr.scalar[1]>>], x.args), c)

RewriteDivScalar(x, c) ==
  LET name == NameN("scalar", c, 0)
  IN  Result(Nd(x.name, "broadcast_mul", <<>>, <<x.args[1], Var(name)>>),
             WithParam(c, name, Full(<<1>>, x.attr.scalar[2], x.attr.scalar[1])))

RewritePlusScalar(x, c) ==
  IF x.attr.scalar[1] = 0 THEN Result(x.args[1], c)
  ELSE Result(Nd(x.name, "broadcast_add", <<>>, <<x.args[1], Const(x.attr.scalar)>>),
              nd_const(x.attr.scalar, c))

Zero == <<0, 1>>
One == <<1, 1>>

RewriteZerosLike(x, c) ==
  Result(Nd(x.name, "broadcast_mul", <<>>, <<x.args[1], Const(Zero)>>), nd_const(Zero, c))

RewriteOnesLike(x, c) ==
  LET zeros == Nd(NameN("auto", c, 1), "broadcast_mul", <<>>, <<x.args[1], Const(Zero)>>)
  IN  Result(Nd(x.name, "broadcast_add", <<>>, <<zeros, Const(One)>>),
             nd_const(One, nd_const(Zero, c)))

(* A convolution over a line becomes one over a plane of width one.  All   *)
(* its attributes must be given, and one that sums too many products for a *)
(* word is refused (_validate_overflow).                                   *)
RewriteConvolution(x, c) ==
  LET W == x.args[2].name
      two(key, d) == Append(x.attr[key], d)
      plane == Nd(x.name, "Convolution",
                  [kernel |-> two("kernel", 1), stride |-> two("stride", 1), pad |-> two("pad", 0),
                   dilate |-> two("dilate", 1), num_filter |-> x.attr.num_filter,
                   num_group |-> get_attr(x, "num_group", 1)],
                  <<Nd(NameN("auto", c, 1), "expand_dims", [axis |-> 3], <<x.args[1]>>), Var(W)>>
                    \o SubSeq(x.args, 3, Len(x.args)))
  IN  IF get_attr(x, "layout", "NCHW") = "NCHW" THEN Result(x, c)
      ELSE IF \/ ~{"kernel", "stride", "pad", "dilate", "num_filter"} \subseteq DOMAIN x.attr
              \/ Size(Tail(ShapeOf(x.args[2], c))) >= CONV_MAXIMUM_SIZE
           THEN Refused(x, c)
      ELSE Result(Nd(NameN("auto", c, 2), "squeeze", [axis |-> 3], <<plane>>),
                  WithParam(c, W, expand_dims(c.params[W], 3)))

RewriteSliceAxis(x, c) ==
  LET shape == ShapeOf(x.args[1], c)
      axis == Upto(x.attr.axis, Len(shape)) + 1
      stop == get_attr(x, "end", shape[axis])
  IN  Result(Nd(x.name, "slice",
                [begin |-> [d \in DOMAIN shape |-> IF d = axis THEN x.attr.begin ELSE 0],
                 end |-> [d \in DOMAIN shape |-> IF d = axis THEN stop ELSE shape[d]]],
                <<x.args[1]>>), c)

RewriteSwapAxis(x, c) ==
  LET a == get_attr(x, "dim1", 0)
      b == get_attr(x, "dim2", 0)
      swapped == [d \in DOMAIN ShapeOf(x, c) |->
                    IF d - 1 = a THEN b ELSE IF d - 1 = b THEN a ELSE d - 1]
  IN  IF a = b THEN Result(x.args[1], c)
      ELSE Result(Nd(x.name, "transpose", [axes |-> swapped], <<x.args[1]>>), c)

RewriteElemwiseMul(x, c) ==
  IF ShapeOf(x.args[1], c) # ShapeOf(x.args[2], c) THEN Refused(x, c)
  ELSE Result(Nd(x.name, "broadcast_mul", <<>>, x.args), c)

(* The nodes summed pairwise, oldest first; the last sum may be named.     *)
RECURSIVE PairwiseSum(_, _, _, _)
PairwiseSum(nodes, last, c, i) ==
  IF Len(nodes) = 1 THEN nodes[1]
  ELSE LET name == IF Len(nodes) = 2 /\ last # <<>> THEN last ELSE NameN("elemwise_add", c, i)
           sum == Nd(name, "elemwise_add", <<>>, <<nodes[1], nodes[2]>>)
       IN  PairwiseSum(Append(SubSeq(nodes, 3, Len(nodes)), sum), last, c, i + 1)

Steps(n, step) == [k \in 1 .. (n + step - 1) \div step |->
                     <<(k - 1) * step, IF k * step < n THEN k * step ELSE n>>]

(* _matrix_decomposition: a product over too many terms, in slices.  The   *)
(* slices of W are parameters; those of X are slice_axis operators, which  *)
(* this pass has rewritten in the model but not in what it emits.          *)
Decomposed(x, c) ==
  LET W == x.args[2]
      C == ShapeOf(W, c)[2]
      X == IF x.args[1].op = "Flatten" THEN x.args[1]
           ELSE Nd(NameN("flatten", c, 0), "Flatten", <<>>, <<x.args[1]>>)
      steps == Steps(C, MATRIX_MAXIMUM_SIZE)
      wname(k) == NameN("slice_axis_w", c, k)
      slice_of(k) == Nd(NameN("slice_axis", c, k), "slice_axis",
                        [axis |-> 1, begin |-> steps[k][1], end |-> steps[k][2]], <<X>>)
      part(k) == Nd(NameN("dense", c, k), "FullyConnected", x.attr, <<slice_of(k), Var(wname(k))>>)
      sum == PairwiseSum([k \in DOMAIN steps |-> part(k)], <<>>, c, 1)
      weights == [n \in {wname(k) : k \in DOMAIN steps} |->
                    LET k == CHOOSE j \in DOMAIN steps : wname(j) = n
                    IN  slice_axis(c.params[W.name], 1, steps[k][1], steps[k][2])]
  IN  IF C <= MATRIX_MAXIMUM_SIZE THEN Result(x, c)
      ELSE Result(IF Len(x.args) = 2 THEN sum
                  ELSE Nd(NameN("broadcast_add", c, 0), "broadcast_add", <<>>, <<sum, x.args[3]>>),
                  [c EXCEPT !.params = weights @@ @])

(* reduce: an input of more than two dimensions is made a matrix first.    *)
RewriteFullyConnected(x, c) ==
  LET xshp == ShapeOf(x.args[1], c)
      n == Len(xshp)
      pre(shape) == Nd(NameN("pre_reshape", c, 0), "reshape", [shape |-> shape], <<x.args[1]>>)
      over(name, shape) == [x EXCEPT !.name = name, !.args[1] = pre(shape)]
      fc == Decomposed(over(NameN("reduced_fc", c, 0), <<-1, xshp[n]>>), c)
  IN  IF n <= 2 THEN Decomposed(x, c)
      ELSE IF ~{"no_bias", "flatten"} \subseteq DOMAIN x.attr THEN Refused(x, c)
      ELSE IF x.attr.flatten THEN Decomposed(over(x.name, <<-1>> \o Tail(xshp)), c)
      ELSE Result(Nd(x.name, "reshape",
                     [shape |-> <<-1>> \o SubSeq(xshp, 2, n - 1) \o <<x.attr.num_hidden>>],
                     <<fc.op>>), fc.c)

(* A global average is a sum times a constant, a windowed one a grouped    *)
(* convolution with a constant kernel.                                     *)
RewritePooling(x, c) ==
  LET X == x.args[1]
      shape == ShapeOf(X, c)
      scale == NameN("avg_scale", c, 0)
      weight == NameN("weight", c, 0)
      k == x.attr.kernel
      total == Nd(NameN("sum", c, 0), "sum", [axis |-> <<2, 3>>, keepdims |-> TRUE], <<X>>)
  IN  IF get_attr(x, "pool_type", "max") # "avg" THEN Result(x, c)
      ELSE IF get_attr(x, "global_pool", FALSE)
      THEN Result(Nd(NameN("braodcast_mul", c, 0), "broadcast_mul", <<>>, <<total, Var(scale)>>),
                  WithParam(c, scale, Full(<<1>>, 1, shape[3] * shape[4])))
      ELSE IF ~{"stride", "pad"} \subseteq DOMAIN x.attr THEN Refused(x, c)
      ELSE Result(Nd(NameN("pool_conv", c, 0), "Convolution",
                     [stride |-> x.attr.stride, pad |-> x.attr.pad, num_group |-> shape[2]],
                     <<X, Var(weight)>>),
                  WithParam(c, weight, Full(<<shape[2], 1, k[1], k[2]>>, 1, k[1] * k[2])))

(* After a convolution the normalisation becomes part of its weight and    *)
(* bias -- the bias in place, under its old name -- and of a multiply and  *)
(* an add otherwise.                                                       *)
RewriteBatchNorm(x, c) ==
  LET X == x.args[1]
      P(i) == c.params[x.args[i].name]
      rdev == Reciprocal(Deviation(P(5)))
      sc == IF get_attr(x, "fix_gamma", TRUE) THEN rdev ELSE broadcast_mul(P(2), rdev)
      bias == broadcast_add(P(3), Scaled(broadcast_mul(sc, P(4)), -1, 1))
      axis == get_attr(x, "axis", 1)
      wn == NameN("conv_weight", c, 0)
      weight == c.params[X.args[2].name]
      old == SubSeq(X.args, 3, Len(X.args))
      bn == IF old = <<>> THEN NameN("bias", c, 0) ELSE old[1].name
      nbias == IF old = <<>> THEN bias ELSE broadcast_add(bias, c.params[bn])
      wide(V) == Along(V, [shape |-> ShapeOf(X, c)], axis)
      w == NameN("weight", c, 0)
      b == NameN("bias", c, 1)
      scaled == Nd(NameN("broadcast_mul", c, 0), "broadcast_mul", <<>>, <<X, Var(w)>>)
  IN  IF X.op = "Convolution"
      THEN Result(Nd(NameN("conv", c, 0), "Convolution", X.attr, <<X.args[1], Var(wn), Var(bn)>>),
                  SetParam(SetParam(c, wn, broadcast_mul(weight, reshape(sc, <<-1, 1, 1, 1>>))), bn, nbias))
      ELSE Result(Nd(NameN("broadcast_add", c, 0), "broadcast_add", <<>>, <<scaled, Var(b)>>),
                  SetParam(SetParam(c, w, wide(sc)), b, wide(bias)))

(* Transposed operands are transposed explicitly; a long contracted        *)
(* dimension is summed in slices.                                          *)
RewriteBatchDot(x, c) ==
  LET side(i, key, kind) ==
        IF get_attr(x, key, FALSE)
        THEN Nd(NameN(kind, c, 0), "transpose", [axes |-> <<0, 2, 1>>], <<x.args[i]>>)
        ELSE x.args[i]
      turned(s, key) == IF get_attr(x, key, FALSE) THEN <<s[1], s[3], s[2]>> ELSE s
      A == side(1, "transpose_a", "transpose_a")
      B == side(2, "transpose_b", "transpose_b")
      ashp == turned(ShapeOf(x.args[1], c), "transpose_a")
      bshp == turned(ShapeOf(x.args[2], c), "transpose_b")
      steps == Steps(ashp[3], MATRIX_MAXIMUM_SIZE)
      cut(kind, k, Y, begin, end) ==
        Nd(NameN(kind, c, k), "slice", [begin |-> begin, end |-> end], <<Y>>)
      part(k) ==
        Nd(NameN("batch_dot", c, k), "batch_dot", <<>>,
           <<cut("slice_a", k, A, <<0, 0, steps[k][1]>>, <<ashp[1], ashp[2], steps[k][2]>>),
             cut("slice_b", k, B, <<0, steps[k][1], 0>>, <<bshp[1], steps[k][2], bshp[3]>>)>>)
  IN  IF ashp[3] <= MATRIX_MAXIMUM_SIZE THEN Result(Nd(x.name, "batch_dot", <<>>, <<A, B>>), c)
      ELSE Result(PairwiseSum([k \in DOMAIN steps |-> part(k)], x.name, c, 1), c)

RewriteReshapeLike(x, c) ==
  LET xshp == ShapeOf(x.args[1], c)
      wshp == ShapeOf(x.args[2], c)
      lb == Upto(get_attr(x, "lhs_begin", 0), Len(xshp))
      le == Upto(get_attr(x, "lhs_end", Len(xshp)), Len(xshp))
      rb == Upto(get_attr(x, "rhs_begin", 0), Len(wshp))
      re == Upto(get_attr(x, "rhs_end", Len(wshp)), Len(wshp))
      shape == SubSeq(xshp, 1, lb) \o SubSeq(wshp, rb + 1, re) \o SubSeq(xshp, le + 1, Len(xshp))
  IN  IF lb >= le \/ rb >= re THEN Refused(x, c)
      ELSE Result(Nd(x.name, "reshape", [shape |-> <<-1>> \o Tail(shape)], <<x.args[1]>>), c)

-----------------------------------------------------------------------------
(* broadcast_like as X * (W * 0 + 1), after W is brought to the shape of   *)
(* the result: map pairs an axis of X with the axis of W it takes its      *)
(* extent from.                                                            *)
Values(map) == {map[n][2] : n \in DOMAIN map}
Held(W, wshp, map) == [W |-> W, wshp |-> wshp, map |-> map]

(* Axes of W used twice are split in two.                                  *)
RECURSIVE SplitShared(_, _, _)
SplitShared(h, c, i) ==
  LET twice == {n \in DOMAIN h.map : \E m \in 1 .. n - 1 : h.map[m][2] = h.map[n][2]}
      n == CHOOSE m \in twice : \A l \in twice : m <= l
      pv == h.map[n][2]
      up == Nd(NameN("expand_dims", c, i), "expand_dims", [axis |-> pv], <<h.W>>)
      W == Nd(NameN("repeat", c, i), "repeat", [axis |-> pv, repeats |-> h.wshp[pv + 1]], <<up>>)
      map == [m \in DOMAIN h.map |->
                <<h.map[m][1], IF h.map[m][2] > pv \/ m = n THEN h.map[m][2] + 1 ELSE h.map[m][2]>>]
  IN  IF twice = {} THEN h ELSE SplitShared(Held(W, With(h.wshp, pv + 1, h.wshp[pv + 1]), map), c, i + 1)

(* Axes of W that are not used go, or axes are added at the end, until the *)
(* ranks agree.                                                            *)
RECURSIVE FitRank(_, _, _, _)
FitRank(h, rank, c, i) ==
  LET n == Len(h.wshp)
      v == CHOOSE a \in 0 .. n : a \notin Values(h.map) /\ \A b \in 0 .. a - 1 : b \in Values(h.map)
      map == [m \in DOMAIN h.map |->
                <<h.map[m][1], IF h.map[m][2] > v THEN h.map[m][2] - 1 ELSE h.map[m][2]>>]
  IN  IF n > rank
      THEN FitRank(Held(Nd(NameN("squeeze", c, i), "squeeze", [axis |-> v], <<h.W>>),
                        Without(h.wshp, v + 1), map), rank, c, i + 1)
      ELSE IF n < rank
      THEN FitRank(Held(Nd(NameN("expand_dims", c, 5 + i), "expand_dims", [axis |-> n], <<h.W>>),
                        Append(h.wshp, 1), h.map), rank, c, i + 1)
      ELSE h

(* The transpose that puts every axis in its place, swap by swap.          *)
RECURSIVE Permutation(_, _)
Permutation(map, axes) ==
  LET live == SelectSeq(map, LAMBDA p : p[1] # p[2])
      k == live[1][1]
      v == live[1][2]
      other(a) == IF a = k THEN v ELSE IF a = v THEN k ELSE a
  IN  IF live = <<>> THEN axes
      ELSE Permutation([n \in DOMAIN live |-> <<live[n][1], other(live[n][2])>>],
                       [axes EXCEPT ![k + 1] = axes[v + 1], ![v + 1] = axes[k + 1]])

TimesOnes(x, W, c) ==
  LET zeros == Nd(NameN("broadcast_mul", c, 0), "broadcast_mul", <<>>, <<W, Const(Zero)>>)
      ones == Nd(NameN("broadcast_add", c, 0), "broadcast_add", <<>>, <<zeros, Const(One)>>)
  IN  Result(Nd(x.name, "broadcast_mul", <<>>, <<x.args[1], ones>>), nd_const(Zero, nd_const(One, c)))

RewriteBroadcastLike(x, c) ==
  LET xshp == ShapeOf(x.args[1], c)
      wshp == ShapeOf(x.args[2], c)
      axes(key, shape) == [n \in DOMAIN x.attr[key] |-> Upto(x.attr[key][n], Len(shape))]
      lhs == axes("lhs_axes", xshp)
      rhs == axes("rhs_axes", wshp)
      map == [n \in DOMAIN lhs |-> <<lhs[n], rhs[n]>>]
      reps == [d \in DOMAIN xshp |-> IF \E n \in DOMAIN lhs : lhs[n] = d - 1
                 THEN wshp[rhs[CHOOSE n \in DOMAIN lhs : lhs[n] = d - 1] + 1] ELSE 1]
      end == [d \in DOMAIN wshp |-> IF d - 1 \in Values(map) THEN wshp[d] ELSE 1]
      W == Nd(NameN("slice", c, 0), "slice", [begin |-> [d \in DOMAIN wshp |-> 0], end |-> end],
              <<x.args[2]>>)
      h == FitRank(SplitShared(Held(W, wshp, map), c, 1), Len(xshp), c, 1)
      perm == Permutation(h.map, [d \in DOMAIN xshp |-> d - 1])
      placed == IF Identity(perm) THEN h.W
                ELSE Nd(NameN("transpose", c, 0), "transpose", [axes |-> perm], <<h.W>>)
  IN  IF {"lhs_axes", "rhs_axes"} \cap DOMAIN x.attr = {}
      THEN IF Len(xshp) # Len(wshp) THEN Refused(x, c) ELSE TimesOnes(x, x.args[2], c)
      ELSE IF \E n \in DOMAIN lhs : xshp[lhs[n] + 1] # 1 THEN Refused(x, c)
      ELSE IF \A n \in DOMAIN rhs : rhs[n] # 0
      THEN Result(Nd(x.name, "tile", [reps |-> reps], <<x.args[1]>>), c)
      ELSE IF Cardinality({n \in DOMAIN rhs : rhs[n] = 0}) > 1 THEN Refused(x, c)
      ELSE TimesOnes(x, placed, c)

-----------------------------------------------------------------------------
(* mean: a sum and a rounding shift; more than MAXIMUM_SIZE elements are   *)
(* averaged in slices, and the averages averaged.                          *)
Log(n) == CHOOSE b \in 0 .. 30 : 2^b <= n /\ n < 2^(b + 1)

RewriteMean(x, c) ==
  LET X == x.args[1]
      shp == ShapeOf(X, c)
      at(a) == Upto(a, Len(shp)) + 1
      axis == x.attr.axis
      prod == Size([n \in DOMAIN axis |-> shp[at(axis[n])]])
      keep == get_attr(x, "keepdims", FALSE)
      reduced == {axis[n] : n \in DOMAIN axis}
      others == ToSeqOf((0 .. Len(shp) - 1) \ reduced)
      axes == others \o ToSeqOf(reduced)
      nshp == [d \in 1 .. Len(others) + 1 |-> IF d <= Len(others) THEN shp[others[d] + 1] ELSE prod]
      eax == Len(others)
      shift(name, Y, sb) == Nd(name, "Custom", [op_type |-> "right_shift", shift_bit |-> sb], <<Y>>)
      total(i, Y, ax, k) == Nd(NameN("sum", c, i), "sum", [axis |-> ax, keepdims |-> k], <<Y>>)
      T == IF Identity(axes) THEN X
           ELSE Nd(NameN("transpose", c, 0), "transpose", [axes |-> axes], <<X>>)
      R == IF Cardinality(reduced) = 1 THEN T
           ELSE Nd(NameN("reshape", c, 0), "reshape", [shape |-> nshp], <<T>>)
      steps == Steps(prod, MAXIMUM_SIZE)
      slice_of(k) == Nd(NameN("slice_axis", c, k), "slice_axis",
                        [axis |-> eax, begin |-> steps[k][1], end |-> steps[k][2]], <<R>>)
      mean_of(k) == shift(NameN("custom", c, k), total(k, slice_of(k), <<eax>>, TRUE), Log(MAXIMUM_SIZE))
      all == Nd(NameN("concat", c, 0), "Concat", [dim |-> eax],
                [k \in DOMAIN steps |-> mean_of(Len(steps) + 1 - k)])
      RECURSIVE Expanded(_, _)
      Expanded(Y, i) == IF i = Cardinality(reduced) THEN Y
        ELSE Expanded(Nd(NameN("expand_dims", c, i), "expand_dims", [axis |-> eax + i], <<Y>>), i + 1)
      last == IF keep THEN Expanded(total(0, all, <<eax>>, TRUE), 1) ELSE total(0, all, <<eax>>, FALSE)
  IN  IF "axis" \notin DOMAIN x.attr \/ 2^Log(prod) # prod THEN Refused(x, c)
      ELSE IF prod = 1 THEN Result(total(0, X, axis, keep), c)
      ELSE IF prod <= MAXIMUM_SIZE
      THEN Result(shift(x.name, total(0, X, axis, keep), Log(prod)), c)
      ELSE IF \/ \E n \in DOMAIN axis : axis[n] < 0   \* no transpose has such axes
              \/ Len(steps) > MAXIMUM_SIZE            \* assert MAXIMUM_SIZE % len(ops) == 0
              \/ keep /\ ~Identity(axes)              \* mx.sym.tranpose
      THEN Refused(x, c)
      ELSE Result(shift(x.name, last, Log(Len(steps))), c)

NoRewritePass == {"SliceChannel", "broadcast_sub", "Custom"}

rewrite(x, c) ==
  CASE x.op \in NoRewritePass -> Refused(x, c)
    [] x.op = "LeakyReLU" -> RewriteLeaky(x, c)
    [] x.op = "_mul_scalar" -> RewriteMulScalar(x, c)
    [] x.op = "_div_scalar" -> RewriteDivScalar(x, c)
    [] x.op = "_plus_scalar" -> RewritePlusScalar(x, c)
    [] x.op = "zeros_like" -> RewriteZerosLike(x, c)
    [] x.op = "ones_like" -> RewriteOnesLike(x, c)
    [] x.op = "Convolution" -> RewriteConvolution(x, c)
    [] x.op = "slice_axis" -> RewriteSliceAxis(x, c)
    [] x.op = "SwapAxis" -> RewriteSwapAxis(x, c)
    [] x.op = "elemwise_mul" -> RewriteElemwiseMul(x, c)
    [] x.op = "FullyConnected" -> RewriteFullyConnected(x, c)
    [] x.op = "Pooling" -> RewritePooling(x, c)
    [] x.op = "BatchNorm" -> RewriteBatchNorm(x, c)
    [] x.op = "batch_dot" -> RewriteBatchDot(x, c)
    [] x.op = "reshape_like" -> RewriteReshapeLike(x, c)
    [] x.op = "broadcast_like" -> RewriteBroadcastLike(x, c)
    [] x.op = "mean" -> RewriteMean(x, c)
    [] OTHER -> Result(x, c)

-----------------------------------------------------------------------------
(* The other passes.                                                       *)
is_inputs(x, p) == x.op = "null" /\ x.name \notin DOMAIN p

(* Bits of the largest element, with a sign.                               *)
Abs(v) == IF v < 0 THEN -v ELSE v
get_bit(T) ==
  LET m == Largest({Abs(T.data[k]) : k \in DOMAIN T.data})
  IN  1 + CHOOSE b \in 0 .. 30 : /\ 2^b * T.den >= m + T.den
                                 /\ \A a \in 0 .. b - 1 : 2^a * T.den < m + T.den

(* fuse_constant: an operator over parameters only becomes a parameter.    *)
fuse_constant(x, c) ==
  LET T == Apply(x, [i \in DOMAIN x.args |-> c.params[x.args[i].name]])
  IN  IF x.op # "null" /\ \A i \in DOMAIN x.args : is_params(x.args[i], c.params)
      THEN Result(Typed(x.name, get_bit(T)), SetParam(c, x.name, T))
      ELSE Result(x, c)

(* fuse_multiple_outputs: a consumer of an output of SliceChannel slices   *)
(* the argument itself.                                                    *)
fuse_multiple_outputs(x, c) ==
  LET sliced(i) ==
        LET X == x.args[i]
            axis == get_attr(X, "axis", 1)
            shape == ShapeOf(X.args[1], c)
            stride == shape[Upto(axis, Len(shape)) + 1] \div X.attr.num_outputs
        IN  IF X.op # "SliceChannel" THEN X
            ELSE Nd(NameN("slice_axis", c, i), "slice_axis",
                    [axis |-> axis, begin |-> X.out * stride, end |-> (X.out + 1) * stride], X.args)
      shape == ShapeOf(x.args[1], c)
  IN  IF x.op = "SliceChannel"
      THEN IF shape[Upto(get_attr(x, "axis", 1), Len(shape)) + 1] % x.attr.num_outputs = 0
           THEN Result(x, c) ELSE Refused(x, c)
      ELSE Result([x EXCEPT !.args = [i \in DOMAIN x.args |-> sliced(i)]], c)

=============================================================================
