---------------------------- MODULE MCMrtRewrite ----------------------------
(***************************************************************************)
(* Small models for MrtRewrite: chains of layers over one input with two   *)
(* elements a side, and the shapes of graph each rewrite is written for.   *)
(***************************************************************************)
EXTENDS MrtRewrite

(* Distinct elements of both signs.                                        *)
Ramp(shape) == Tabulate(shape, 1, LAMBDA i : LET k == Ravel(shape, i) IN IF k % 2 = 0 THEN k + 1 ELSE -3 * k)
Positive(shape) == Tabulate(shape, 1, LAMBDA i : Ravel(shape, i) + 1)
Squares(shape) == Tabulate(shape, 1, LAMBDA i : (Ravel(shape, i) + 1) * (Ravel(shape, i) + 1))

X == <<"x", 0>>
Y == <<"y", 0>>
W == <<"w", 0>>
M(s, p, in) == [sym |-> s, params |-> p, inputs |-> in, tolerance |-> 0, supported |-> TRUE,
              quantized |-> FALSE, sliced |-> FALSE, cfg |-> <<>>]
Unsupported(m) == [m EXCEPT !.supported = FALSE]

-----------------------------------------------------------------------------
(* Chains.  Layer i of a chain is named after i.                           *)
Layer(op, attr) == [op |-> op, attr |-> attr]
Turns == {Layer("transpose", [axes |-> a]) :
            a \in {<<0, 2, 3, 1>>, <<0, 3, 1, 2>>, <<1, 0, 2, 3>>, <<3, 2, 1, 0>>}}
Pointwise == {Layer("relu", <<>>), Layer("Dropout", <<>>), Layer("LeakyReLU", [slope |-> <<1, 2>>]),
              Layer("clip", [a_min |-> -4, a_max |-> 5]), Layer("_mul_scalar", [scalar |-> <<3, 1>>]),
              Layer("_div_scalar", [scalar |-> <<2, 1>>]), Layer("_plus_scalar", [scalar |-> <<0, 1>>]),
              Layer("_plus_scalar", [scalar |-> <<3, 1>>]), Layer("ones_like", <<>>),
              Layer("zeros_like", <<>>)}
Cut == Layer("slice_axis", [axis |-> -1, begin |-> 1])
Shapers == {Layer("SwapAxis", [dim1 |-> 1, dim2 |-> 3]), Cut}
Ends == {Layer("sum", [axis |-> a, keepdims |-> k]) : a \in {<<1>>, <<0, 2>>, <<-1, 0>>}, k \in BOOLEAN}
        \cup {Layer("sum", <<>>), Layer("sum", [axis |-> <<2, 0, 1>>])}

Chain(layers) ==
  LET term[i \in 0 .. Len(layers)] ==
        IF i = 0 THEN Var(X) ELSE Nd(<<"layer", i>>, layers[i].op, layers[i].attr, <<term[i - 1]>>)
  IN  M(term[Len(layers)], <<>>, X :> Ramp(<<2, 2, 2, 2>>))

AllPasses == <<"inputs", "fuse_multiple_outputs", "fuse_constant",
               "fuse_transpose", "rewrite", "fuse_constant", "calibrate">>

Layers == Turns \cup Pointwise \cup Shapers
Chains == {Chain(l) : l \in {<<a, b>> : a \in Layers, b \in Layers \cup Ends} \ {<<Cut, Cut>>}}
          \cup {Chain(<<a, b, d>>) : a \in Turns, b \in Turns, d \in Turns \cup Ends}
          \cup {Chain(<<a, b, d>>) : a \in Turns, b \in Pointwise, d \in Ends}

-----------------------------------------------------------------------------
(* Graphs: N(k, ...) is a node, P(k) a parameter.                          *)
N(k, op, attr, args) == Nd(<<"n", k>>, op, attr, args)
P(k) == <<"p", k>>
x == Var(X)
On(s, shape) == M(s, <<>>, X :> Ramp(shape))
With1(s, shape, wshape) == M(s, P(1) :> Ramp(wshape), X :> Ramp(shape))
With2(s, shape, wshape, bshape) == M(s, P(1) :> Ramp(wshape) @@ P(2) :> Ramp(bshape), X :> Ramp(shape))
T(k, axes, y) == N(k, "transpose", [axes |-> axes], <<y>>)
A == <<0, 2, 1>>
B == <<2, 0, 1>>

(* Several arguments, transposed alike and not.                            *)
Joins ==
  {On(N(9, op, attr, <<T(1, a, x), T(2, b, N(3, "relu", <<>>, <<x>>))>>), <<2, 2, 2>>) :
     op \in {"elemwise_add", "elemwise_sub", "elemwise_mul", "Concat"}, attr \in {[dim |-> 1]},
     a \in {A, B}, b \in {A, B}}
  \cup {On(N(9, "elemwise_add", <<>>, <<T(1, A, x), N(2, "relu", <<>>, <<N(3, "Dropout", <<>>, <<x>>)>>)>>), <<2, 2, 2>>),
        On(N(9, "elemwise_mul", <<>>, <<N(1, "_mul_scalar", [scalar |-> <<3, 1>>], <<x>>),
                                       N(2, "_mul_scalar", [scalar |-> <<3, 1>>], <<x>>)>>), <<2, 2>>),
        On(N(9, "Concat", [dim |-> 0], <<N(1, "LeakyReLU", <<>>, <<x>>), N(2, "LeakyReLU", <<>>, <<x>>)>>), <<2, 2>>)}

(* Outputs of one SliceChannel; a SliceChannel of a SliceChannel is not    *)
(* reduced, nor is one that is the output.                                 *)
Split(k, y, axis) == N(k, "SliceChannel", [axis |-> axis, num_outputs |-> 2], <<y>>)
Part(s, i) == [s EXCEPT !.out = i]
Splits ==
  {On(N(9, "elemwise_add", <<>>, <<Part(Split(1, x, a), 0), N(2, "relu", <<>>, <<Part(Split(1, x, a), 1)>>)>>), <<2, 4>>) :
     a \in {0, 1, -1}}
  \cup {Unsupported(On(N(9, "relu", <<>>, <<Part(Split(2, Part(Split(1, x, 1), 1), 1), 0)>>), <<2, 4>>)),
        Unsupported(On(Part(Split(1, x, 1), 1), <<2, 4>>))}

(* Two inputs become one; parameters alone are folded.                     *)
Inputs ==
  {M(N(9, "Concat", [dim |-> 0], <<N(1, "relu", <<>>, <<x>>), N(2, "negative", <<>>, <<Var(Y)>>)>>), <<>>,
     X :> Ramp(<<1, 3>>) @@ Y :> Positive(<<2, 3>>)),
   M(N(9, "elemwise_sub", <<>>, <<Var(Y), N(1, "transpose", [axes |-> <<1, 0>>], <<x>>)>>), <<>>,
     X :> Ramp(<<3, 2>>) @@ Y :> Positive(<<2, 3>>)),
   With2(N(9, "broadcast_add", <<>>, <<x, N(1, "broadcast_mul", <<>>, <<Var(P(1)), T(2, <<1, 0>>, Var(P(2)))>>)>>),
         <<2, 3>>, <<2, 3>>, <<3, 2>>)}

(* Dense layers: few or many terms, with or without a bias.                *)
Dense(attr, shape, c, bias) ==
  IF bias THEN With2(N(9, "FullyConnected", attr, <<x, Var(P(1)), Var(P(2))>>), shape, <<2, c>>, <<2>>)
  ELSE With1(N(9, "FullyConnected", attr, <<x, Var(P(1))>>), shape, <<2, c>>)
DenseAttr(flat, no_bias) == [flatten |-> flat, no_bias |-> no_bias, num_hidden |-> 2]
Products(c) ==
  {Dense(DenseAttr(f, ~b), <<2, c>>, c, b) : f \in BOOLEAN, b \in BOOLEAN}
  \cup {Dense(DenseAttr(FALSE, ~b), <<2, 2, c>>, c, b) : b \in BOOLEAN}
  \cup {Dense([num_hidden |-> 2], <<2, c>>, c, TRUE), Unsupported(Dense([num_hidden |-> 2], <<2, 1, c>>, c, TRUE))}
  \cup {M(N(9, "batch_dot", [transpose_a |-> ta, transpose_b |-> tb], <<x, Var(P(1))>>),
          P(1) :> Ramp(IF tb THEN <<2, 3, c>> ELSE <<2, c, 3>>),
          X :> Ramp(IF ta THEN <<2, c, 2>> ELSE <<2, 2, c>>)) : ta \in BOOLEAN, tb \in BOOLEAN}

(* Convolutions, normalisations, averages.                                 *)
ConvAttr == [kernel |-> <<2, 2>>, stride |-> <<1, 1>>, pad |-> <<1, 0>>]
Conv2(k, args) == N(k, "Convolution", ConvAttr, args)
Norm(y, axis) == N(8, "BatchNorm", [axis |-> axis, fix_gamma |-> FALSE, eps |-> 0],
                   <<y, Var(P(11)), Var(P(12)), Var(P(13)), Var(P(14))>>)
NormParams == P(11) :> Ramp(<<2>>) @@ P(12) :> Positive(<<2>>) @@ P(13) :> Ramp(<<2>>) @@ P(14) :> Squares(<<2>>)
Normed(m) == [m EXCEPT !.params = NormParams @@ @]
OnLine(k, s, t, g) ==
  [layout |-> "NCW", kernel |-> <<k>>, stride |-> <<s>>, pad |-> <<1>>, dilate |-> <<t>>, num_filter |-> 2,
   num_group |-> g]
Layers2 ==
  {Normed(On(Norm(x, a), <<2, 2, 2>>)) : a \in {1, 2}}
  \cup {Normed(On([Norm(x, 1) EXCEPT !.attr = [eps |-> 0]], <<2, 2>>)),
        Normed(With1(Norm(Conv2(1, <<x, Var(P(1))>>), 1), <<1, 1, 2, 2>>, <<2, 1, 2, 2>>)),
        Normed(With1(N(9, "broadcast_add", <<>>, <<Norm(Conv2(1, <<x, Var(P(1))>>), 1), Conv2(1, <<x, Var(P(1))>>)>>),
                     <<1, 1, 2, 2>>, <<2, 1, 2, 2>>))}
  \cup {With2(N(9, "Convolution", OnLine(2, s, t, g), <<x, Var(P(1)), Var(P(2))>>),
               <<1, 2, 3>>, <<2, 2 \div g, 2>>, <<2>>) : s \in {1, 2}, t \in {1, 2}, g \in {1, 2}}
  \cup {Unsupported(With1(N(9, "Convolution", a, <<x, Var(P(1))>>), <<1, 2, 3>>, <<2, 2, 2>>)) :
          a \in {[layout |-> "NCW", kernel |-> <<2>>],
                 [k \in DOMAIN OnLine(2, 1, 1, 1) \ {"dilate"} |-> OnLine(2, 1, 1, 1)[k]]}}
  \cup {Unsupported(With1(N(9, "Convolution", OnLine(3, 1, 1, 1), <<x, Var(P(1))>>), <<1, 2, 3>>, <<2, 2, 3>>))}
  \cup {On(N(9, "Pooling", [kernel |-> <<2, 2>>, stride |-> <<s, 1>>, pad |-> <<p, 0>>, pool_type |-> t], <<x>>), <<1, 2, 3, 3>>) :
          s \in {1, 2}, p \in {0, 1}, t \in {"avg", "max"}}
  \cup {On(N(9, "Pooling", [kernel |-> <<1, 1>>, global_pool |-> TRUE, pool_type |-> "avg"], <<x>>), <<1, 2, 3, 2>>),
        Unsupported(On(N(9, "Pooling", [kernel |-> <<2, 2>>, pool_type |-> "avg"], <<x>>), <<1, 1, 2, 2>>))}

(* Means: of a power of two of elements, one slice, or enough of them.     *)
Mean(shape, attr) == [On(N(9, "mean", attr, <<x>>), shape) EXCEPT !.tolerance = 1]
Means ==
  {Mean(<<2, 4>>, [axis |-> a, keepdims |-> k]) : a \in {<<1>>, <<-1>>}, k \in BOOLEAN}
  \cup {Mean(<<1, 4, 4>>, [axis |-> <<1, 2>>, keepdims |-> k]) : k \in BOOLEAN}
  \cup {Mean(<<4, 2, 4>>, [axis |-> <<2, 0>>]), Mean(<<1, 3>>, [axis |-> <<0>>]),
        Unsupported(Mean(<<4, 2, 4>>, [axis |-> <<2, 0>>, keepdims |-> TRUE])),
        Unsupported(Mean(<<2, 3>>, [axis |-> <<1>>])), Unsupported(Mean(<<4, 8>>, [axis |-> <<0, -1>>])),
        Unsupported(Mean(<<2, 2>>, [keepdims |-> FALSE]))}

(* One operand gives the shape.                                            *)
Like(op, attr, shape, wshape) == With1(N(9, op, attr, <<x, Var(P(1))>>), shape, wshape)
Likes ==
  {Like("broadcast_like", <<>>, <<2, 1, 3>>, <<2, 2, 3>>),
   Like("broadcast_like", [lhs_axes |-> <<1>>, rhs_axes |-> <<2>>], <<2, 1, 2>>, <<2, 2, 3>>),
   Like("broadcast_like", [lhs_axes |-> <<0, 2>>, rhs_axes |-> <<1, 0>>], <<1, 2, 1>>, <<2, 3>>),
   Like("broadcast_like", [lhs_axes |-> <<0, 1, 2>>, rhs_axes |-> <<1, 0, 1>>], <<1, 1, 1>>, <<2, 3>>),
   Like("broadcast_like", [lhs_axes |-> <<-1>>, rhs_axes |-> <<0>>], <<2, 1>>, <<3, 2, 1, 2>>),
   Like("broadcast_like", [lhs_axes |-> <<1, 2>>, rhs_axes |-> <<0, 2>>], <<2, 1, 1>>, <<3, 2, 2>>),
   Like("reshape_like", <<>>, <<2, 6>>, <<3, 4>>),
   Like("reshape_like", [lhs_begin |-> 1, lhs_end |-> 2, rhs_begin |-> 1, rhs_end |-> 3], <<2, 6, 1>>, <<5, 3, 2>>),
   Unsupported(Like("broadcast_like", <<>>, <<1>>, <<2, 2>>)),
   Unsupported(Like("broadcast_like", [lhs_axes |-> <<0, 1>>, rhs_axes |-> <<0, 0>>], <<1, 1>>, <<2, 3>>)),
   Unsupported(Like("broadcast_like", [lhs_axes |-> <<0>>, rhs_axes |-> <<0>>], <<2, 1>>, <<2, 3>>)),
   Unsupported(Like("reshape_like", [lhs_begin |-> 1, lhs_end |-> 1], <<2, 2>>, <<2, 2>>))}

(* What transposes and operators without the passes are refused.           *)
Others ==
  {Unsupported(On(N(9, "transpose", <<>>, <<x>>), <<2, 3>>)),
   Unsupported(On(N(9, "broadcast_sub", <<>>, <<x, x>>), <<2, 3>>)),
   Unsupported(On(N(9, "Concat", <<>>, <<T(1, A, x), T(2, A, x)>>), <<2, 2, 2>>))}

-----------------------------------------------------------------------------
(* Quantised models: integers, with the precision of every parameter.      *)
ToCvm == <<"ais", "prepare_for_compile", "fuse_constant", "cvm", "params">>
D == <<"data", 0>>
d == Nd(D, "null", <<>>, <<>>)
Q(k) == Typed(P(k), 8)
Quant(s, p, shape) == [M(s, p, D :> Ramp(shape)) EXCEPT !.quantized = TRUE]
Q0(s, shape) == Quant(s, <<>>, shape)
Q1(s, shape, wshape) == Quant(s, P(1) :> Ramp(wshape), shape)
Q2(s, shape, wshape, bshape) == Quant(s, P(1) :> Ramp(wshape) @@ P(2) :> Ramp(bshape), shape)
Cube == <<1, 2, 2, 2>>
Of(op, attr) == N(9, op, attr, <<d>>)
Weighted(op, attr) == N(9, op, attr, <<d, Q(1)>>)
Biased(op, attr) == N(9, op, attr, <<d, Q(1), Q(2)>>)

Unary == {Q0(Of(a[1], a[2]), Cube) : a \in
  {<<"Activation", [act_type |-> "relu"]>>, <<"relu", <<>>>>, <<"expand_dims", [axis |-> 1]>>,
   <<"repeat", [repeats |-> 2, axis |-> 1]>>, <<"UpSampling", [scale |-> 2]>>, <<"Flatten", <<>>>>,
   <<"Pooling", [kernel |-> <<2, 2>>, pad |-> <<1, 0>>, stride |-> <<2, 1>>]>>,
   <<"slice", [begin |-> <<0, 1>>, end |-> <<1, 2>>]>>,
   <<"slice", [begin |-> <<NoIndex, -1, 0, NoIndex>>, end |-> <<1, NoIndex, -1, NoIndex>>]>>,
   <<"reshape", [shape |-> <<2, -1>>]>>, <<"clip", [a_min |-> -4, a_max |-> 5]>>,
   <<"_greater_scalar", [scalar |-> 3]>>, <<"tile", [reps |-> <<2, 1, 2, 1>>]>>,
   <<"transpose", [axes |-> <<0, 2, 3, 1>>]>>, <<"sum", [axis |-> <<1, 3>>, keepdims |-> TRUE]>>,
   <<"max", [axis |-> <<1>>]>>, <<"squeeze", [axis |-> 0]>>, <<"negative", <<>>>>,
   <<"Custom", [op_type |-> "cvm_clip", precision |-> 4]>>,
   <<"Custom", [op_type |-> "cvm_right_shift", precision |-> 4, shift_bit |-> 1]>>,
   <<"Custom", [op_type |-> "cvm_right_shift", precision |-> 8, shift_bit |-> 2]>>,
   <<"Custom", [op_type |-> "cvm_left_shift", precision |-> 6, shift_bit |-> 2]>>}}
  \cup {Q0(N(9, "relu", <<>>, <<N(1, op, <<>>, <<d>>)>>), <<2, 2>>) : op \in RoundingOps \cup {"Dropout"}}
  \cup {Q0(Of("repeat", [repeats |-> 2]), <<3>>),
        Q0(Of("Pooling", [kernel |-> <<2, 2>>, stride |-> <<2, 2>>, pooling_convention |-> "full"]), <<1, 1, 3, 3>>)}

Binary ==
  {Q1(Weighted("slice_like", [axes |-> <<1>>]), <<2, 3>>, <<1, 2>>),
   Q1(Weighted("slice_like", <<>>), <<2, 3>>, <<1, 2>>),
   Q1(N(9, "Embedding", <<>>, <<d, Q(1)>>), <<2, 2>>, <<3, 2>>),
   Q1(N(9, "Custom", [op_type |-> "cvm_lut", in_dim |-> 4], <<d, Q(1)>>), <<2, 3>>, <<4, 1>>),
   Q1(Weighted("_maximum", <<>>), <<2, 2>>, <<2, 2>>),
   Q1(N(9, "Concat", [dim |-> 0], <<N(1, "relu", <<>>, <<d>>), Q(1)>>), <<2, 2>>, <<1, 2>>),
   Q1(N(9, "elemwise_sub", <<>>, <<N(1, "elemwise_add", <<>>, <<d, Q(1)>>), d>>), <<2, 2>>, <<2, 2>>)}
  \cup {Q2(Biased("Convolution", [kernel |-> <<2, 2>>, stride |-> <<s, 1>>, pad |-> <<1, 0>>, num_group |-> g]),
           <<1, 2, 2, 2>>, <<2, 2 \div g, 2, 2>>, <<2>>) : s \in {1, 2}, g \in {1, 2}}
  \cup {Q1(Weighted("Convolution", [kernel |-> <<2, 1>>, dilate |-> <<2, 1>>, no_bias |-> TRUE]), <<1, 1, 3, 2>>, <<2, 1, 2, 1>>),
         Q2(Biased("FullyConnected", [flatten |-> TRUE, num_hidden |-> 2]), <<2, 2, 2>>, <<2, 4>>, <<2>>),
         Q1(Weighted("FullyConnected", [flatten |-> FALSE, no_bias |-> TRUE, num_hidden |-> 2]), <<2, 2>>, <<2, 2>>)}

(* A parameter that is zero makes a product one, and what depends on it    *)
(* only: the values like ones of a model are folded into a parameter.      *)
Zeros(shape) == Full(shape, 0, 1)
OnesOf(y) == N(6, "broadcast_add", <<>>, <<N(5, "broadcast_mul", <<>>, <<y, Typed(P(5), 1)>>), Typed(P(6), 2)>>)
OneParams == P(5) :> Zeros(<<1>>) @@ P(6) :> Full(<<1>>, 1, 1)
Folded ==
  {Quant(N(9, "elemwise_add", <<>>, <<d, OnesOf(d)>>), OneParams, <<2, 2>>),
   Quant(N(9, "broadcast_mul", <<>>, <<d, N(1, "broadcast_mul", <<>>, <<Q(1), OnesOf(Q(1))>>)>>),
         OneParams @@ P(1) :> Ramp(<<1, 2>>), <<2, 2>>),
   Quant(N(9, "elemwise_add", <<>>, <<d, N(1, "broadcast_mul", <<>>, <<Q(1), Typed(P(2), 20)>>)>>),
         P(1) :> Ramp(<<2, 2>>) @@ P(2) :> Full(<<1>>, 200, 1), <<2, 2>>)}

(* What the compiler has no operator for, or cannot store.                 *)
Refusals ==
  {Unsupported(m) : m \in
    {Q0(Of(a[1], a[2]), Cube) : a \in
       {<<"Pooling", [kernel |-> <<2, 2>>, global_pool |-> TRUE]>>, <<"argmax", [axis |-> 1]>>,
        <<"Custom", [op_type |-> "right_shift", shift_bit |-> 2]>>, <<"mean", [axis |-> <<1>>]>>,
        <<"_mul_scalar", [scalar |-> <<3, 1>>]>>}}
    \cup {Q1(Weighted("_minimum", <<>>), <<2, 2>>, <<2, 2>>),
          Q1(Weighted("batch_dot", <<>>), <<1, 2, 2>>, <<1, 2, 2>>),
          Quant(Weighted("broadcast_add", <<>>), P(1) :> Full(<<1>>, 1, 2), <<2, 2>>),
          Quant(Weighted("broadcast_add", <<>>), P(1) :> Full(<<1>>, INT32_MAX + 1, 1), <<2, 2>>),
          Quant(N(9, "broadcast_add", <<>>, <<d, Var(P(1))>>), P(1) :> Full(<<1>>, 1, 1), <<2, 2>>),
          [M(N(9, "relu", <<>>, <<x>>), <<>>, X :> Ramp(<<2, 2>>) @@ D :> Ramp(<<1>>)) EXCEPT !.quantized = TRUE]}}

Quantized == Unary \cup Binary \cup Folded \cup Refusals

-----------------------------------------------------------------------------
(* The second generation: convolutions cut into slices of one channel or   *)
(* two, in one group or several, alone, in a chain, and of one input.      *)
ToSlices == <<"inputs", "fuse_multiple_outputs", "fuse_constant", "fuse_transpose", "rewrite_v2",
              "sym_separate_bias", "fuse_constant", "config", "slice_channel", "fuse_constant",
              "calibrate">>
Sliced(m, channels) == [m EXCEPT !.sliced = TRUE, !.cfg = channels]
Grouped(k, g, args) ==
  N(k, "Convolution", [kernel |-> <<1, 2>>, stride |-> <<1, 1>>, pad |-> <<0, 1>>, num_group |-> g, num_filter |-> 2], args)
Plane(y, shape, wshape) == With1(y, shape, wshape)
Slices ==
  {Sliced(Plane(Grouped(9, 1, <<x, Var(P(1))>>), <<1, 4, 1, 2>>, <<2, 4, 1, 2>>), <<"n", 9>> :> s) : s \in {0, 1, 2}}
  \cup {Sliced(With2(Grouped(9, 1, <<x, Var(P(1)), Var(P(2))>>), <<1, 2, 1, 2>>, <<2, 2, 1, 2>>, <<2>>), names) :
          names \in {<<"separate", 200>> :> 1, <<"n", 5>> :> 1, <<>>}}
  \cup {Sliced(Plane(Grouped(9, g, <<x, Var(P(1))>>), <<1, c, 1, 2>>, <<4, c \div g, 1, 2>>), <<"n", 9>> :> 1) :
          g \in {2, 4}, c \in {4}}
  \cup {Sliced(With2(N(7, "elemwise_add", <<>>,
                 <<Grouped(9, 1, <<N(3, "relu", <<>>, <<x>>), Var(P(1))>>),
                   Grouped(8, 2, <<N(3, "relu", <<>>, <<x>>), Var(P(2))>>)>>),
                 <<1, 2, 1, 2>>, <<2, 2, 1, 2>>, <<2, 1, 1, 2>>), <<"n", 9>> :> 1 @@ <<"n", 8>> :> 1),
        Sliced(With2(Grouped(8, 1, <<N(3, "relu", <<>>, <<Grouped(9, 1, <<x, Var(P(1))>>)>>), Var(P(2))>>),
                 <<1, 2, 1, 2>>, <<2, 2, 1, 2>>, <<2, 2, 1, 2>>), <<"n", 9>> :> 1 @@ <<"n", 8>> :> 1),
        Sliced(On(N(9, "Pooling", [kernel |-> <<1, 2>>, stride |-> <<1, 1>>, pad |-> <<0, 0>>, pool_type |-> "avg"], <<x>>),
                 <<1, 2, 1, 3>>), <<>>),
        Sliced(Dense(DenseAttr(TRUE, FALSE), <<2, 2>>, 2, TRUE), <<>>)}

(* What is not cut: other operators, uneven slices, slices of two channels *)
(* of a group, a single slice, a convolution that does not name its groups *)
(* -- and a convolution with a bias, by the name it had in the model: the  *)
(* addition of the bias goes by that name now.                             *)
NoSlices ==
  {Unsupported(m) : m \in
    {Sliced(Plane(Grouped(9, 1, <<x, Var(P(1))>>), <<1, 4, 1, 2>>, <<2, 4, 1, 2>>), names) :
       names \in {<<"n", 9>> :> 3, <<"n", 9>> :> 4, RES_NAME :> 1, X :> 1}}
    \cup {Sliced(Plane(Grouped(9, 2, <<x, Var(P(1))>>), <<1, 4, 1, 2>>, <<2, 2, 1, 2>>), <<"n", 9>> :> 2),
          Sliced(With1(N(9, "Convolution", [kernel |-> <<1, 2>>], <<x, Var(P(1))>>), <<1, 2, 1, 2>>, <<2, 2, 1, 2>>),
                 <<"n", 9>> :> 1),
          Sliced(With2(Grouped(9, 1, <<x, Var(P(1)), Var(P(2))>>), <<1, 2, 1, 2>>, <<2, 2, 1, 2>>, <<2>>), <<"n", 9>> :> 1),
          Sliced(On(N(9, "mean", [axis |-> <<1>>], <<x>>), <<2, 2>>), <<>>)}}

Sound == Slices \cup NoSlices \cup Quantized \cup Chains \cup Joins \cup Splits \cup Inputs \cup Products(2) \cup Products(5)
         \cup Layers2 \cup Means \cup Likes \cup Others

(* A transpose that two operators read.                                    *)
SharedTranspose ==
  {On(N(9, "Concat", [dim |-> 0], <<N(1, "relu", <<>>, <<T(2, A, x)>>),
                                   N(3, "_mul_scalar", [scalar |-> <<2, 1>>], <<T(2, A, x)>>)>>), <<2, 2, 2>>)}

(* A repeat without an axis, of more than a line.                          *)
FlatRepeat == {Q0(Of("repeat", [repeats |-> 2]), <<2, 2>>)}

(* A mean of two elements, whose sum is to be shifted by one bit.          *)
MeanOfTwo == {Mean(<<2, 2>>, [axis |-> <<1>>])}

(* A normalisation of a convolution that has a bias.                       *)
BiasedNorm ==
  {Normed(With2(Norm(Conv2(1, <<x, Var(P(1)), Var(P(2))>>), 1), <<1, 1, 2, 1>>, <<2, 1, 2, 1>>, <<2>>))}
=============================================================================
