----------------------------- MODULE MrtSlices ------------------------------
(***************************************************************************)
(* The passes that the second generation of the tool adds (V2): a bias     *)
(* becomes an addition of its own, and a convolution that is configured    *)
(* channel-wise is cut into convolutions of a few channels each, so that   *)
(* every slice can be calibrated and scaled alone.                         *)
(*                                                                         *)
(* A configuration maps names of nodes to the channels of a slice, 0 for   *)
(* a node that is kept whole.  Quantizer and optimizor of a node are those *)
(* of its configuration; they are not told apart here.                     *)
(***************************************************************************)
EXTENDS MrtTransformers

RES_NAME == <<"_RES_", 0>>   \* the configuration of every node without one
LAYER_WISE_TYPE == 0

(* Operators whose V2 transformer registers the pass.                      *)
RewritesV2 ==
  {"null", "Activation", "BatchNorm", "Concat", "Convolution", "Dropout", "Embedding", "Flatten",
   "FullyConnected", "LeakyReLU", "Pooling", "reshape", "SwapAxis", "_div_scalar", "_mul_scalar",
   "_plus_scalar", "_greater_scalar", "broadcast_add", "broadcast_mul", "broadcast_sub", "clip",
   "elemwise_add", "elemwise_sub", "expand_dims", "max", "negative", "ones_like", "relu", "repeat",
   "slice", "slice_axis", "slice_like", "squeeze", "sum", "tile", "transpose", "zeros_like"}
QuantizesV2 ==
  {"null", "Activation", "Concat", "Convolution", "Dropout", "Embedding", "Flatten",
   "FullyConnected", "Pooling", "reshape", "add_n", "broadcast_add", "broadcast_mul",
   "broadcast_sub", "clip", "elemwise_add", "elemwise_sub", "expand_dims", "max", "negative",
   "relu", "repeat", "slice", "slice_like", "squeeze", "sum", "tile", "transpose"}

rewrite_v2(x, c) == IF x.op \in RewritesV2 THEN rewrite(x, c) ELSE Refused(x, c)

-----------------------------------------------------------------------------
(* The operator keeps its name as the addition; what it was is renamed.    *)
Expanded(y, axis, name) == Nd(name, "expand_dims", [axis |-> axis], <<y>>)

sym_separate_bias(x, c) ==
  LET plain == [x EXCEPT !.name = NameN("separate", c, 0), !.args = SubSeq(x.args, 1, 2),
                         !.attr = [no_bias |-> TRUE] @@ @]
      row == Expanded(x.args[3], 0, NameN("bias", c, 0))
      column == Expanded(row, -1, NameN("bias", c, 1))
      B == IF x.op = "Convolution" THEN Expanded(column, -1, NameN("bias", c, 2)) ELSE row
  IN  IF Len(x.args) < 3 \/ x.op \notin {"Convolution", "FullyConnected"} THEN Result(x, c)
      ELSE IF x.op = "Convolution" /\ get_attr(x, "layout", "NCHW") # "NCHW" THEN Refused(x, c)
      ELSE Result(Nd(x.name, "broadcast_add", <<>>, <<plain, B>>), c)

-----------------------------------------------------------------------------
(* sym_config_infos: what the configuration says of names the graph does   *)
(* not have is dropped; a node it does not name has the residual one.      *)
sym_config_infos(names, cfg) ==
  LET rest == IF RES_NAME \in DOMAIN cfg THEN cfg[RES_NAME] ELSE LAYER_WISE_TYPE
  IN  [n \in names |-> IF n \in DOMAIN cfg THEN cfg[n] ELSE rest]

Configured(c, names) == [c EXCEPT !.cfg = [n \in names |-> LAYER_WISE_TYPE] @@ @]

(* Channels k * step up to (k + 1) * step of y.                            *)
sym_slice(y, step, kind, k, c) ==
  Nd(NameN(kind, c, k), "slice",
     [begin |-> <<NoIndex, k * step, NoIndex, NoIndex>>,
      end |-> <<NoIndex, (k + 1) * step, NoIndex, NoIndex>>], <<y>>)

(* Filter o of the kernel, and of that channel i.                          *)
kernel_slice_2d(W, o, i, per, c) ==
  LET row == Nd(NameN("row", c, o), "slice",
                [begin |-> <<o, NoIndex, NoIndex, NoIndex>>, end |-> <<o + 1, NoIndex, NoIndex, NoIndex>>], <<W>>)
  IN  Nd(NameN("kernel", c, o * per + i), "slice",
         [begin |-> <<NoIndex, i, NoIndex, NoIndex>>, end |-> <<NoIndex, i + 1, NoIndex, NoIndex>>], <<row>>)

(* The names of the parts; as a mutant, all that is configured.            *)
PartNames(parts, filter) == UNION {{p.name, p.args[1].name, p.args[2].name} : p \in parts}

(* The names that enter the configuration for one filter.                  *)
NamesOfFilter(parts, filter) == {filter.name} \cup PartNames(parts, filter)

(* One group: the slices of the channels are convolved with those of the   *)
(* kernel, and added up.                                                   *)
SlicedAlone(x, step, c) ==
  LET count == ShapeOf(x.args[1], c)[2] \div step
      part(k) == [x EXCEPT !.name = NameN("part", c, k),
                           !.args = <<sym_slice(x.args[1], step, "channels", k, c),
                                      sym_slice(x.args[2], step, "kernels", k, c)>>]
      parts == [k \in 1 .. count |-> part(k - 1)]
      made == PartNames({parts[k] : k \in DOMAIN parts}, x)
  IN  IF count < 2 THEN Refused(x, c)
      ELSE Result(Nd(x.name, "add_n", <<>>, parts), Configured(c, made))

(* Several groups: every filter reads the channels of its own group.       *)
ChannelOf(o, i, OPG, IC) == (o \div OPG) * IC + i

SlicedGroups(x, c) ==
  LET groups == x.attr.num_group
      shape == ShapeOf(x.args[2], c)
      part(o, i) ==
        [x EXCEPT !.name = NameN("part", c, o * shape[2] + i),
                  !.attr = [num_group |-> 1, num_filter |-> 1] @@ @,
                  !.args = <<sym_slice(x.args[1], 1, "channels", ChannelOf(o, i, shape[1] \div groups, shape[2]), c),
                             kernel_slice_2d(x.args[2], o, i, shape[2], c)>>]
      filter(o) == IF shape[2] = 1 THEN part(o, 0)
                   ELSE Nd(NameN("filter", c, o), "add_n", <<>>, [i \in 1 .. shape[2] |-> part(o, i - 1)])
      made == UNION {NamesOfFilter({part(o, i) : i \in 0 .. shape[2] - 1}, filter(o)) : o \in 0 .. shape[1] - 1}
  IN  Result(Nd(x.name, "Concat", [dim |-> 1], [o \in 1 .. shape[1] |-> filter(o - 1)]), Configured(c, made))

(* slice_channel: only a convolution without bias over two dimensions can  *)
(* be cut; what it is cut from and into is layer-wise from then on.        *)
slice_channel(x, c) ==
  LET step == c.cfg[x.name]
      xshp == ShapeOf(x.args[1], c)
      wshp == ShapeOf(x.args[2], c)
      C == Configured(c, {x.args[1].name, x.args[2].name})
  IN  IF step = LAYER_WISE_TYPE THEN Result(x, c)
      ELSE IF x.op # "Convolution" \/ "num_group" \notin DOMAIN x.attr THEN Refused(x, c)
      ELSE IF Len(x.args) # 2 \/ Len(xshp) # 4 \/ xshp[2] % step # 0 THEN Refused(x, c)
      ELSE IF x.attr.num_group * wshp[2] # xshp[2] \/ wshp[1] % x.attr.num_group # 0 THEN Refused(x, c)
      ELSE IF x.attr.num_group = 1 THEN SlicedAlone(x, step, C)
      ELSE IF step # 1 THEN Refused(x, c)
      ELSE SlicedGroups(x, C)
=============================================================================
