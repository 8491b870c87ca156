---------------------------- MODULE MCPlanMemory ----------------------------
(***************************************************************************)
(* Small graphs for the memory planner: one variable, node 0, followed by  *)
(* up to four operators.                                                   *)
(***************************************************************************)
EXTENDS PlanMemory, SequencesExt

(* What an operator lets run in place: nothing (conv2d, dense, ...), the   *)
(* elementwise operators' pairs, or an in-place identity.                  *)
InplaceOf(kind, inputs, out) ==
  CASE kind = "opaque" -> <<>>
    [] kind = "elemwise" ->
         [i \in DOMAIN inputs |-> [in |-> i, out |-> out, identity |-> FALSE]]
    [] kind = "identity" -> <<[in |-> 1, out |-> out, identity |-> TRUE]>>

(* One or two earlier entries, the same one twice included.                *)
Arguments(n) ==
  {<<a>> : a \in 0 .. n - 1} \cup
  {p \in (0 .. n - 1) \X (0 .. n - 1) : p[1] >= p[2]}

(* Heads: every entry that no node reads, and extra if some node reads it. *)
Heads(last, inputs, extra) ==
  LET read == UNION {ToSet(inputs[n]) : n \in 1 .. last}
  IN SelectSeq([n \in 1 .. last |-> n], LAMBDA n : n \notin read \/ n = extra)

(* Graphs of single-output operators 1 .. Len(kinds).                      *)
Graph(inputs, kinds, sizes, heads) ==
  LET last == Len(kinds)
      args == [n \in 0 .. last |-> IF n = 0 THEN <<>> ELSE inputs[n]]
  IN [num_nodes |-> last + 1, num_entries |-> last + 1,
      source |-> [e \in 0 .. last |-> e], variables |-> {0},
      inputs |-> args, outputs |-> heads,
      ignored |-> [n \in 0 .. last |-> {}],
      inplace |-> [n \in 0 .. last |-> IF n = 0 THEN <<>> ELSE InplaceOf(kinds[n], args[n], n)],
      size |-> [e \in 0 .. last |-> IF e = 0 THEN 1 ELSE sizes[e]],
      shapeless |-> {}, device |-> [n \in 0 .. last |-> 0],
      color |-> [n \in 0 .. last |-> 0]]

(* Every lifetime pattern of four operators of equal size. The first one   *)
(* only reads the variable, which it may not run in place over.            *)
Kinds == {"opaque", "elemwise"}
Lifetimes == {"lifetime"} \X Arguments(2) \X Arguments(3) \X Arguments(4)
                          \X Kinds \X Kinds \X Kinds \X {1, 2, 4}
LifetimeGraph(c) ==
  LET inputs == <<<<0>>, c[2], c[3], c[4]>>
  IN Graph(inputs, <<"elemwise", c[5], c[6], c[7]>>, <<1, 1, 1, 1>>, Heads(4, inputs, c[8]))

(* Four operators whose sizes straddle the match range.                    *)
SizePatterns == {"size"} \X {<<1>>, <<1, 0>>} \X {<<2>>, <<2, 1>>} \X {<<3>>, <<2>>, <<3, 1>>}
                         \X Kinds \X [1 .. 4 -> {1, 2, 8}] \X {1, 4}
SizeGraph(c) ==
  LET inputs == <<<<0>>, c[2], c[3], c[4]>>
  IN Graph(inputs, <<"opaque", c[5], "opaque", c[5]>>, c[6], Heads(4, inputs, c[7]))

(* The attributes the other families leave out: an operator with two       *)
(* outputs, one perhaps never read; in-place identities, also of an entry  *)
(* with other readers; an ignored argument; entries without a shape; two   *)
(* devices; two colors.                                                    *)
Features == {"feature"} \X (Kinds \cup {"identity"}) \X (Kinds \cup {"identity"})
                        \X {<<1>>, <<3>>, <<3, 1>>, <<3, 3>>} \X {<<3>>, <<4, 2>>, <<1, 3>>}
                        \X {<<5, 4, 3>>, <<5, 4>>, <<4, 5, 5>>}
                        \X {{}, {1}, {2}} \X {{}, {2}, {3}} \X {0, 1} \X {0, 1}
FeatureGraph(c) ==
  [num_nodes |-> 5, num_entries |-> 6,
   source |-> [e \in 0 .. 5 |-> IF e = 0 THEN 0 ELSE IF e <= 2 THEN 1 ELSE e - 1],
   variables |-> {0},
   inputs |-> [n \in 0 .. 4 |-> <<<<>>, <<0>>, <<1>>, c[4], c[5]>>[n + 1]],
   outputs |-> c[6],
   ignored |-> [n \in 0 .. 4 |-> IF n = 4 THEN c[7] ELSE {}],
   inplace |-> [n \in 0 .. 4 |-> CASE n = 2 -> InplaceOf(c[2], <<1>>, 3)
                                   [] n = 3 -> InplaceOf(c[3], c[4], 4)
                                   [] OTHER -> <<>>],
   size |-> [e \in 0 .. 5 |-> IF e = 2 THEN 2 ELSE 1],
   shapeless |-> c[8],
   device |-> [n \in 0 .. 4 |-> IF n = 4 THEN c[9] ELSE 0],
   color |-> [n \in 0 .. 4 |-> IF n = 3 THEN c[10] ELSE 0]]

SmallGraphs ==
  {CASE c[1] = "lifetime" -> LifetimeGraph(c)
     [] c[1] = "size" -> SizeGraph(c)
     [] c[1] = "feature" -> FeatureGraph(c) : c \in Lifetimes \cup SizePatterns \cup Features}
=============================================================================
