------------------------------ MODULE CvmGraph ------------------------------
(***************************************************************************)
(* The indexed dataflow graph that every pass and the executor work on     *)
(* (include/cvm/graph.h, IndexedGraph), with the attributes that memory    *)
(* planning reads.  A graph is a record g:                                 *)
(*                                                                         *)
(*   num_nodes    nodes are 0 .. num_nodes-1, in DFS post order            *)
(*   num_entries  node entries (node outputs) are 0 .. num_entries-1       *)
(*   source       the node that produces an entry (entry_rptr_ inverted)   *)
(*   variables    the nodes without an operator (is_variable)              *)
(*   inputs       per node, the entry ids it reads, in argument order      *)
(*   outputs      the entry ids of the graph's heads                       *)
(*   ignored      per node, the input positions FIgnoreInputs names        *)
(*   inplace      per node, FInplaceOption zipped with FInplaceIdentity:   *)
(*                a sequence of [in, out, identity], out an entry id       *)
(*   size         per entry, shape.Size(): its number of elements          *)
(*   shapeless    the entries whose shape has ndim() = 0                   *)
(*   device       per node, the device id                                  *)
(*   color        per node, the color ColorNodeGroup gave it               *)
(***************************************************************************)
EXTENDS Integers, Sequences, FiniteSets

Nodes(gr) == 0 .. gr.num_nodes - 1
Entries(gr) == 0 .. gr.num_entries - 1

(* The entries a node produces: entry_id(nid, 0 .. num_outputs()-1).       *)
OutputsOf(gr, n) == {e \in Entries(gr) : gr.source[e] = n}

InputPositions(gr, n) == 1 .. Len(gr.inputs[n])

(***************************************************************************)
(* A use of an entry is <<n, i>>: node n reads it as its i-th argument and *)
(* does not ignore it, or n = num_nodes and it is the i-th head.           *)
(***************************************************************************)
NodeUses(gr) ==
  UNION {{n} \X (InputPositions(gr, n) \ gr.ignored[n]) : n \in Nodes(gr)}

HeadUses(gr) == {gr.num_nodes} \X (1 .. Len(gr.outputs))

UsedEntry(gr, u) ==
  IF u[1] = gr.num_nodes THEN gr.outputs[u[2]] ELSE gr.inputs[u[1]][u[2]]

AllUses(gr) == NodeUses(gr) \cup HeadUses(gr)

Uses(gr, e) == {u \in AllUses(gr) : UsedEntry(gr, u) = e}

(***************************************************************************)
(* A storage plan sid, run in node order, is safe when no output o is      *)
(* written over an entry e whose value is read afterwards; the node that   *)
(* writes o may itself read e only as the argument of a declared in-place  *)
(* pair.  Entries with the same val hold the same value anyway.            *)
(***************************************************************************)
SafeStorage(gr, sid, val) ==
  \A o, e \in Entries(gr) :
    /\ o # e /\ sid[o] >= 0 /\ sid[e] = sid[o]
    /\ gr.source[e] <= gr.source[o]
    => \A u \in Uses(gr, e) :
         \/ u[1] < gr.source[o]
         \/ val[e] = val[o]
         \/ /\ u[1] = gr.source[o]
            /\ \E p \in DOMAIN gr.inplace[u[1]] :
                 gr.inplace[u[1]][p].in = u[2] /\ gr.inplace[u[1]][p].out = o


(* What the attributes of a graph range over.                              *)
GraphTypes(gr) ==
  /\ gr.num_nodes \in Nat
  /\ gr.num_entries \in Nat
  /\ gr.source \in [Entries(gr) -> Nodes(gr)]
  /\ gr.inputs \in [Nodes(gr) -> Seq(Entries(gr))]
  /\ gr.outputs \in Seq(Entries(gr))
  /\ gr.size \in [Entries(gr) -> Nat]
  /\ gr.device \in [Nodes(gr) -> Nat]

(* IndexedGraph's constructor numbers nodes in DFS post order.             *)
PostOrder(gr) ==
  \A n \in Nodes(gr) :
    /\ \A i \in InputPositions(gr, n) : gr.source[gr.inputs[n][i]] < n
    /\ n \in gr.variables => gr.inputs[n] = <<>>

(* FInplaceOption names inputs and outputs of its node.  Nothing in the    *)
(* code rules out an ignored input or one of another device: no operator   *)
(* registers FIgnoreInputs, and PlaceDevice copies across devices.         *)
InplaceOptions(gr) ==
  \A n \in Nodes(gr) : \A p \in DOMAIN gr.inplace[n] :
    /\ gr.inplace[n][p].in \in InputPositions(gr, n) \ gr.ignored[n]
    /\ gr.inplace[n][p].out \in OutputsOf(gr, n)
    /\ gr.inplace[n][p].identity \in BOOLEAN
    /\ gr.device[gr.source[gr.inputs[n][gr.inplace[n][p].in]]] = gr.device[n]

WellFormed(gr) == GraphTypes(gr) /\ PostOrder(gr) /\ InplaceOptions(gr)
=============================================================================
