----------------------------- MODULE PlanMemory -----------------------------
(***************************************************************************)
(* The PlanMemory pass (src/pass/plan_memory.cc): assign a storage id to   *)
(* every node entry, letting entries share storage when their lifetimes do *)
(* not overlap.  One step is one iteration of one of AllocMemory's loops;  *)
(* a round is one call of AllocMemory with one match_range, and the pass   *)
(* keeps the plan of the round that allocates the fewest bytes.            *)
(***************************************************************************)
EXTENDS CvmGraph, Functions

CONSTANTS
  Graphs,          (* the graphs the pass may be given                      *)
  MaxMatchRange,   (* CVM_EXEC_MATCH_RANGE                                  *)
  AutoSearch       (* CVM_AUTO_SEARCH_MATCH_RANGE                           *)

kBadStorageID == -1
NotTouched == -2   (* storage_inplace_index of an output nobody reads       *)

ASSUME GraphsAssumption == \A gr \in Graphs : WellFormed(gr)
ASSUME MatchRangeAssumption == MaxMatchRange \in Nat /\ AutoSearch \in BOOLEAN

VARIABLES
  g,             (* the graph, fixed                                        *)
  pc,            (* the loop AllocMemory is in                              *)
  nid,           (* its node                                                *)
  ipair,         (* the index of the in-place pair or the input in turn     *)
  todo,          (* outputs still to request (eids) or to sweep             *)
  taken,         (* input positions overwritten in place (taken[i])         *)
  storage,       (* storage[eid]                                            *)
  storage_inplace_index,
  storage_ref_count,
  num_data,      (* data_.size()                                            *)
  data,          (* data_[sid]: device_id, max_bytes, released_by_node      *)
  free,          (* how often sid is in the free_ multimap                  *)
  num_not_allocated,
  match_range,
  best,          (* the plan in ret.attrs: no plan yet, or one              *)
  value          (* history: the entry whose value an entry holds, another  *)
                 (* entry's only when an identity operator ran in place     *)

loop == <<pc, nid, ipair, todo, taken>>
plan == <<storage, storage_inplace_index, num_not_allocated, value>>
allocator == <<storage_ref_count, num_data, data, free>>
search == <<g, match_range, best>>
vars == <<loop, plan, allocator, search>>

-----------------------------------------------------------------------------
(* Reference counts, sizes and the free list.                              *)

(* Mutant: heads not counted.                                              *)
EntryRefCountNoHeads(e) == Cardinality({u \in NodeUses(g) : UsedEntry(g, u) = e})
EntryRefCount(e) == Cardinality(Uses(g, e))

Bytes(e) == 4 * g.size[e]

(* The key by which an output waits to be allocated: esize, then its id.   *)
RequestedBefore(a, b) ==
  LET esize(e) == IF e \in g.shapeless THEN 0 ELSE g.size[e]
  IN esize(a) > esize(b) \/ (esize(a) = esize(b) /\ a >= b)

(* Mutants: a reused storage does not grow; its device is not compared.    *)
std_max_first(a, b) == a
MatchesAnyDevice(s, n) ==
  /\ free[s] > 0
  /\ g.color[data[s].released_by_node] = g.color[n]

std_max(a, b) == IF a < b THEN b ELSE a

Matches(s, n) ==
  /\ free[s] > 0
  /\ data[s].device_id = g.device[n]
  /\ g.color[data[s].released_by_node] = g.color[n]

(* The storages Request may hand out for size bytes.  free_ is a multimap  *)
(* keyed by max_bytes: the search goes up from size to size*match_range,   *)
(* then down to size/match_range.  Equal keys keep their insertion order,  *)
(* which this set leaves open.                                             *)
BestFit(size, n) ==
  LET S == {s \in 0 .. num_data - 1 : Matches(s, n)}
      larger == {s \in S : data[s].max_bytes \in size .. size * match_range}
      smaller == {s \in S : /\ data[s].max_bytes >= size \div match_range
                            /\ data[s].max_bytes < size}
  IN IF match_range = 0 THEN {}
     ELSE IF larger # {}
     THEN {s \in larger : \A o \in larger : data[s].max_bytes <= data[o].max_bytes}
     ELSE {s \in smaller : \A o \in smaller : data[s].max_bytes >= data[o].max_bytes}

TotalAllocBytes ==
  LET sids == 0 .. num_data - 1
  IN SumFunctionOnSet([s \in sids |-> data[s].max_bytes], sids)

(* storage_ref_count[s] after one input of s is freed, and Release when it *)
(* reaches zero.                                                           *)
Release(s) ==
  /\ data' = [data EXCEPT ![s].released_by_node = nid]
  /\ free' = [free EXCEPT ![s] = @ + 1]

-----------------------------------------------------------------------------
PerEntry(gr, v) == [e \in Entries(gr) |-> v]
NoStorageEntry == [device_id |-> 0, max_bytes |-> 0, released_by_node |-> 0]

Init ==
  /\ g \in Graphs
  /\ pc = "round" /\ nid = 0 /\ ipair = 1 /\ todo = {} /\ taken = {}
  /\ storage = PerEntry(g, kBadStorageID)
  /\ storage_inplace_index = PerEntry(g, -1)
  /\ storage_ref_count = PerEntry(g, 0)
  /\ num_data = 0 /\ data = PerEntry(g, NoStorageEntry) /\ free = PerEntry(g, 0)
  /\ num_not_allocated = 0
  /\ value = [e \in Entries(g) |-> e]
  /\ match_range = IF AutoSearch THEN 1 ELSE MaxMatchRange
  /\ best = {}

(* Mutant: all rounds use one allocator.                                   *)
StartRoundSameAllocator ==
  /\ pc = "round" /\ match_range <= MaxMatchRange
  /\ pc' = "node" /\ nid' = 0 /\ ipair' = 1 /\ todo' = {} /\ taken' = {}
  /\ storage' = PerEntry(g, kBadStorageID)
  /\ storage_inplace_index' = PerEntry(g, -1)
  /\ storage_ref_count' = PerEntry(g, 0)
  /\ num_not_allocated' = 0
  /\ value' = [e \in Entries(g) |-> e]
  /\ UNCHANGED <<num_data, data, free, search>>

(* A round works on a copy of the initial storage with a new allocator.    *)
StartRound ==
  /\ pc = "round" /\ match_range <= MaxMatchRange
  /\ pc' = "node" /\ nid' = 0 /\ ipair' = 1 /\ todo' = {} /\ taken' = {}
  /\ storage' = PerEntry(g, kBadStorageID)
  /\ storage_inplace_index' = PerEntry(g, -1)
  /\ storage_ref_count' = PerEntry(g, 0)
  /\ num_data' = 0 /\ data' = PerEntry(g, NoStorageEntry) /\ free' = PerEntry(g, 0)
  /\ num_not_allocated' = 0
  /\ value' = [e \in Entries(g) |-> e]
  /\ UNCHANGED search

SkipVariable ==
  /\ pc = "node" /\ nid \in Nodes(g) \cap g.variables
  /\ nid' = nid + 1
  /\ UNCHANGED <<pc, ipair, todo, taken, plan, allocator, search>>

(* Mutant: reads of the output are not counted.                            *)
CanRunInplaceUnread(pair) ==
  LET in == g.inputs[nid][pair.in]
  IN /\ pair.in \notin taken
     /\ storage[pair.out] = kBadStorageID /\ storage[in] >= 0
     /\ storage_ref_count[storage[in]] = 1 \/ pair.identity
     /\ g.size[pair.out] = g.size[in]

(* Whether the output of a pair may take over the storage of its input.    *)
CanRunInplace(pair) ==
  LET in == g.inputs[nid][pair.in]
      sid_in == storage[in]
      same_size == g.size[pair.out] = g.size[in]
      ignore_all_inputs == g.ignored[nid] = InputPositions(g, nid)
  IN /\ pair.in \notin taken
     /\ storage[pair.out] = kBadStorageID
     /\ sid_in >= 0
     /\ \/ storage_ref_count[sid_in] = 1 /\ ~ignore_all_inputs
        \/ pair.identity
     /\ EntryRefCount(pair.out) > 0
     /\ same_size

AtPair == pc = "node" /\ nid \in Nodes(g) \ g.variables /\ ipair \in DOMAIN g.inplace[nid]

ShareInplace ==
  /\ AtPair
  /\ LET pair == g.inplace[nid][ipair]
         in == g.inputs[nid][pair.in]
         out == pair.out
     IN /\ CanRunInplace(pair)
        /\ taken' = taken \cup {pair.in}
        /\ storage' = [storage EXCEPT ![out] = storage[in]]
        /\ storage_ref_count' =
             [storage_ref_count EXCEPT ![storage[in]] = @ + EntryRefCount(out)]
        /\ storage_inplace_index' = [storage_inplace_index EXCEPT ![out] = pair.in]
        /\ value' = IF pair.identity THEN [value EXCEPT ![out] = value[in]] ELSE value
  /\ ipair' = ipair + 1
  /\ UNCHANGED <<pc, nid, todo, num_not_allocated, num_data, data, free, search>>

SkipPair ==
  /\ AtPair
  /\ ~CanRunInplace(g.inplace[nid][ipair])
  /\ ipair' = ipair + 1
  /\ UNCHANGED <<pc, nid, todo, taken, plan, allocator, search>>

(* The outputs without a storage are sorted into eids, which is walked     *)
(* from its largest key down.                                              *)
SortOutputs ==
  /\ pc = "node" /\ nid \in Nodes(g) \ g.variables
  /\ ipair \notin DOMAIN g.inplace[nid]
  /\ pc' = "request"
  /\ todo' = {e \in OutputsOf(g, nid) : storage[e] = kBadStorageID}
  /\ UNCHANGED <<nid, ipair, taken, plan, allocator, search>>

NextRequest(e) ==
  /\ pc = "request"
  /\ e \in todo /\ \A o \in todo : RequestedBefore(e, o)
  /\ todo' = todo \ {e}
  /\ UNCHANGED <<pc, nid, ipair, taken, storage_inplace_index, num_not_allocated, value, search>>

(* ndim() = 0: kBadStorageID.                                              *)
RequestShapeless(e) ==
  /\ NextRequest(e)
  /\ e \in g.shapeless
  /\ UNCHANGED <<storage, allocator>>

(* Mutant: a reused storage is not erased from the free list.              *)
RequestReuseKeepsFree(e, s) ==
  /\ NextRequest(e)
  /\ e \notin g.shapeless
  /\ s \in BestFit(Bytes(e), nid)
  /\ data' = [data EXCEPT ![s].max_bytes = std_max(@, Bytes(e))]
  /\ storage_ref_count' = [storage_ref_count EXCEPT ![s] = EntryRefCount(e)]
  /\ storage' = [storage EXCEPT ![e] = s]
  /\ UNCHANGED <<free, num_data>>

RequestReuse(e, s) ==
  /\ NextRequest(e)
  /\ e \notin g.shapeless
  /\ s \in BestFit(Bytes(e), nid)
  /\ data' = [data EXCEPT ![s].max_bytes = std_max(@, Bytes(e))]
  /\ free' = [free EXCEPT ![s] = @ - 1]
  /\ storage_ref_count' = [storage_ref_count EXCEPT ![s] = EntryRefCount(e)]
  /\ storage' = [storage EXCEPT ![e] = s]
  /\ UNCHANGED num_data

RequestAlloc(e) ==
  /\ NextRequest(e)
  /\ e \notin g.shapeless
  /\ BestFit(Bytes(e), nid) = {}
  /\ data' = [data EXCEPT ![num_data].device_id = g.device[nid],
                          ![num_data].max_bytes = Bytes(e)]
  /\ num_data' = num_data + 1
  /\ storage_ref_count' = [storage_ref_count EXCEPT ![num_data] = EntryRefCount(e)]
  /\ storage' = [storage EXCEPT ![e] = num_data]
  /\ UNCHANGED free

StartFreeing ==
  /\ pc = "request" /\ todo = {}
  /\ pc' = "free"
  /\ ipair' = 1
  /\ UNCHANGED <<nid, todo, taken, plan, allocator, search>>

(* Mutant: a read in place is not counted down.                            *)
HasCountNotTaken(i) ==
  i \notin g.ignored[nid] \cup taken /\ storage[g.inputs[nid][i]] >= 0
(* An ignored input, or one without a storage, is left alone.              *)
HasCount(i) == i \notin g.ignored[nid] /\ storage[g.inputs[nid][i]] >= 0

FreeInput ==
  /\ pc = "free" /\ ipair \in InputPositions(g, nid)
  /\ IF HasCount(ipair)
     THEN LET s == storage[g.inputs[nid][ipair]] IN
          /\ storage_ref_count' = [storage_ref_count EXCEPT ![s] = @ - 1]
          /\ IF storage_ref_count[s] = 1 THEN Release(s) ELSE UNCHANGED <<data, free>>
     ELSE UNCHANGED <<storage_ref_count, data, free>>
  /\ ipair' = ipair + 1
  /\ UNCHANGED <<pc, nid, todo, taken, plan, num_data, search>>

StartSweep ==
  /\ pc = "free" /\ ipair \notin InputPositions(g, nid)
  /\ pc' = "sweep"
  /\ todo' = OutputsOf(g, nid)
  /\ UNCHANGED <<nid, ipair, taken, plan, allocator, search>>

(* Mutant: an output without a storage that nobody reads is not counted.   *)
SweepOutputUsedOnly(e) ==
  /\ pc = "sweep"
  /\ e \in todo /\ \A o \in todo : e <= o
  /\ todo' = todo \ {e}
  /\ IF storage[e] >= 0 /\ storage_ref_count[storage[e]] = 0
     THEN /\ Release(storage[e])
          /\ storage_inplace_index' = [storage_inplace_index EXCEPT ![e] = NotTouched]
     ELSE UNCHANGED <<data, free, storage_inplace_index>>
  /\ num_not_allocated' =
       num_not_allocated + IF storage[e] = kBadStorageID /\ Uses(g, e) # {} THEN 1 ELSE 0
  /\ UNCHANGED <<pc, nid, ipair, taken, storage, value, storage_ref_count, num_data, search>>

(* An output that nobody reads is released at once.                        *)
SweepOutput(e) ==
  /\ pc = "sweep"
  /\ e \in todo /\ \A o \in todo : e <= o
  /\ todo' = todo \ {e}
  /\ IF storage[e] >= 0 /\ storage_ref_count[storage[e]] = 0
     THEN /\ Release(storage[e])
          /\ storage_inplace_index' = [storage_inplace_index EXCEPT ![e] = NotTouched]
     ELSE UNCHANGED <<data, free, storage_inplace_index>>
  /\ num_not_allocated' = num_not_allocated + IF storage[e] = kBadStorageID THEN 1 ELSE 0
  /\ UNCHANGED <<pc, nid, ipair, taken, storage, value, storage_ref_count, num_data, search>>

NextNode ==
  /\ pc = "sweep" /\ todo = {}
  /\ pc' = "node"
  /\ nid' = nid + 1
  /\ ipair' = 1
  /\ taken' = {}
  /\ UNCHANGED <<todo, plan, allocator, search>>

-----------------------------------------------------------------------------
(* The end of a round: PlanMemory keeps the plan if it is the smallest so  *)
(* far, doubles match_range and, unless that is off or exceeds its         *)
(* maximum, starts another round.                                          *)

ThisPlan ==
  [storage_id |-> storage, inplace_index |-> storage_inplace_index,
   allocated_bytes |-> TotalAllocBytes, not_allocated |-> num_not_allocated,
   value |-> value]

(* Mutant: match_range is not doubled.                                     *)
EndRoundSameRange ==
  /\ pc = "node" /\ nid = g.num_nodes
  /\ best' = IF \A p \in best : p.allocated_bytes > TotalAllocBytes THEN {ThisPlan} ELSE best
  /\ pc' = IF MaxMatchRange = 0 THEN "done" ELSE "round"
  /\ UNCHANGED <<g, match_range, nid, ipair, todo, taken, plan, allocator>>

EndRound ==
  /\ pc = "node" /\ nid = g.num_nodes
  /\ best' = IF \A p \in best : p.allocated_bytes > TotalAllocBytes THEN {ThisPlan} ELSE best
  /\ match_range' = match_range * 2
  /\ pc' = IF MaxMatchRange = 0 THEN "done" ELSE "round"
  /\ UNCHANGED <<g, nid, ipair, todo, taken, plan, allocator>>

Return ==
  /\ pc = "round" /\ match_range > MaxMatchRange
  /\ pc' = "done"
  /\ UNCHANGED <<nid, ipair, todo, taken, plan, allocator, search>>

Done == pc = "done" /\ UNCHANGED vars

Next ==
  \/ StartRound \/ SkipVariable \/ ShareInplace \/ SkipPair \/ SortOutputs
  \/ \E e \in todo : RequestShapeless(e)
  \/ \E e \in todo, s \in 0 .. num_data - 1 : RequestReuse(e, s)
  \/ \E e \in todo : RequestAlloc(e)
  \/ StartFreeing \/ FreeInput \/ StartSweep
  \/ \E e \in todo : SweepOutput(e)
  \/ NextNode \/ EndRound \/ Return \/ Done

Spec == Init /\ [][Next]_vars
FairSpec == Spec /\ WF_vars(Next)

-----------------------------------------------------------------------------
(* Properties.                                                             *)

(* The planner's variables keep their types: in particular a storage id    *)
(* never outgrows storage_ref_count, which has one slot per node entry.    *)
TypeOK ==
  /\ pc \in {"round", "node", "request", "free", "sweep", "done"}
  /\ nid \in 0 .. g.num_nodes
  /\ ipair \in Nat \ {0}
  /\ todo \subseteq Entries(g)
  /\ taken \subseteq Nat
  /\ num_data \in 0 .. g.num_entries
  /\ storage \in [Entries(g) -> {kBadStorageID} \cup 0 .. num_data - 1]
  /\ storage_inplace_index \in [Entries(g) -> {NotTouched, -1} \cup (Nat \ {0})]
  /\ storage_ref_count \in [Entries(g) -> Nat]
  /\ data \in [Entries(g) -> [device_id : Nat, max_bytes : Nat, released_by_node : Nodes(g)]]
  /\ free \in [Entries(g) -> Nat]
  /\ num_not_allocated \in Nat
  /\ match_range \in Nat
  /\ value \in [Entries(g) -> Entries(g)]

(* The uses on a storage that the pass has not freed yet.                  *)
Freed(u) == u[1] < nid \/ (u[1] = nid /\ (pc = "sweep" \/ (pc = "free" /\ u[2] < ipair)))
Waiting(s) == {u \in AllUses(g) : storage[UsedEntry(g, u)] = s /\ ~Freed(u)}

Storages == 0 .. num_data - 1

(* storage_ref_count is exactly the number of reads still to come of all   *)
(* the entries that share a storage, through in-place sharing, repeated    *)
(* arguments, heads and reuse by a later entry (plan_memory.cc:190-294).   *)
RefCountsWaitingUses ==
  \A s \in Storages : storage_ref_count[s] = Cardinality(Waiting(s))

(* Whatever Request can hand out next is dead: no storage is in the free   *)
(* list twice, and none while something placed there is still to be read.  *)
FreeIsUnused ==
  \A s \in Storages : free[s] <= 1 /\ (free[s] = 1 => Waiting(s) = {})

(* The plan, at every step of its making, lets no node overwrite an entry  *)
(* that a later node or the caller reads, nor one of its own arguments     *)
(* except through a declared in-place pair.                                *)
PlanIsSafe == SafeStorage(g, storage, value)

(* The same of the plan that the pass publishes after trying several match *)
(* ranges on copies of storage.                                            *)
PublishedPlanIsSafe == \A p \in best : SafeStorage(g, p.storage_id, p.value)

(* Every entry fits the storage it is on, and is on its node's device.     *)
StorageFits ==
  \A e \in Entries(g) :
     storage[e] # kBadStorageID =>
       /\ data[storage[e]].max_bytes >= Bytes(e)
       /\ data[storage[e]].device_id = g.device[g.source[e]]

(* At the end of a round every storage is back in the free list, once,     *)
(* unless it holds a head of the graph.                                    *)
NothingLeaks ==
  pc = "node" /\ nid = g.num_nodes =>
    \A s \in Storages :
      free[s] = IF \E j \in DOMAIN g.outputs : storage[g.outputs[j]] = s THEN 0 ELSE 1

(* num_not_allocated, which DecorateMemoryPlan requires to be zero, counts *)
(* the operator outputs that a finished round left without a storage.      *)
NotAllocatedIsExact ==
  pc = "node" /\ nid = g.num_nodes =>
    num_not_allocated =
      Cardinality({e \in Entries(g) : g.source[e] \notin g.variables /\ storage[e] = kBadStorageID})

(* Sharing never costs memory: growing a reused storage included, a plan   *)
(* allocates at most what one storage per entry would.                     *)
NeverWorseThanUnshared ==
  TotalAllocBytes <= 4 * SumFunctionOnSet(g.size, {e \in Entries(g) : storage[e] # kBadStorageID})

-----------------------------------------------------------------------------
(* The inductive invariant behind the safety properties.                   *)

(* A node is in turn while its outputs are requested and swept.            *)
InTurn ==
  /\ pc \in {"request", "free", "sweep"} => nid \in Nodes(g) \ g.variables
  /\ pc = "request" =>
       todo \subseteq {e \in OutputsOf(g, nid) : storage[e] = kBadStorageID}
  /\ pc = "sweep" => todo \subseteq OutputsOf(g, nid)

Placed == {e \in Entries(g) : storage[e] >= 0}
PlacedInOrder == \A e \in Placed : g.source[e] <= nid

(* There are at most as many storages as placed entries, and only they are *)
(* ever in the free list.                                                  *)
StoragesPlaced ==
  /\ num_data <= Cardinality(Placed)
  /\ \A s \in Entries(g) \ Storages : free[s] = 0

(* The storage of an output of the node in turn is not in the free list    *)
(* until the output has been swept; if nobody reads the output, it has its *)
(* storage for itself.                                                     *)
OutputsHeld ==
  pc \in {"node", "request", "free", "sweep"} =>
    \A e \in OutputsOf(g, nid) \cap Placed :
      (pc = "sweep" => e \in todo) =>
        /\ free[storage[e]] = 0
        /\ pc = "node" => Uses(g, e) # {}
        /\ Uses(g, e) = {} =>
             /\ Waiting(storage[e]) = {}
             /\ \A o \in OutputsOf(g, nid) : storage[o] = storage[e] => o = e

(* Reads still to come of one storage expect the same value, unless one is *)
(* an argument that the node in turn overwrites and the other comes later. *)
Overwritten(u, later) == u[1] = nid /\ u[2] \in taken /\ later[1] > nid

ReadsAgree ==
  \A s \in Storages : \A u, w \in Waiting(s) :
    \/ value[UsedEntry(g, u)] = value[UsedEntry(g, w)]
    \/ Overwritten(u, w) \/ Overwritten(w, u)

PlannerInv ==
  /\ TypeOK /\ InTurn /\ PlacedInOrder /\ StoragesPlaced
  /\ RefCountsWaitingUses /\ FreeIsUnused
  /\ OutputsHeld /\ ReadsAgree
  /\ PlanIsSafe /\ PublishedPlanIsSafe

(* The accounts behind the other four: a storage that is counted down to  *)
(* zero is in the free list, unless an output of the node in turn has it   *)
(* and is still to be swept ...                                            *)
UnusedIsFree ==
  \A s \in Storages :
    free[s] = 0 /\ storage_ref_count[s] = 0 =>
      \E o \in OutputsOf(g, nid) :
        storage[o] = s /\ (pc \in {"request", "free"} \/ (pc = "sweep" /\ o \in todo))

(* ... and num_not_allocated counts what was swept without a storage.      *)
Swept(e) == g.source[e] < nid \/ (g.source[e] = nid /\ pc = "sweep" /\ e \notin todo)

Unallocated ==
  {e \in Entries(g) : g.source[e] \notin g.variables /\ storage[e] = kBadStorageID /\ Swept(e)}

UnallocatedCounted == num_not_allocated = Cardinality(Unallocated)

(* Only operators' outputs are placed, and a storage is no larger than the *)
(* largest of them: it was allocated, or has grown, for one that is on it. *)
VariablesUnplaced == \A e \in Placed : g.source[e] \notin g.variables

NoSpareBytes ==
  \A s \in Storages : \E e \in Placed : storage[e] = s /\ data[s].max_bytes = Bytes(e)

AccountInv ==
  /\ StorageFits /\ UnusedIsFree /\ UnallocatedCounted
  /\ VariablesUnplaced /\ NoSpareBytes /\ NeverWorseThanUnshared
=============================================================================
