------------------------- MODULE GraphCompileProofs -------------------------
(***************************************************************************)
(* Proofs about the memory planner, for every graph, match range and       *)
(* search mode; and that every plan GraphCompile emits runs, and that the  *)
(* runtime allocates for it what was planned, whatever the graph: that     *)
(* proof puts DecorateMemoryPlan on top of the planner's own invariants.   *)
(***************************************************************************)
EXTENDS GraphCompile, MemoryPlanProofs

-----------------------------------------------------------------------------
(* The inductive invariant holds initially and when a round starts.        *)

Inv == g \in Graphs /\ PlannerInv

(* The graph's attributes, as every step uses them.                        *)
LEMMA GraphFacts ==
  ASSUME g \in Graphs
  PROVE  /\ WellFormed(g)
         /\ g.num_nodes \in Nat /\ g.num_entries \in Nat
         /\ \A e \in Entries(g) : g.source[e] \in Nodes(g) /\ g.size[e] \in Nat
         /\ \A n \in Nodes(g) : /\ g.device[n] \in Nat
                                /\ Len(g.inputs[n]) \in Nat
                                /\ g.inputs[n] \in Seq(Entries(g))
         /\ \A e : /\ IsFiniteSet(Uses(g, e))
                   /\ EntryRefCount(e) \in Nat
                   /\ EntryRefCount(e) = 0 <=> Uses(g, e) = {}
<1>1. WellFormed(g)
  BY GraphsAssumption
<1>2. GraphTypes(g)
  BY <1>1 DEF WellFormed
<1>3. /\ g.num_nodes \in Nat /\ g.num_entries \in Nat
      /\ \A e \in Entries(g) : g.source[e] \in Nodes(g) /\ g.size[e] \in Nat
      /\ \A n \in Nodes(g) : /\ g.device[n] \in Nat
                             /\ Len(g.inputs[n]) \in Nat
                             /\ g.inputs[n] \in Seq(Entries(g))
  BY <1>2 DEF GraphTypes
<1>4. \A e : /\ IsFiniteSet(Uses(g, e))
             /\ EntryRefCount(e) \in Nat
             /\ EntryRefCount(e) = 0 <=> Uses(g, e) = {}
  BY <1>1, FiniteUses DEF EntryRefCount
<1> QED BY <1>1, <1>3, <1>4

(* With nothing placed and no plan or a safe one published, the invariant  *)
(* holds: Init and StartRound both reach such a state.                     *)
Fresh(p) ==
  /\ g \in Graphs
  /\ pc = p /\ nid = 0 /\ ipair = 1 /\ todo = {} /\ taken = {}
  /\ storage = PerEntry(g, kBadStorageID)
  /\ storage_inplace_index = PerEntry(g, -1)
  /\ storage_ref_count = PerEntry(g, 0)
  /\ num_data = 0 /\ data = PerEntry(g, NoStorageEntry) /\ free = PerEntry(g, 0)
  /\ num_not_allocated = 0
  /\ value = [e \in Entries(g) |-> e]
  /\ match_range \in Nat
  /\ PublishedPlanIsSafe

LEMMA FreshInv ==
  ASSUME NEW p \in {"round", "node"}, Fresh(p)
  PROVE  Inv
<1> USE DEF Fresh
<1>1. WellFormed(g) /\ g.num_nodes \in Nat /\ g.num_entries \in Nat
  BY GraphFacts
<1>2. \A e \in Entries(g) : storage[e] = -1 /\ g.source[e] \in Nodes(g)
  BY GraphFacts DEF PerEntry, kBadStorageID
<1>3. Entries(g) # {} => 0 \in Nodes(g)
  BY <1>1, <1>2 DEF Nodes
<1>4. TypeOK
  <2>1. NoStorageEntry \in [device_id : Nat, max_bytes : Nat, released_by_node : {0}]
    BY DEF NoStorageEntry
  <2>2. data \in [Entries(g) -> [device_id : Nat, max_bytes : Nat, released_by_node : Nodes(g)]]
    BY <2>1, <1>3 DEF PerEntry
  <2> QED BY <2>2, <1>1 DEF TypeOK, PerEntry, kBadStorageID
<1>5. Placed = {} /\ Storages = {}
  BY <1>2 DEF Placed, Storages
<1>6. InTurn
  BY DEF InTurn
<1>7. PlacedInOrder
  BY <1>5 DEF PlacedInOrder
<1>8. StoragesPlaced
  BY <1>5, FS_EmptySet DEF StoragesPlaced, PerEntry
<1>9. RefCountsWaitingUses /\ FreeIsUnused /\ ReadsAgree
  BY <1>5 DEF RefCountsWaitingUses, FreeIsUnused, ReadsAgree
<1>10. OutputsHeld
  BY <1>5 DEF OutputsHeld
<1>11. PlanIsSafe
  BY <1>2 DEF PlanIsSafe, SafeStorage
<1> QED BY <1>4, <1>6, <1>7, <1>8, <1>9, <1>10, <1>11 DEF Inv, PlannerInv

LEMMA InitInv == Init => Inv
<1> SUFFICES ASSUME Init PROVE Inv
  OBVIOUS
<1>1. match_range \in Nat
  BY MatchRangeAssumption DEF Init
<1>2. PublishedPlanIsSafe
  BY DEF Init, PublishedPlanIsSafe
<1>3. Fresh("round")
  BY <1>1, <1>2 DEF Init, Fresh
<1> QED BY <1>3, FreshInv

(* A new round starts like the pass does.                                  *)
LEMMA StartRoundInv == Inv /\ StartRound => Inv'
<1>1. Fresh("node") => Inv
  BY FreshInv
<1>2. Fresh("node")' => Inv'
  BY <1>1, PTL
<1>3. ASSUME Inv, StartRound PROVE Fresh("node")'
  <2>1. g' = g /\ match_range' = match_range /\ best' = best
    BY <1>3 DEF StartRound, search
  <2>2. PublishedPlanIsSafe'
    BY <1>3, <2>1 DEF Inv, PlannerInv, PublishedPlanIsSafe
  <2>3. match_range' \in Nat /\ g' \in Graphs
    BY <1>3, <2>1 DEF Inv, PlannerInv, TypeOK
  <2>4. PerEntry(g, kBadStorageID)' = PerEntry(g', kBadStorageID)
    BY DEF PerEntry, kBadStorageID
  <2> QED
    BY <1>3, <2>1, <2>2, <2>3 DEF StartRound, Fresh, PerEntry, kBadStorageID, NoStorageEntry, Entries
<1> QED BY <1>2, <1>3

-----------------------------------------------------------------------------
(* Facts about the reads that a storage waits for.                         *)

LEMMA WaitingFacts ==
  ASSUME Inv
  PROVE  \A s : /\ Waiting(s) \subseteq AllUses(g)
                /\ IsFiniteSet(Waiting(s))
                /\ Cardinality(Waiting(s)) \in Nat
                /\ Cardinality(Waiting(s)) = 0 <=> Waiting(s) = {}
<1> SUFFICES ASSUME NEW s
             PROVE  /\ Waiting(s) \subseteq AllUses(g)
                    /\ IsFiniteSet(Waiting(s))
                    /\ Cardinality(Waiting(s)) \in Nat
                    /\ Cardinality(Waiting(s)) = 0 <=> Waiting(s) = {}
  OBVIOUS
<1>1. IsFiniteSet(AllUses(g))
  BY GraphFacts, FiniteUses DEF Inv
<1>2. Waiting(s) \in SUBSET AllUses(g)
  BY DEF Waiting
<1>3. IsFiniteSet(Waiting(s))
  BY <1>1, <1>2, FS_Subset
<1> QED BY <1>2, <1>3, FS_CardinalityType, FS_EmptySet

(* A step that only moves the control from one loop to the next frees      *)
(* nothing and places nothing.                                             *)
LEMMA ControlStep ==
  ASSUME Inv,
         UNCHANGED <<g, storage, storage_ref_count, num_data, free, value, best>>,
         nid' \in Int, nid' >= nid,
         \A u \in AllUses(g) : Freed(u)' <=> Freed(u)
  PROVE  /\ \A s : Waiting(s)' = Waiting(s)
         /\ PlacedInOrder' /\ StoragesPlaced'
         /\ RefCountsWaitingUses' /\ FreeIsUnused'
         /\ PlanIsSafe' /\ PublishedPlanIsSafe'
<1>1. \A s : Waiting(s)' = Waiting(s)
  BY DEF Waiting
<1>2. Placed' = Placed /\ Storages' = Storages
  BY DEF Placed, Storages
<1>3. PlacedInOrder'
  <2> SUFFICES ASSUME NEW e \in Placed PROVE g.source[e] <= nid'
    BY <1>2 DEF PlacedInOrder
  <2>1. g.source[e] <= nid
    BY DEF Inv, PlannerInv, PlacedInOrder
  <2>2. g.source[e] \in Int /\ nid \in Int
    BY GraphFacts DEF Inv, PlannerInv, TypeOK, Placed, Nodes
  <2> QED BY <2>1, <2>2
<1>4. StoragesPlaced'
  BY <1>2 DEF Inv, PlannerInv, StoragesPlaced
<1>5. RefCountsWaitingUses'
  BY <1>1, <1>2 DEF Inv, PlannerInv, RefCountsWaitingUses
<1>6. FreeIsUnused'
  BY <1>1, <1>2 DEF Inv, PlannerInv, FreeIsUnused
<1>7. PlanIsSafe' /\ PublishedPlanIsSafe'
  BY DEF Inv, PlannerInv, PlanIsSafe, PublishedPlanIsSafe
<1> QED BY <1>1, <1>3, <1>4, <1>5, <1>6, <1>7

LEMMA SkipVariableInv == Inv /\ SkipVariable => Inv'
<1> SUFFICES ASSUME Inv, SkipVariable PROVE Inv'
  OBVIOUS
<1> USE DEF SkipVariable, plan, allocator, search
<1>1. nid \in Nodes(g) /\ nid \in Nat /\ nid < g.num_nodes /\ g.num_nodes \in Nat
  BY GraphFacts DEF Inv, Nodes
<1>2. \A u \in AllUses(g) : u[1] # nid /\ u[1] \in Int
  <2> SUFFICES ASSUME NEW u \in AllUses(g) PROVE u[1] # nid /\ u[1] \in Int
    OBVIOUS
  <2>1. u[1] \in 0 .. g.num_nodes
    BY GraphFacts, UsesFollowSource DEF Inv
  <2>2. u[1] < g.num_nodes => u[2] \in InputPositions(g, u[1])
    BY GraphFacts, UsesFollowSource DEF Inv
  <2>3. g.inputs[nid] = <<>>
    BY <1>1, GraphFacts DEF Inv, WellFormed, PostOrder
  <2>4. InputPositions(g, nid) = {}
    BY <2>3 DEF InputPositions
  <2> QED BY <2>1, <2>2, <2>4, <1>1
<1>3. \A u \in AllUses(g) : Freed(u)' <=> Freed(u)
  BY <1>1, <1>2 DEF Freed
<1>4. /\ \A s : Waiting(s)' = Waiting(s)
      /\ PlacedInOrder' /\ StoragesPlaced'
      /\ RefCountsWaitingUses' /\ FreeIsUnused'
      /\ PlanIsSafe' /\ PublishedPlanIsSafe'
  BY <1>1, <1>3, ControlStep
<1>5. TypeOK'
  BY <1>1 DEF Inv, PlannerInv, TypeOK
<1>6. InTurn'
  BY DEF InTurn
<1>7. OutputsHeld'
  <2>1. \A e \in Placed : g.source[e] # nid'
    BY <1>1, GraphFacts DEF Inv, PlannerInv, PlacedInOrder, Placed, Nodes
  <2> QED BY <2>1 DEF OutputsHeld, OutputsOf, Placed
<1>8. ReadsAgree'
  <2> SUFFICES ASSUME NEW s \in Storages, NEW u \in Waiting(s), NEW w \in Waiting(s)
               PROVE  value[UsedEntry(g, u)] = value[UsedEntry(g, w)]
    BY <1>4 DEF ReadsAgree, Storages
  <2>1. u \in AllUses(g) /\ w \in AllUses(g)
    BY DEF Waiting
  <2> QED BY <2>1, <1>2 DEF Inv, PlannerInv, ReadsAgree, Overwritten
<1> QED BY <1>4, <1>5, <1>6, <1>7, <1>8 DEF Inv, PlannerInv

LEMMA SkipPairInv == Inv /\ SkipPair => Inv'
<1> SUFFICES ASSUME Inv, SkipPair PROVE Inv'
  OBVIOUS
<1> USE DEF SkipPair, AtPair, plan, allocator, search
<1>1. nid \in Nat /\ ipair \in Nat \ {0} /\ pc' = pc /\ nid' = nid
  BY GraphFacts DEF Inv, PlannerInv, TypeOK
<1>2. \A u \in AllUses(g) : Freed(u)' <=> Freed(u)
  BY <1>1 DEF Freed
<1>3. /\ \A s : Waiting(s)' = Waiting(s)
      /\ PlacedInOrder' /\ StoragesPlaced'
      /\ RefCountsWaitingUses' /\ FreeIsUnused'
      /\ PlanIsSafe' /\ PublishedPlanIsSafe'
  BY <1>1, <1>2, ControlStep
<1>4. TypeOK'
  BY <1>1 DEF Inv, PlannerInv, TypeOK
<1>5. InTurn'
  BY DEF InTurn
<1>6. OutputsHeld'
  BY <1>3 DEF Inv, PlannerInv, OutputsHeld, Placed
<1>7. ReadsAgree'
  BY <1>3 DEF Inv, PlannerInv, ReadsAgree, Overwritten, Storages
<1> QED BY <1>3, <1>4, <1>5, <1>6, <1>7 DEF Inv, PlannerInv

LEMMA SortOutputsInv == Inv /\ SortOutputs => Inv'
<1> SUFFICES ASSUME Inv, SortOutputs PROVE Inv'
  OBVIOUS
<1> USE DEF SortOutputs, plan, allocator, search
<1>1. nid \in Nat /\ nid' = nid /\ pc = "node" /\ pc' = "request"
  BY DEF Inv, PlannerInv, TypeOK
<1>2. \A u \in AllUses(g) : Freed(u)' <=> Freed(u)
  BY <1>1 DEF Freed
<1>3. /\ \A s : Waiting(s)' = Waiting(s)
      /\ PlacedInOrder' /\ StoragesPlaced'
      /\ RefCountsWaitingUses' /\ FreeIsUnused'
      /\ PlanIsSafe' /\ PublishedPlanIsSafe'
  BY <1>1, <1>2, ControlStep
<1>4. TypeOK'
  BY <1>1 DEF Inv, PlannerInv, TypeOK, OutputsOf
<1>5. InTurn'
  BY <1>1 DEF InTurn
<1>6. OutputsHeld'
  BY <1>1, <1>3 DEF Inv, PlannerInv, OutputsHeld, Placed
<1>7. ReadsAgree'
  BY <1>3 DEF Inv, PlannerInv, ReadsAgree, Overwritten, Storages
<1> QED BY <1>3, <1>4, <1>5, <1>6, <1>7 DEF Inv, PlannerInv

LEMMA StartFreeingInv == Inv /\ StartFreeing => Inv'
<1> SUFFICES ASSUME Inv, StartFreeing PROVE Inv'
  OBVIOUS
<1> USE DEF StartFreeing, plan, allocator, search
<1>1. nid \in Nat /\ nid' = nid /\ pc = "request" /\ pc' = "free" /\ ipair' = 1
  BY DEF Inv, PlannerInv, TypeOK
<1>2. \A u \in AllUses(g) : Freed(u)' <=> Freed(u)
  <2> SUFFICES ASSUME NEW u \in AllUses(g) PROVE Freed(u)' <=> Freed(u)
    OBVIOUS
  <2>1. u[2] \in Nat \ {0}
    BY GraphFacts, UsesFollowSource DEF Inv
  <2> QED BY <1>1, <2>1 DEF Freed
<1>3. /\ \A s : Waiting(s)' = Waiting(s)
      /\ PlacedInOrder' /\ StoragesPlaced'
      /\ RefCountsWaitingUses' /\ FreeIsUnused'
      /\ PlanIsSafe' /\ PublishedPlanIsSafe'
  BY <1>1, <1>2, ControlStep
<1>4. TypeOK'
  BY <1>1 DEF Inv, PlannerInv, TypeOK
<1>5. InTurn'
  BY <1>1 DEF Inv, PlannerInv, InTurn
<1>6. OutputsHeld'
  BY <1>1, <1>3 DEF Inv, PlannerInv, OutputsHeld, Placed
<1>7. ReadsAgree'
  BY <1>3 DEF Inv, PlannerInv, ReadsAgree, Overwritten, Storages
<1> QED BY <1>3, <1>4, <1>5, <1>6, <1>7 DEF Inv, PlannerInv

LEMMA StartSweepInv == Inv /\ StartSweep => Inv'
<1> SUFFICES ASSUME Inv, StartSweep PROVE Inv'
  OBVIOUS
<1> USE DEF StartSweep, plan, allocator, search
<1>1. /\ nid \in Nodes(g) /\ nid \in Nat /\ nid' = nid
      /\ pc = "free" /\ pc' = "sweep" /\ ipair \in Nat \ {0}
  BY DEF Inv, PlannerInv, TypeOK, InTurn
<1>2. \A u \in AllUses(g) : Freed(u)' <=> Freed(u)
  <2> SUFFICES ASSUME NEW u \in AllUses(g), u[1] = nid PROVE u[2] < ipair
    BY <1>1 DEF Freed
  <2>1. nid < g.num_nodes /\ Len(g.inputs[nid]) \in Nat
    BY <1>1, GraphFacts DEF Inv, Nodes
  <2>2. u[2] \in 1 .. Len(g.inputs[nid])
    BY <2>1, GraphFacts, UsesFollowSource DEF Inv, InputPositions
  <2> QED BY <1>1, <2>1, <2>2 DEF InputPositions
<1>3. /\ \A s : Waiting(s)' = Waiting(s)
      /\ PlacedInOrder' /\ StoragesPlaced'
      /\ RefCountsWaitingUses' /\ FreeIsUnused'
      /\ PlanIsSafe' /\ PublishedPlanIsSafe'
  BY <1>1, <1>2, ControlStep
<1>4. TypeOK'
  BY <1>1 DEF Inv, PlannerInv, TypeOK, OutputsOf
<1>5. InTurn'
  BY <1>1 DEF Inv, PlannerInv, InTurn
<1>6. OutputsHeld'
  BY <1>1, <1>3 DEF Inv, PlannerInv, OutputsHeld, Placed
<1>7. ReadsAgree'
  BY <1>3 DEF Inv, PlannerInv, ReadsAgree, Overwritten, Storages
<1> QED BY <1>3, <1>4, <1>5, <1>6, <1>7 DEF Inv, PlannerInv

LEMMA NextNodeInv == Inv /\ NextNode => Inv'
<1> SUFFICES ASSUME Inv, NextNode PROVE Inv'
  OBVIOUS
<1> USE DEF NextNode, plan, allocator, search
<1>1. /\ nid \in Nat /\ nid' = nid + 1 /\ nid < g.num_nodes /\ g.num_nodes \in Nat
      /\ pc = "sweep" /\ pc' = "node"
  BY GraphFacts DEF Inv, PlannerInv, TypeOK, InTurn, Nodes
<1>2. \A u \in AllUses(g) : u[1] \in Int
  BY GraphFacts, UsesFollowSource DEF Inv
<1>3. \A u \in AllUses(g) : Freed(u)' <=> Freed(u)
  BY <1>1, <1>2 DEF Freed
<1>4. /\ \A s : Waiting(s)' = Waiting(s)
      /\ PlacedInOrder' /\ StoragesPlaced'
      /\ RefCountsWaitingUses' /\ FreeIsUnused'
      /\ PlanIsSafe' /\ PublishedPlanIsSafe'
  BY <1>1, <1>3, ControlStep
<1>5. TypeOK'
  BY <1>1 DEF Inv, PlannerInv, TypeOK
<1>6. InTurn'
  BY <1>1 DEF InTurn
<1>7. OutputsHeld'
  <2>1. \A e \in Placed : g.source[e] # nid'
    BY <1>1, GraphFacts DEF Inv, PlannerInv, PlacedInOrder, Placed, Nodes
  <2> QED BY <2>1 DEF OutputsHeld, OutputsOf, Placed
<1>8. ReadsAgree'
  <2> SUFFICES ASSUME NEW s \in Storages, NEW u \in Waiting(s), NEW w \in Waiting(s)
               PROVE  value[UsedEntry(g, u)] = value[UsedEntry(g, w)]
    BY <1>4 DEF ReadsAgree, Storages
  <2>1. u[1] # nid /\ w[1] # nid
    BY <1>1 DEF Waiting, Freed
  <2> QED BY <2>1 DEF Inv, PlannerInv, ReadsAgree, Overwritten
<1> QED BY <1>4, <1>5, <1>6, <1>7, <1>8 DEF Inv, PlannerInv

LEMMA EndRoundInv == Inv /\ EndRound => Inv'
<1> SUFFICES ASSUME Inv, EndRound PROVE Inv'
  OBVIOUS
<1> USE DEF EndRound, plan, allocator
<1>1. nid' = nid /\ nid \in Nat /\ pc = "node" /\ pc' \in {"round", "done"} /\ g' = g
  BY DEF Inv, PlannerInv, TypeOK
<1>2. Placed' = Placed /\ Storages' = Storages
  BY <1>1 DEF Placed, Storages
<1>3. \A s : Waiting(s)' = Waiting(s)
  BY <1>1 DEF Waiting, Freed
<1>4. TypeOK'
  <2>1. match_range' \in Nat
    BY DEF Inv, PlannerInv, TypeOK
  <2> QED BY <1>1, <2>1 DEF Inv, PlannerInv, TypeOK
<1>5. InTurn' /\ OutputsHeld'
  BY <1>1 DEF InTurn, OutputsHeld
<1>6. PlacedInOrder' /\ StoragesPlaced'
  BY <1>1, <1>2 DEF Inv, PlannerInv, PlacedInOrder, StoragesPlaced
<1>7. RefCountsWaitingUses' /\ FreeIsUnused'
  BY <1>2, <1>3 DEF Inv, PlannerInv, RefCountsWaitingUses, FreeIsUnused
<1>8. ReadsAgree'
  BY <1>1, <1>2, <1>3 DEF Inv, PlannerInv, ReadsAgree, Overwritten
<1>9. PlanIsSafe'
  BY <1>1 DEF Inv, PlannerInv, PlanIsSafe
<1>10. PublishedPlanIsSafe'
  <2>1. \A p \in best : SafeStorage(g, p.storage_id, p.value)
    BY DEF Inv, PlannerInv, PublishedPlanIsSafe
  <2>2. SafeStorage(g, ThisPlan.storage_id, ThisPlan.value)
    BY DEF Inv, PlannerInv, PlanIsSafe, ThisPlan
  <2>3. best' \subseteq best \cup {ThisPlan}
    OBVIOUS
  <2> QED BY <1>1, <2>1, <2>2, <2>3 DEF PublishedPlanIsSafe
<1> QED BY <1>1, <1>4, <1>5, <1>6, <1>7, <1>8, <1>9, <1>10 DEF Inv, PlannerInv

(* Return, Done and stuttering leave all but pc alone.                     *)
LEMMA StandStillInv == Inv /\ (Return \/ UNCHANGED vars) => Inv'
<1> SUFFICES ASSUME Inv, Return \/ UNCHANGED vars PROVE Inv'
  OBVIOUS
<1>1. UNCHANGED <<g, nid, ipair, todo, taken, plan, allocator, search>>
  BY DEF Return, search, vars, loop
<1>2. UNCHANGED <<storage, storage_inplace_index, num_not_allocated, value>>
  BY <1>1 DEF plan
<1>3. UNCHANGED <<storage_ref_count, num_data, data, free, match_range, best>>
  BY <1>1 DEF allocator, search
<1>4. pc' = pc \/ (pc = "round" /\ pc' = "done")
  BY DEF Return, vars, loop
<1>5. nid \in Nat
  BY GraphFacts DEF Inv, PlannerInv, TypeOK
<1>6. \A u \in AllUses(g) : Freed(u)' <=> Freed(u)
  BY <1>1, <1>4 DEF Freed
<1>7. /\ \A s : Waiting(s)' = Waiting(s)
      /\ PlacedInOrder' /\ StoragesPlaced'
      /\ RefCountsWaitingUses' /\ FreeIsUnused'
      /\ PlanIsSafe' /\ PublishedPlanIsSafe'
  BY <1>1, <1>2, <1>3, <1>5, <1>6, ControlStep
<1>8. TypeOK'
  BY <1>1, <1>2, <1>3, <1>4 DEF Inv, PlannerInv, TypeOK
<1>9. InTurn'
  BY <1>1, <1>2, <1>4 DEF Inv, PlannerInv, InTurn
<1>10. OutputsHeld'
  BY <1>1, <1>2, <1>3, <1>4, <1>7 DEF Inv, PlannerInv, OutputsHeld, Placed
<1>11. ReadsAgree'
  BY <1>1, <1>2, <1>3, <1>7 DEF Inv, PlannerInv, ReadsAgree, Overwritten, Storages
<1> QED BY <1>1, <1>7, <1>8, <1>9, <1>10, <1>11 DEF Inv, PlannerInv

LEMMA RequestShapelessInv ==
  ASSUME Inv, NEW e \in todo, RequestShapeless(e) PROVE Inv'
<1> USE DEF RequestShapeless, NextRequest, allocator, search
<1>1. nid' = nid /\ nid \in Nat /\ pc = "request" /\ pc' = "request" /\ g' = g
  BY GraphFacts DEF Inv, PlannerInv, TypeOK
<1>2. \A u \in AllUses(g) : Freed(u)' <=> Freed(u)
  BY <1>1 DEF Freed
<1>3. /\ \A s : Waiting(s)' = Waiting(s)
      /\ PlacedInOrder' /\ StoragesPlaced'
      /\ RefCountsWaitingUses' /\ FreeIsUnused'
      /\ PlanIsSafe' /\ PublishedPlanIsSafe'
  BY <1>1, <1>2, ControlStep
<1>4. TypeOK'
  BY <1>1 DEF Inv, PlannerInv, TypeOK
<1>5. InTurn'
  BY <1>1 DEF Inv, PlannerInv, InTurn
<1>6. OutputsHeld'
  BY <1>1, <1>3 DEF Inv, PlannerInv, OutputsHeld, Placed
<1>7. ReadsAgree'
  BY <1>1, <1>3 DEF Inv, PlannerInv, ReadsAgree, Overwritten, Storages
<1> QED BY <1>1, <1>3, <1>4, <1>5, <1>6, <1>7 DEF Inv, PlannerInv

-----------------------------------------------------------------------------
(* Steps that place an output.                                             *)

(* Every read of an output of the node in turn is still to come.           *)
LEMMA OutputReadsWait ==
  ASSUME Inv, NEW e \in OutputsOf(g, nid), NEW u \in Uses(g, e)
  PROVE  u \in AllUses(g) /\ UsedEntry(g, u) = e /\ u[1] > nid /\ ~Freed(u)
<1>1. u \in AllUses(g) /\ UsedEntry(g, u) = e
  BY DEF Uses
<1>2. g.source[e] = nid
  BY DEF OutputsOf
<1>3. u[1] \in 0 .. g.num_nodes /\ nid < u[1]
  BY <1>1, <1>2, GraphFacts, UsesFollowSource DEF Inv
<1>4. nid \in Nat
  BY GraphFacts DEF Inv, PlannerInv, TypeOK
<1> QED BY <1>1, <1>3, <1>4 DEF Freed

(* Request puts output e on storage s, which nothing waits for and no      *)
(* other output of the node is on: what the reused and the new storage     *)
(* have in common.                                                         *)
LEMMA PlaceStep ==
  ASSUME Inv, NEW e \in todo, NEW s \in Entries(g),
         pc = "request", pc' = "request", todo' = todo \ {e},
         UNCHANGED <<g, nid, ipair, taken, value, best>>,
         storage' = [storage EXCEPT ![e] = s],
         storage_ref_count' = [storage_ref_count EXCEPT ![s] = EntryRefCount(e)],
         Storages' = Storages \cup {s},
         Waiting(s) = {},
         free'[s] = 0,
         \A t \in Storages \ {s} : free'[t] = free[t],
         \A o \in OutputsOf(g, nid) : storage[o] # s
  PROVE  /\ InTurn' /\ PlacedInOrder'
         /\ RefCountsWaitingUses' /\ FreeIsUnused'
         /\ OutputsHeld' /\ ReadsAgree'
         /\ PlanIsSafe' /\ PublishedPlanIsSafe'
         /\ Placed' = Placed \cup {e} /\ e \notin Placed
<1> USE DEF kBadStorageID
<1>1. /\ nid \in Nodes(g) /\ nid \in Nat
      /\ e \in OutputsOf(g, nid) /\ e \in Entries(g) /\ storage[e] = -1 /\ g.source[e] = nid
      /\ s \in Nat
  BY GraphFacts DEF Inv, PlannerInv, TypeOK, InTurn, OutputsOf, Nodes, Entries
<1>2. storage \in [Entries(g) -> Int]
  BY DEF Inv, PlannerInv, TypeOK, Storages
<1>3. \A o \in Entries(g) : storage'[o] = IF o = e THEN s ELSE storage[o]
  BY <1>1, <1>2
<1>4. \A u \in Uses(g, e) : u \in AllUses(g) /\ UsedEntry(g, u) = e /\ u[1] > nid /\ ~Freed(u)
  BY <1>1, OutputReadsWait
<1>5. \A u \in AllUses(g) : UsedEntry(g, u) \in Entries(g) /\ (Freed(u)' <=> Freed(u))
  BY GraphFacts, UsesFollowSource DEF Inv, Freed
<1>6. \A u \in AllUses(g) : Freed(u) <=> u[1] < nid
  BY <1>1 DEF Freed
<1>7. Waiting(s)' = Uses(g, e)
  <2>1. Waiting(s)' \subseteq Uses(g, e)
    <3> SUFFICES ASSUME NEW u \in Waiting(s)' PROVE u \in Uses(g, e)
      OBVIOUS
    <3>1. u \in AllUses(g) /\ storage'[UsedEntry(g, u)] = s /\ ~Freed(u)
      BY <1>5 DEF Waiting
    <3>2. UsedEntry(g, u) # e => u \in Waiting(s)
      BY <3>1, <1>3, <1>5 DEF Waiting
    <3> QED BY <3>1, <3>2 DEF Uses
  <2>2. Uses(g, e) \subseteq Waiting(s)'
    BY <1>1, <1>3, <1>4, <1>5 DEF Waiting
  <2> QED BY <2>1, <2>2
<1>8. \A t \in Storages \ {s} : Waiting(t)' = Waiting(t)
  <2> SUFFICES ASSUME NEW t \in Storages \ {s}, NEW u \in AllUses(g)
               PROVE  storage'[UsedEntry(g, u)] = t <=> storage[UsedEntry(g, u)] = t
    BY <1>5 DEF Waiting
  <2>1. t # -1
    BY DEF Storages
  <2> QED BY <2>1, <1>1, <1>3, <1>5
<1>9. Placed' = Placed \cup {e} /\ e \notin Placed
  <2>1. Placed' = {o \in Entries(g) : storage'[o] >= 0}
    BY DEF Placed
  <2>2. \A o \in Entries(g) : storage'[o] >= 0 <=> storage[o] >= 0 \/ o = e
    BY <1>1, <1>3
  <2>3. ~(storage[e] >= 0)
    BY <1>1
  <2> QED BY <2>1, <2>2, <2>3, <1>1 DEF Placed
<1>10. InTurn'
  BY <1>1, <1>3 DEF Inv, PlannerInv, InTurn, OutputsOf
<1>11. PlacedInOrder'
  BY <1>1, <1>9 DEF Inv, PlannerInv, PlacedInOrder
<1>12. RefCountsWaitingUses'
  <2> SUFFICES ASSUME NEW t \in Storages' PROVE storage_ref_count'[t] = Cardinality(Waiting(t)')
    BY DEF RefCountsWaitingUses
  <2>1. CASE t = s
    BY <2>1, <1>7 DEF Inv, PlannerInv, TypeOK, EntryRefCount
  <2>2. CASE t # s
    BY <2>2, <1>8 DEF Inv, PlannerInv, TypeOK, RefCountsWaitingUses
  <2> QED BY <2>1, <2>2
<1>13. FreeIsUnused'
  BY <1>8 DEF Inv, PlannerInv, FreeIsUnused
<1>14. OutputsHeld'
  <2> SUFFICES ASSUME NEW o \in OutputsOf(g, nid) \cap Placed'
               PROVE  /\ free'[storage'[o]] = 0
                      /\ Uses(g, o) = {} =>
                           /\ Waiting(storage[o])' = {}
                           /\ \A p \in OutputsOf(g, nid) : storage'[p] = storage'[o] => p = o
    BY DEF OutputsHeld
  <2>1. \A p \in OutputsOf(g, nid) : p \in Entries(g)
    BY DEF OutputsOf
  <2>2. CASE o = e
    <3>1. storage'[o] = s
      BY <2>2, <1>1, <1>3
    <3>2. Waiting(storage[o])' = Waiting(s)'
      BY <3>1 DEF Waiting
    <3> QED BY <2>1, <2>2, <3>1, <3>2, <1>3, <1>7
  <2>3. CASE o # e
    <3>1. o \in Placed /\ storage'[o] = storage[o] /\ storage[o] # s
      BY <2>1, <2>3, <1>3, <1>9
    <3>2. storage[o] \in Storages \ {s}
      BY <3>1, <2>1 DEF Inv, PlannerInv, TypeOK, Placed, Storages
    <3>3. Waiting(storage[o])' = Waiting(storage[o])
      <4>1. Waiting(storage[o])' = {u \in AllUses(g) : storage'[UsedEntry(g, u)] = storage[o] /\ ~Freed(u)'}
        BY <3>1 DEF Waiting
      <4>2. \A u \in AllUses(g) : storage'[UsedEntry(g, u)] = storage[o] <=> storage[UsedEntry(g, u)] = storage[o]
        BY <2>1, <3>1, <3>2, <1>1, <1>3, <1>5 DEF Placed
      <4> QED BY <4>1, <4>2, <1>5 DEF Waiting
    <3>4. /\ free[storage[o]] = 0
          /\ Uses(g, o) = {} =>
               /\ Waiting(storage[o]) = {}
               /\ \A p \in OutputsOf(g, nid) : storage[p] = storage[o] => p = o
      BY <3>1 DEF Inv, PlannerInv, OutputsHeld
    <3> QED BY <2>1, <3>1, <3>2, <3>3, <3>4, <1>3
  <2> QED BY <2>2, <2>3
<1>15. ReadsAgree'
  <2> SUFFICES ASSUME NEW t \in Storages', NEW u \in Waiting(t)', NEW w \in Waiting(t)'
               PROVE  \/ value[UsedEntry(g, u)] = value[UsedEntry(g, w)]
                      \/ Overwritten(u, w) \/ Overwritten(w, u)
    BY DEF ReadsAgree, Overwritten
  <2>1. CASE t = s
    BY <2>1, <1>4, <1>7
  <2>2. CASE t # s
    BY <2>2, <1>8 DEF Inv, PlannerInv, ReadsAgree
  <2> QED BY <2>1, <2>2
<1>16. PlanIsSafe'
  <2> SUFFICES ASSUME NEW o \in Entries(g), NEW p \in Entries(g),
                      o # p, storage'[o] >= 0, storage'[p] = storage'[o],
                      g.source[p] <= g.source[o], NEW u \in Uses(g, p)
               PROVE  \/ u[1] < g.source[o]
                      \/ value[p] = value[o]
                      \/ /\ u[1] = g.source[o]
                         /\ \E i \in DOMAIN g.inplace[u[1]] :
                              g.inplace[u[1]][i].in = u[2] /\ g.inplace[u[1]][i].out = o
    BY DEF PlanIsSafe, SafeStorage
  <2>1. CASE o = e
    <3>1. u \in AllUses(g) /\ UsedEntry(g, u) = p /\ storage[p] = s
      BY <2>1, <1>1, <1>3 DEF Uses
    <3>2. Freed(u)
      BY <3>1 DEF Waiting
    <3> QED BY <3>1, <3>2, <2>1, <1>1, <1>6
  <2>2. CASE p = e
    <3>1. o \in Placed /\ storage[o] = s
      BY <2>2, <1>3 DEF Placed
    <3>2. g.source[o] <= nid /\ g.source[o] \in Nat
      BY <3>1, GraphFacts DEF Inv, PlannerInv, PlacedInOrder, Nodes
    <3>3. o \in OutputsOf(g, nid)
      BY <3>2, <2>2, <1>1 DEF OutputsOf
    <3> QED BY <3>1, <3>3
  <2>3. CASE o # e /\ p # e
    BY <2>3, <1>3 DEF Inv, PlannerInv, PlanIsSafe, SafeStorage
  <2> QED BY <2>1, <2>2, <2>3
<1>17. PublishedPlanIsSafe'
  BY DEF Inv, PlannerInv, PublishedPlanIsSafe
<1> QED BY <1>9, <1>10, <1>11, <1>12, <1>13, <1>14, <1>15, <1>16, <1>17

(* The entries that have a storage can be counted.                         *)
LEMMA PlacedFinite ==
  ASSUME Inv
  PROVE  /\ IsFiniteSet(Placed) /\ Cardinality(Placed) \in Nat
         /\ \A e \in Entries(g) \ Placed :
              /\ Cardinality(Placed \cup {e}) = Cardinality(Placed) + 1
              /\ Cardinality(Placed) < g.num_entries
<1>1. g.num_entries \in Nat
  BY GraphFacts DEF Inv
<1>2. IsFiniteSet(Entries(g)) /\ Cardinality(Entries(g)) = g.num_entries
  <2>1. g.num_entries - 1 \in Int /\ 0 \in Int
    BY <1>1
  <2>2. /\ IsFiniteSet(0 .. g.num_entries - 1)
        /\ Cardinality(0 .. g.num_entries - 1) =
             IF 0 > g.num_entries - 1 THEN 0 ELSE g.num_entries - 1 - 0 + 1
    BY <2>1, FS_Interval
  <2> QED BY <1>1, <2>2 DEF Entries
<1>3. Placed \in SUBSET Entries(g)
  BY DEF Placed
<1>4. IsFiniteSet(Placed) /\ Cardinality(Placed) \in Nat
  BY <1>2, <1>3, FS_Subset, FS_CardinalityType
<1>5. ASSUME NEW e \in Entries(g) \ Placed
      PROVE  /\ Cardinality(Placed \cup {e}) = Cardinality(Placed) + 1
             /\ Cardinality(Placed) < g.num_entries
  <2>1. Cardinality(Placed \cup {e}) = Cardinality(Placed) + 1
    BY <1>4, FS_AddElement
  <2>2. Placed \cup {e} \in SUBSET Entries(g)
    BY <1>3
  <2>3. Cardinality(Placed \cup {e}) <= Cardinality(Entries(g))
    BY <1>2, <2>2, FS_Subset
  <2> QED BY <1>1, <1>2, <1>4, <2>1, <2>3
<1> QED BY <1>4, <1>5

LEMMA RequestReuseInv ==
  ASSUME Inv, NEW e \in todo, NEW s \in 0 .. num_data - 1, RequestReuse(e, s) PROVE Inv'
<1> USE DEF RequestReuse, NextRequest, search
<1>1. /\ e \in Entries(g) /\ e \in OutputsOf(g, nid) /\ storage[e] = -1
      /\ num_data \in Nat /\ num_data <= g.num_entries /\ g.num_entries \in Nat
      /\ nid \in Nodes(g)
  BY GraphFacts DEF Inv, PlannerInv, InTurn, TypeOK, OutputsOf, kBadStorageID
<1>2. s \in Entries(g) /\ s \in Storages
  BY <1>1 DEF Entries, Storages
<1>3. free[s] > 0
  BY DEF BestFit, Matches
<1>4. free[s] = 1 /\ Waiting(s) = {} /\ free'[s] = 0
  BY <1>2, <1>3 DEF Inv, PlannerInv, FreeIsUnused, TypeOK
<1>5. \A o \in OutputsOf(g, nid) : storage[o] # s
  BY <1>2, <1>3 DEF Inv, PlannerInv, OutputsHeld, Placed, OutputsOf, Storages
<1>6. Storages' = Storages \cup {s}
  BY <1>2 DEF Storages
<1>7. \A t \in Storages \ {s} : free'[t] = free[t]
  BY <1>1 DEF Inv, PlannerInv, TypeOK, Entries, Storages
<1>8. /\ InTurn' /\ PlacedInOrder'
      /\ RefCountsWaitingUses' /\ FreeIsUnused'
      /\ OutputsHeld' /\ ReadsAgree'
      /\ PlanIsSafe' /\ PublishedPlanIsSafe'
      /\ Placed' = Placed \cup {e} /\ e \notin Placed
  BY <1>2, <1>4, <1>5, <1>6, <1>7, PlaceStep
<1>9. TypeOK'
  <2>1. Bytes(e) \in Nat
    BY <1>1, GraphFacts DEF Inv, Bytes
  <2>2. data' \in [Entries(g) -> [device_id : Nat, max_bytes : Nat, released_by_node : Nodes(g)]]
    <3> DEFINE grown == IF data[s].max_bytes < Bytes(e) THEN Bytes(e) ELSE data[s].max_bytes
    <3>1. data \in [Entries(g) -> [device_id : Nat, max_bytes : Nat, released_by_node : Nodes(g)]]
      BY DEF Inv, PlannerInv, TypeOK
    <3>2. data[s] \in [device_id : Nat, max_bytes : Nat, released_by_node : Nodes(g)]
      BY <1>2, <3>1
    <3>3. grown \in Nat
      BY <2>1, <3>2
    <3>4. data' = [data EXCEPT ![s] = [data[s] EXCEPT !.max_bytes = grown]]
      BY DEF std_max
    <3> HIDE DEF grown
    <3>5. [data[s] EXCEPT !.max_bytes = grown]
            \in [device_id : Nat, max_bytes : Nat, released_by_node : Nodes(g)]
      BY <3>2, <3>3
    <3> QED BY <1>2, <3>1, <3>4, <3>5
  <2>3. EntryRefCount(e) \in Nat
    BY GraphFacts DEF Inv
  <2>4. storage_ref_count' \in [Entries(g) -> Nat]
    BY <2>3 DEF Inv, PlannerInv, TypeOK
  <2>5. free' \in [Entries(g) -> Nat]
    BY <1>2, <1>4 DEF Inv, PlannerInv, TypeOK
  <2>6. storage' \in [Entries(g) -> {kBadStorageID} \cup 0 .. num_data - 1]
    BY DEF Inv, PlannerInv, TypeOK
  <2> QED BY <2>2, <2>4, <2>5, <2>6 DEF Inv, PlannerInv, TypeOK
<1>10. StoragesPlaced'
  <2>1. Cardinality(Placed') = Cardinality(Placed) + 1 /\ Cardinality(Placed) \in Nat
    BY <1>1, <1>8, PlacedFinite
  <2>2. \A t \in Entries(g) \ Storages : free'[t] = free[t]
    BY <1>2 DEF Inv, PlannerInv, TypeOK
  <2> QED BY <1>1, <2>1, <2>2 DEF Inv, PlannerInv, StoragesPlaced, Storages
<1> QED BY <1>8, <1>9, <1>10 DEF Inv, PlannerInv

LEMMA RequestAllocInv ==
  ASSUME Inv, NEW e \in todo, RequestAlloc(e) PROVE Inv'
<1> USE DEF RequestAlloc, NextRequest, search
<1>1. /\ e \in Entries(g) /\ e \in OutputsOf(g, nid) /\ storage[e] = -1
      /\ num_data \in Nat /\ nid \in Nodes(g)
  BY GraphFacts DEF Inv, PlannerInv, InTurn, TypeOK, OutputsOf, kBadStorageID
<1>2. num_data < g.num_entries /\ g.num_entries \in Nat
  <2>1. e \notin Placed
    BY <1>1 DEF Placed
  <2>2. Cardinality(Placed) \in Nat /\ Cardinality(Placed) < g.num_entries
    BY <1>1, <2>1, PlacedFinite
  <2>3. num_data <= Cardinality(Placed) /\ g.num_entries \in Nat
    BY GraphFacts DEF Inv, PlannerInv, StoragesPlaced
  <2> QED BY <1>1, <2>2, <2>3
<1>3. num_data \in Entries(g) /\ num_data \notin Storages
  BY <1>1, <1>2 DEF Entries, Storages
<1>4. \A o \in Entries(g) : storage[o] # num_data
  BY <1>1 DEF Inv, PlannerInv, TypeOK, kBadStorageID
<1>5. Waiting(num_data) = {}
  <2> SUFFICES ASSUME NEW u \in AllUses(g) PROVE storage[UsedEntry(g, u)] # num_data
    BY DEF Waiting
  <2> QED BY <1>4, GraphFacts, UsesFollowSource DEF Inv
<1>6. free[num_data] = 0 /\ free' = free
  BY <1>3 DEF Inv, PlannerInv, StoragesPlaced
<1>7. \A o \in OutputsOf(g, nid) : storage[o] # num_data
  BY <1>4 DEF OutputsOf
<1>8. Storages' = Storages \cup {num_data}
  BY <1>1 DEF Storages
<1>9. /\ InTurn' /\ PlacedInOrder'
      /\ RefCountsWaitingUses' /\ FreeIsUnused'
      /\ OutputsHeld' /\ ReadsAgree'
      /\ PlanIsSafe' /\ PublishedPlanIsSafe'
      /\ Placed' = Placed \cup {e} /\ e \notin Placed
  BY <1>3, <1>5, <1>6, <1>7, <1>8, PlaceStep
<1>10. TypeOK'
  <2>1. Bytes(e) \in Nat /\ g.device[nid] \in Nat
    BY <1>1, GraphFacts DEF Inv, Bytes
  <2>2. data' \in [Entries(g) -> [device_id : Nat, max_bytes : Nat, released_by_node : Nodes(g)]]
    BY <1>3, <2>1 DEF Inv, PlannerInv, TypeOK
  <2>3. EntryRefCount(e) \in Nat
    BY GraphFacts DEF Inv
  <2>4. storage_ref_count' \in [Entries(g) -> Nat]
    BY <2>3 DEF Inv, PlannerInv, TypeOK
  <2>5. storage' \in [Entries(g) -> {kBadStorageID} \cup 0 .. num_data' - 1]
    BY <1>1 DEF Inv, PlannerInv, TypeOK
  <2>6. num_data' \in 0 .. g.num_entries
    BY <1>1, <1>2
  <2> QED BY <2>2, <2>4, <2>5, <2>6 DEF Inv, PlannerInv, TypeOK
<1>11. StoragesPlaced'
  <2>1. Cardinality(Placed') = Cardinality(Placed) + 1 /\ Cardinality(Placed) \in Nat
    BY <1>1, <1>9, PlacedFinite
  <2> QED BY <1>1, <1>8, <2>1 DEF Inv, PlannerInv, StoragesPlaced
<1> QED BY <1>9, <1>10, <1>11 DEF Inv, PlannerInv

-----------------------------------------------------------------------------
(* Steps that release storage.                                             *)

(* Releasing storage s, which nothing waits for any more.                  *)
LEMMA ReleaseType ==
  ASSUME Inv, nid \in Nodes(g), NEW s \in Entries(g), Release(s)
  PROVE  /\ data' \in [Entries(g) -> [device_id : Nat, max_bytes : Nat, released_by_node : Nodes(g)]]
         /\ free' \in [Entries(g) -> Nat]
         /\ free'[s] = free[s] + 1
         /\ \A t \in Entries(g) \ {s} : free'[t] = free[t]
<1>1. /\ data \in [Entries(g) -> [device_id : Nat, max_bytes : Nat, released_by_node : Nodes(g)]]
      /\ free \in [Entries(g) -> Nat]
  BY DEF Inv, PlannerInv, TypeOK
<1>2. data[s] \in [device_id : Nat, max_bytes : Nat, released_by_node : Nodes(g)]
  BY <1>1
<1>3. [data[s] EXCEPT !.released_by_node = nid]
        \in [device_id : Nat, max_bytes : Nat, released_by_node : Nodes(g)]
  BY <1>2
<1>4. data' = [data EXCEPT ![s] = [data[s] EXCEPT !.released_by_node = nid]]
  BY DEF Release
<1>5. free' = [free EXCEPT ![s] = free[s] + 1]
  BY DEF Release
<1> QED BY <1>1, <1>3, <1>4, <1>5

LEMMA FreeInputInv == Inv /\ FreeInput => Inv'
<1> SUFFICES ASSUME Inv, FreeInput PROVE Inv'
  OBVIOUS
<1> USE DEF FreeInput, plan, search
<1>0. PICK arg, s, read : arg = g.inputs[nid][ipair] /\ s = storage[arg] /\ read = <<nid, ipair>>
  OBVIOUS
<1>1. /\ pc = "free" /\ pc' = "free" /\ nid' = nid /\ ipair' = ipair + 1
      /\ nid \in Nodes(g) /\ nid \in Nat /\ nid < g.num_nodes
      /\ ipair \in InputPositions(g, nid) /\ ipair \in Nat
  BY GraphFacts DEF Inv, PlannerInv, TypeOK, InTurn, Nodes
<1>2. UNCHANGED <<g, storage, value, taken, todo, num_data, best>>
  OBVIOUS
<1>3. Placed' = Placed /\ Storages' = Storages
  BY <1>2 DEF Placed, Storages
<1>4. \A u \in AllUses(g) : Freed(u)' <=> Freed(u) \/ u = read
  <2> SUFFICES ASSUME NEW u \in AllUses(g) PROVE Freed(u)' <=> Freed(u) \/ u = read
    OBVIOUS
  <2>1. u[2] \in Nat /\ u = <<u[1], u[2]>> /\ u[1] \in Int
    BY GraphFacts, UsesFollowSource DEF Inv
  <2>2. u = read <=> u[1] = nid /\ u[2] = ipair
    BY <1>0, <2>1
  <2> QED BY <1>1, <2>1, <2>2 DEF Freed
<1>5. \A t : Waiting(t)' = Waiting(t) \ {read}
  BY <1>2, <1>4 DEF Waiting
<1>6. InTurn'
  BY <1>1, <1>2 DEF Inv, PlannerInv, InTurn
<1>7. PlacedInOrder' /\ PlanIsSafe' /\ PublishedPlanIsSafe'
  BY <1>1, <1>2, <1>3 DEF Inv, PlannerInv, PlacedInOrder, PlanIsSafe, PublishedPlanIsSafe
<1>8. ReadsAgree'
  <2> SUFFICES ASSUME NEW t \in Storages, NEW u \in Waiting(t), NEW w \in Waiting(t)
               PROVE  \/ value[UsedEntry(g, u)] = value[UsedEntry(g, w)]
                      \/ Overwritten(u, w) \/ Overwritten(w, u)
    BY <1>1, <1>2, <1>3, <1>5 DEF ReadsAgree, Overwritten
  <2> QED BY DEF Inv, PlannerInv, ReadsAgree
<1>9. CASE HasCount(ipair)
  <2>1. /\ read \in AllUses(g) /\ UsedEntry(g, read) = arg /\ arg \in Entries(g)
    BY <1>0, <1>1, <1>9, GraphFacts, ReadsAreUses DEF Inv, HasCount
  <2>2. s \in Storages /\ s \in Entries(g)
    <3>1. s >= 0
      BY <1>0, <1>9 DEF HasCount
    <3>2. s \in {-1} \cup 0 .. num_data - 1
      BY <1>0, <2>1 DEF Inv, PlannerInv, TypeOK, kBadStorageID
    <3>3. num_data \in 0 .. g.num_entries /\ g.num_entries \in Nat
      BY GraphFacts DEF Inv, PlannerInv, TypeOK
    <3> QED BY <3>1, <3>2, <3>3 DEF Storages, Entries
  <2>3. read \in Waiting(s)
    BY <1>0, <1>1, <2>1 DEF Waiting, Freed
  <2>4. \A t \in Storages \ {s} : Waiting(t)' = Waiting(t)
    BY <1>0, <1>5, <2>1 DEF Waiting
  <2>5. /\ Cardinality(Waiting(s)') = Cardinality(Waiting(s)) - 1
        /\ Cardinality(Waiting(s)) \in Nat \ {0}
        /\ IsFiniteSet(Waiting(s)')
    <3>1. Waiting(s)' = Waiting(s) \ {read}
      BY <1>5
    <3>2. IsFiniteSet(Waiting(s)) /\ Cardinality(Waiting(s)) \in Nat /\ Cardinality(Waiting(s)) # 0
      BY <2>3, WaitingFacts
    <3>3. /\ IsFiniteSet(Waiting(s) \ {read})
          /\ Cardinality(Waiting(s) \ {read}) = Cardinality(Waiting(s)) - 1
      BY <2>3, <3>2, FS_RemoveElement
    <3> QED BY <3>1, <3>2, <3>3
  <2>6. storage_ref_count[s] = Cardinality(Waiting(s))
    BY <2>2 DEF Inv, PlannerInv, RefCountsWaitingUses
  <2>7. /\ storage_ref_count' = [storage_ref_count EXCEPT ![s] = storage_ref_count[s] - 1]
        /\ IF storage_ref_count[s] = 1 THEN Release(s) ELSE UNCHANGED <<data, free>>
    BY <1>0, <1>9
  <2>8. storage_ref_count' \in [Entries(g) -> Nat]
    <3>1. storage_ref_count \in [Entries(g) -> Nat]
      BY DEF Inv, PlannerInv, TypeOK
    <3>2. storage_ref_count[s] - 1 \in Nat
      BY <2>5, <2>6
    <3> QED BY <2>7, <3>1, <3>2
  <2>9. RefCountsWaitingUses'
    <3> SUFFICES ASSUME NEW t \in Storages PROVE storage_ref_count'[t] = Cardinality(Waiting(t)')
      BY <1>3 DEF RefCountsWaitingUses
    <3>1. t \in Entries(g)
      BY GraphFacts DEF Inv, PlannerInv, TypeOK, Storages, Entries
    <3>2. CASE t = s
      BY <3>1, <3>2, <2>5, <2>6, <2>7 DEF Inv, PlannerInv, TypeOK
    <3>3. CASE t # s
      BY <3>1, <3>3, <2>4, <2>7 DEF Inv, PlannerInv, TypeOK, RefCountsWaitingUses
    <3> QED BY <3>2, <3>3
  <2>10. free[s] = 0
    <3>1. free[s] \in Nat
      BY <2>2 DEF Inv, PlannerInv, TypeOK
    <3>2. free[s] <= 1 /\ free[s] # 1
      BY <2>2, <2>3 DEF Inv, PlannerInv, FreeIsUnused
    <3> QED BY <3>1, <3>2
  <2>11. /\ data' \in [Entries(g) -> [device_id : Nat, max_bytes : Nat, released_by_node : Nodes(g)]]
         /\ free' \in [Entries(g) -> Nat]
         /\ \A t \in Entries(g) \ {s} : free'[t] = free[t]
         /\ free'[s] = IF storage_ref_count[s] = 1 THEN 1 ELSE 0
    <3>1. CASE storage_ref_count[s] = 1
      BY <1>1, <2>2, <2>7, <2>10, <3>1, ReleaseType
    <3>2. CASE storage_ref_count[s] # 1
      BY <2>2, <2>7, <2>10, <3>2 DEF Inv, PlannerInv, TypeOK
    <3> QED BY <3>1, <3>2
  <2>12. storage_ref_count[s] = 1 => Waiting(s)' = {}
    BY <2>5, <2>6, FS_EmptySet
  <2>13. TypeOK'
    BY <1>1, <1>2, <2>8, <2>11 DEF Inv, PlannerInv, TypeOK
  <2>14. FreeIsUnused'
    <3> SUFFICES ASSUME NEW t \in Storages
                 PROVE  free'[t] <= 1 /\ (free'[t] = 1 => Waiting(t)' = {})
      BY <1>3 DEF FreeIsUnused
    <3>1. t \in Entries(g)
      BY GraphFacts DEF Inv, PlannerInv, TypeOK, Storages, Entries
    <3>2. CASE t = s
      BY <3>2, <2>11, <2>12
    <3>3. CASE t # s
      BY <3>1, <3>3, <2>4, <2>11 DEF Inv, PlannerInv, FreeIsUnused
    <3> QED BY <3>2, <3>3
  <2>15. StoragesPlaced'
    BY <1>2, <1>3, <2>2, <2>11 DEF Inv, PlannerInv, StoragesPlaced
  <2>16. OutputsHeld'
    <3> SUFFICES ASSUME NEW o \in OutputsOf(g, nid) \cap Placed
                 PROVE  /\ free'[storage[o]] = 0
                        /\ Uses(g, o) = {} =>
                             /\ Waiting(storage[o])' = {}
                             /\ \A p \in OutputsOf(g, nid) : storage[p] = storage[o] => p = o
      BY <1>1, <1>2, <1>3 DEF OutputsHeld
    <3>1. /\ free[storage[o]] = 0
          /\ Uses(g, o) = {} =>
               /\ Waiting(storage[o]) = {}
               /\ \A p \in OutputsOf(g, nid) : storage[p] = storage[o] => p = o
      BY <1>1 DEF Inv, PlannerInv, OutputsHeld
    <3>2. Waiting(storage[o])' \subseteq Waiting(storage[o])
      BY <1>2, <1>4 DEF Waiting
    <3>3. storage[o] \in Entries(g)
      <4>1. storage[o] >= 0 /\ storage[o] \in {-1} \cup 0 .. num_data - 1
        BY DEF Inv, PlannerInv, TypeOK, Placed, kBadStorageID
      <4>2. num_data \in 0 .. g.num_entries /\ g.num_entries \in Nat
        BY GraphFacts DEF Inv, PlannerInv, TypeOK
      <4> QED BY <4>1, <4>2 DEF Entries
    <3>4. CASE storage[o] # s
      BY <3>1, <3>2, <3>3, <3>4, <2>11
    <3>5. CASE storage[o] = s
      <4>1. Uses(g, o) # {}
        BY <3>1, <3>5, <2>3
      <4>2. PICK u \in Uses(g, o) : u \in AllUses(g) /\ UsedEntry(g, u) = o /\ u[1] > nid /\ ~Freed(u)
        BY <4>1, OutputReadsWait
      <4>3. u # read
        BY <4>2, <1>0, <1>1
      <4>4. u \in Waiting(s)
        BY <4>2, <3>5 DEF Waiting
      <4>5. Waiting(s)' # {}
        BY <4>3, <4>4, <1>5
      <4> QED BY <4>1, <4>5, <3>5, <2>11, <2>12
    <3> QED BY <3>4, <3>5
  <2> QED BY <1>2, <1>6, <1>7, <1>8, <2>9, <2>13, <2>14, <2>15, <2>16 DEF Inv, PlannerInv
<1>10. CASE ~HasCount(ipair)
  <2>1. UNCHANGED <<storage_ref_count, data, free>>
    BY <1>10
  <2>2. \A t \in Storages : Waiting(t)' = Waiting(t)
    <3> SUFFICES ASSUME NEW t \in Storages PROVE read \notin Waiting(t)
      BY <1>5
    <3>1. CASE ipair \in g.ignored[nid]
      <4>1. read \notin AllUses(g)
        <5> SUFFICES ASSUME read \in AllUses(g) PROVE FALSE
          OBVIOUS
        <5>1. read[1] = nid /\ read[2] = ipair
          BY <1>0
        <5>2. read[2] \in InputPositions(g, read[1]) \ g.ignored[read[1]]
          BY <5>1, <1>1, GraphFacts, UsesFollowSource DEF Inv
        <5> QED BY <3>1, <5>1, <5>2
      <4> QED BY <4>1 DEF Waiting
    <3>2. CASE ipair \notin g.ignored[nid]
      <4>1. ~(storage[arg] >= 0) /\ UsedEntry(g, read) = arg
        BY <3>2, <1>0, <1>1, <1>10, GraphFacts, ReadsAreUses DEF Inv, HasCount
      <4>2. storage[arg] # t
        BY <4>1 DEF Storages
      <4> QED BY <4>1, <4>2 DEF Waiting
    <3> QED BY <3>1, <3>2
  <2>3. TypeOK'
    BY <1>1, <1>2, <2>1 DEF Inv, PlannerInv, TypeOK
  <2>4. StoragesPlaced' /\ RefCountsWaitingUses' /\ FreeIsUnused'
    BY <1>2, <1>3, <2>1, <2>2
       DEF Inv, PlannerInv, StoragesPlaced, RefCountsWaitingUses, FreeIsUnused
  <2>5. OutputsHeld'
    <3>1. \A t : Waiting(t)' \subseteq Waiting(t)
      BY <1>5
    <3>2. \A o : Waiting(storage[o])' \subseteq Waiting(storage[o])
      BY <1>2, <1>4 DEF Waiting
    <3> QED BY <1>1, <1>2, <1>3, <2>1, <3>2 DEF Inv, PlannerInv, OutputsHeld
  <2> QED BY <1>2, <1>6, <1>7, <1>8, <2>3, <2>4, <2>5 DEF Inv, PlannerInv
<1> QED BY <1>9, <1>10

LEMMA SweepOutputInv ==
  ASSUME Inv, NEW e \in todo, SweepOutput(e) PROVE Inv'
<1> USE DEF SweepOutput, search
<1>0. PICK s : s = storage[e]
  OBVIOUS
<1>1. /\ pc = "sweep" /\ pc' = "sweep" /\ nid' = nid /\ todo' = todo \ {e}
      /\ nid \in Nodes(g) /\ nid \in Nat
      /\ e \in OutputsOf(g, nid) /\ e \in Entries(g)
  BY GraphFacts DEF Inv, PlannerInv, TypeOK, InTurn, OutputsOf
<1>2. UNCHANGED <<g, storage, storage_ref_count, value, taken, num_data, best>>
  OBVIOUS
<1>3. Placed' = Placed /\ Storages' = Storages
  BY <1>2 DEF Placed, Storages
<1>4. \A u \in AllUses(g) : Freed(u)' <=> Freed(u)
  BY <1>1 DEF Freed
<1>5. \A t : Waiting(t)' = Waiting(t)
  BY <1>2, <1>4 DEF Waiting
<1>6. InTurn'
  BY <1>1, <1>2 DEF Inv, PlannerInv, InTurn
<1>7. PlacedInOrder' /\ PlanIsSafe' /\ PublishedPlanIsSafe'
  BY <1>1, <1>2, <1>3 DEF Inv, PlannerInv, PlacedInOrder, PlanIsSafe, PublishedPlanIsSafe
<1>8. ReadsAgree'
  BY <1>1, <1>2, <1>3, <1>5 DEF Inv, PlannerInv, ReadsAgree, Overwritten
<1>9. RefCountsWaitingUses'
  BY <1>2, <1>3, <1>5 DEF Inv, PlannerInv, RefCountsWaitingUses
<1>10. /\ num_not_allocated' \in Nat
       /\ storage_inplace_index' \in [Entries(g) -> {NotTouched, -1} \cup (Nat \ {0})]
  BY <1>1 DEF Inv, PlannerInv, TypeOK
<1>11. \A o \in OutputsOf(g, nid) \cap Placed :
         /\ Waiting(storage[o])' = Waiting(storage[o])
         /\ o \in todo =>
              /\ free[storage[o]] = 0
              /\ Uses(g, o) = {} =>
                   /\ Waiting(storage[o]) = {}
                   /\ \A p \in OutputsOf(g, nid) : storage[p] = storage[o] => p = o
  BY <1>1, <1>2, <1>4 DEF Inv, PlannerInv, OutputsHeld, Waiting
<1>12. CASE s >= 0 /\ storage_ref_count[s] = 0
  <2>1. Release(s)
    BY <1>0, <1>12
  <2>2. s \in Storages /\ s \in Entries(g) /\ e \in Placed
    <3>1. s \in {-1} \cup 0 .. num_data - 1
      BY <1>0, <1>1 DEF Inv, PlannerInv, TypeOK, kBadStorageID
    <3>2. num_data \in 0 .. g.num_entries /\ g.num_entries \in Nat
      BY GraphFacts DEF Inv, PlannerInv, TypeOK
    <3> QED BY <1>0, <1>1, <1>12, <3>1, <3>2 DEF Storages, Entries, Placed
  <2>3. Waiting(s) = {}
    BY <1>12, <2>2, WaitingFacts DEF Inv, PlannerInv, RefCountsWaitingUses
  <2>4. free[s] = 0
    BY <1>0, <1>1, <1>11, <2>2
  <2>5. /\ data' \in [Entries(g) -> [device_id : Nat, max_bytes : Nat, released_by_node : Nodes(g)]]
        /\ free' \in [Entries(g) -> Nat]
        /\ free'[s] = 1
        /\ \A t \in Entries(g) \ {s} : free'[t] = free[t]
    BY <1>1, <2>1, <2>2, <2>4, ReleaseType
  <2>6. TypeOK'
    BY <1>1, <1>2, <1>10, <2>5 DEF Inv, PlannerInv, TypeOK
  <2>7. FreeIsUnused'
    <3> SUFFICES ASSUME NEW t \in Storages
                 PROVE  free'[t] <= 1 /\ (free'[t] = 1 => Waiting(t) = {})
      BY <1>3, <1>5 DEF FreeIsUnused
    <3>1. t \in Entries(g)
      BY GraphFacts DEF Inv, PlannerInv, TypeOK, Storages, Entries
    <3>2. CASE t = s
      BY <3>2, <2>3, <2>5
    <3>3. CASE t # s
      BY <3>1, <3>3, <2>5 DEF Inv, PlannerInv, FreeIsUnused
    <3> QED BY <3>2, <3>3
  <2>8. StoragesPlaced'
    BY <1>2, <1>3, <2>2, <2>5 DEF Inv, PlannerInv, StoragesPlaced
  <2>9. OutputsHeld'
    <3> SUFFICES ASSUME NEW o \in OutputsOf(g, nid) \cap Placed, o \in todo, o # e
                 PROVE  /\ free'[storage[o]] = 0
                        /\ Uses(g, o) = {} =>
                             /\ Waiting(storage[o])' = {}
                             /\ \A p \in OutputsOf(g, nid) : storage[p] = storage[o] => p = o
      BY <1>1, <1>2, <1>3 DEF OutputsHeld
    <3>1. storage[o] # s
      <4> SUFFICES ASSUME storage[o] = s PROVE FALSE
        OBVIOUS
      <4>1. CASE Uses(g, o) = {}
        BY <4>1, <1>0, <1>1, <1>11
      <4>2. CASE Uses(g, o) # {}
        <5>1. PICK u \in Uses(g, o) : u \in AllUses(g) /\ UsedEntry(g, u) = o /\ ~Freed(u)
          BY <4>2, OutputReadsWait
        <5>2. u \in Waiting(s)
          BY <5>1 DEF Waiting
        <5> QED BY <5>2, <2>3
      <4> QED BY <4>1, <4>2
    <3>2. storage[o] \in Entries(g)
      <4>1. storage[o] >= 0 /\ storage[o] \in {-1} \cup 0 .. num_data - 1
        BY DEF Inv, PlannerInv, TypeOK, Placed, kBadStorageID
      <4>2. num_data \in 0 .. g.num_entries /\ g.num_entries \in Nat
        BY GraphFacts DEF Inv, PlannerInv, TypeOK
      <4> QED BY <4>1, <4>2 DEF Entries
    <3> QED BY <3>1, <3>2, <1>11, <2>5
  <2> QED BY <1>2, <1>6, <1>7, <1>8, <1>9, <2>6, <2>7, <2>8, <2>9 DEF Inv, PlannerInv
<1>13. CASE ~(s >= 0 /\ storage_ref_count[s] = 0)
  <2>1. UNCHANGED <<data, free>>
    BY <1>0, <1>13
  <2>2. TypeOK'
    BY <1>1, <1>2, <1>10, <2>1 DEF Inv, PlannerInv, TypeOK
  <2>3. FreeIsUnused' /\ StoragesPlaced'
    BY <1>2, <1>3, <1>5, <2>1 DEF Inv, PlannerInv, FreeIsUnused, StoragesPlaced
  <2>4. OutputsHeld'
    BY <1>1, <1>2, <1>3, <1>11, <2>1 DEF OutputsHeld
  <2> QED BY <1>2, <1>6, <1>7, <1>8, <1>9, <2>2, <2>3, <2>4 DEF Inv, PlannerInv
<1> QED BY <1>12, <1>13

-----------------------------------------------------------------------------
(* Sharing an argument's storage in place.                                 *)

LEMMA ShareInplaceInv == Inv /\ ShareInplace => Inv'
<1> SUFFICES ASSUME Inv, ShareInplace PROVE Inv'
  OBVIOUS
<1> USE DEF kBadStorageID
<1>0. PICK pair, in, out, s, read :
        /\ pair = g.inplace[nid][ipair] /\ in = g.inputs[nid][pair.in]
        /\ out = pair.out /\ s = storage[in] /\ read = <<nid, pair.in>>
  OBVIOUS
<1>1. /\ pc = "node" /\ nid \in Nodes(g) /\ nid \in Nat
      /\ pair.in \in Nat \ {0} /\ pair.in \notin taken
      /\ out \in OutputsOf(g, nid) /\ out \in Entries(g)
      /\ storage[out] = -1 /\ Uses(g, out) # {}
      /\ in \in Entries(g) /\ s \in Storages /\ s \in Entries(g)
      /\ read \in Waiting(s) /\ UsedEntry(g, read) = in
      /\ storage_ref_count[s] = 1 => Waiting(s) = {read}
  <2>1. /\ pc = "node" /\ nid \in Nodes(g) /\ nid \in Nat
        /\ ipair \in DOMAIN g.inplace[nid] /\ CanRunInplace(pair)
    <3>1. AtPair /\ CanRunInplace(pair)
      BY <1>0 DEF ShareInplace
    <3>2. nid \in Nat
      BY GraphFacts DEF Inv, PlannerInv, TypeOK
    <3> QED BY <3>1, <3>2 DEF AtPair
  <2>2. /\ pair.in \in InputPositions(g, nid) \ g.ignored[nid]
        /\ out \in OutputsOf(g, nid)
    BY <1>0, <2>1, GraphFacts DEF Inv, WellFormed, InplaceOptions
  <2>3. pair.in \in Nat \ {0} /\ out \in Entries(g)
    BY <2>1, <2>2, GraphFacts DEF Inv, InputPositions, OutputsOf
  <2>4. /\ pair.in \notin taken
        /\ storage[out] = -1 /\ s >= 0
        /\ EntryRefCount(out) > 0
    BY <1>0, <2>1 DEF CanRunInplace, kBadStorageID
  <2>5. Uses(g, out) # {}
    <3>1. EntryRefCount(out) # 0
      BY <2>4
    <3>2. g \in Graphs
      BY DEF Inv
    <3> QED BY <3>1, <3>2, GraphFacts
  <2>6. read \in AllUses(g) /\ UsedEntry(g, read) = in /\ in \in Entries(g)
    <3>1. WellFormed(g)
      BY GraphFacts DEF Inv
    <3>2. /\ <<nid, pair.in>> \in AllUses(g)
          /\ UsedEntry(g, <<nid, pair.in>>) = g.inputs[nid][pair.in]
          /\ g.inputs[nid][pair.in] \in Entries(g)
      BY <2>1, <2>2, <3>1, ReadsAreUses
    <3> QED BY <1>0, <3>2
  <2>7. s \in Storages /\ s \in Entries(g)
    <3>1. s \in {-1} \cup 0 .. num_data - 1
      BY <1>0, <2>6 DEF Inv, PlannerInv, TypeOK, kBadStorageID
    <3>2. num_data \in 0 .. g.num_entries /\ g.num_entries \in Nat
      BY GraphFacts DEF Inv, PlannerInv, TypeOK
    <3>3. s >= 0
      BY <2>4
    <3> QED BY <3>1, <3>2, <3>3 DEF Storages, Entries
  <2>8. read \in Waiting(s)
    <3>1. read[1] = nid
      BY <1>0
    <3>2. ~Freed(read)
      BY <2>1, <3>1 DEF Freed
    <3> QED BY <1>0, <2>6, <3>2 DEF Waiting
  <2>9. ASSUME storage_ref_count[s] = 1 PROVE Waiting(s) = {read}
    <3>1. Cardinality(Waiting(s)) = 1
      BY <2>7, <2>9 DEF Inv, PlannerInv, RefCountsWaitingUses
    <3>2. IsFiniteSet(Waiting(s))
      BY WaitingFacts
    <3>3. /\ IsFiniteSet(Waiting(s) \ {read})
          /\ Cardinality(Waiting(s) \ {read}) = Cardinality(Waiting(s)) - 1
      BY <2>8, <3>2, FS_RemoveElement
    <3>4. Cardinality(Waiting(s) \ {read}) = 0
      BY <3>1, <3>3
    <3>5. Waiting(s) \ {read} = {}
      BY <3>3, <3>4, FS_EmptySet
    <3> QED BY <2>8, <3>5
  <2> QED BY <2>1, <2>2, <2>3, <2>4, <2>5, <2>6, <2>7, <2>8, <2>9
<1>2. /\ UNCHANGED <<g, pc, nid, todo, num_not_allocated, num_data, data, free, match_range, best>>
      /\ ipair' = ipair + 1
      /\ ipair \in DOMAIN g.inplace[nid]
      /\ taken' = taken \cup {pair.in}
      /\ storage' = [storage EXCEPT ![out] = s]
      /\ storage_ref_count' = [storage_ref_count EXCEPT ![s] = storage_ref_count[s] + EntryRefCount(out)]
      /\ storage_inplace_index' = [storage_inplace_index EXCEPT ![out] = pair.in]
  BY <1>0 DEF ShareInplace, AtPair, search
<1>20. LET shared == [value EXCEPT ![out] = value[in]]
       IN /\ value' = shared \/ value' = value
          /\ Waiting(s) = {read} \/ value' = shared
  <2>1. storage_ref_count[s] = 1 \/ pair.identity
    BY <1>0 DEF ShareInplace, CanRunInplace
  <2>2. /\ pair.identity => value' = [value EXCEPT ![out] = value[in]]
        /\ ~pair.identity => value' = value
    BY <1>0 DEF ShareInplace
  <2> QED BY <1>1, <2>1, <2>2, Zenon
<1>3. TypeOK'
  <2>1. storage \in [Entries(g) -> {-1} \cup 0 .. num_data - 1] /\ s \in 0 .. num_data - 1
    BY <1>1 DEF Inv, PlannerInv, TypeOK, Storages
  <2>2. storage' \in [Entries(g) -> {-1} \cup 0 .. num_data - 1]
    BY <2>1, <1>2
  <2>3. storage_ref_count \in [Entries(g) -> Nat] /\ EntryRefCount(out) \in Nat
    BY GraphFacts DEF Inv, PlannerInv, TypeOK
  <2>4. storage_ref_count' \in [Entries(g) -> Nat]
    BY <2>3, <1>1, <1>2
  <2>5. storage_inplace_index' \in [Entries(g) -> {NotTouched, -1} \cup (Nat \ {0})]
    <3>1. storage_inplace_index \in [Entries(g) -> {NotTouched, -1} \cup (Nat \ {0})]
      BY DEF Inv, PlannerInv, TypeOK
    <3>2. pair.in \in {NotTouched, -1} \cup (Nat \ {0})
      BY <1>1
    <3> QED BY <3>1, <3>2, <1>2
  <2>6. value' \in [Entries(g) -> Entries(g)]
    <3>1. value \in [Entries(g) -> Entries(g)]
      BY DEF Inv, PlannerInv, TypeOK
    <3> QED BY <3>1, <1>1, <1>20
  <2>7. ipair' \in Nat \ {0} /\ taken' \subseteq Nat
    <3>1. ipair \in Nat \ {0} /\ taken \subseteq Nat
      BY DEF Inv, PlannerInv, TypeOK
    <3>2. ipair' = ipair + 1 /\ taken' = taken \cup {pair.in}
      BY <1>2
    <3>3. pair.in \in Nat
      BY <1>1
    <3>4. ipair' \in Nat \ {0}
      BY <3>1, <3>2
    <3>5. taken' \subseteq Nat
      BY <3>1, <3>2, <3>3, Zenon
    <3> QED BY <3>4, <3>5
  <2> QED BY <1>2, <2>2, <2>4, <2>5, <2>6, <2>7 DEF Inv, PlannerInv, TypeOK
<1>4. \A x \in Entries(g) : /\ storage'[x] = IF x = out THEN s ELSE storage[x]
                            /\ x # out => value'[x] = value[x]
  BY <1>1, <1>2, <1>20 DEF Inv, PlannerInv, TypeOK
<1>5. \A u \in AllUses(g) : /\ UsedEntry(g, u) \in Entries(g)
                            /\ Freed(u)' <=> Freed(u)
                            /\ Freed(u) <=> u[1] < nid
  BY <1>1, <1>2, GraphFacts, UsesFollowSource DEF Inv, Freed
<1>6. \A u \in Uses(g, out) : u \in AllUses(g) /\ UsedEntry(g, u) = out /\ u[1] > nid /\ ~Freed(u)
  BY <1>1, OutputReadsWait
<1>7. \A t \in Storages : Waiting(t)' = IF t = s THEN Waiting(s) \cup Uses(g, out) ELSE Waiting(t)
  <2> SUFFICES ASSUME NEW t \in Storages
               PROVE  Waiting(t)' = IF t = s THEN Waiting(s) \cup Uses(g, out) ELSE Waiting(t)
    OBVIOUS
  <2>1. Waiting(t)' = {u \in AllUses(g) : storage'[UsedEntry(g, u)] = t /\ ~Freed(u)}
    BY <1>2, <1>5 DEF Waiting
  <2>2. \A u \in AllUses(g) :
          storage'[UsedEntry(g, u)] = t
            <=> storage[UsedEntry(g, u)] = t \/ (t = s /\ UsedEntry(g, u) = out)
    <3>1. t # -1
      BY DEF Storages
    <3> QED BY <3>1, <1>1, <1>4, <1>5
  <2>3. CASE t = s
    BY <2>1, <2>2, <2>3, <1>6 DEF Waiting, Uses
  <2>4. CASE t # s
    BY <2>1, <2>2, <2>4 DEF Waiting
  <2> QED BY <2>3, <2>4
<1>8. \A u \in Waiting(s) : u = read \/ value[UsedEntry(g, u)] = value'[out]
  <2> SUFFICES ASSUME NEW u \in Waiting(s), u # read
               PROVE  value[UsedEntry(g, u)] = value'[out]
    OBVIOUS
  <2>1. value' = [value EXCEPT ![out] = value[in]]
    BY <1>20
  <2>2. value'[out] = value[in]
    BY <1>1, <2>1 DEF Inv, PlannerInv, TypeOK
  <2>3. \/ value[UsedEntry(g, u)] = value[UsedEntry(g, read)]
        \/ Overwritten(u, read) \/ Overwritten(read, u)
    BY <1>1 DEF Inv, PlannerInv, ReadsAgree
  <2>4. read[1] = nid /\ read[2] = pair.in
    BY <1>0
  <2> QED BY <1>1, <2>2, <2>3, <2>4 DEF Overwritten
<1>9. Storages' = Storages /\ Placed' = Placed \cup {out} /\ out \in Entries(g) \ Placed
  <2>1. Placed' = {x \in Entries(g) : storage'[x] >= 0}
    BY <1>2 DEF Placed
  <2>2. \A x \in Entries(g) : storage'[x] >= 0 <=> storage[x] >= 0 \/ x = out
    BY <1>1, <1>4 DEF Storages
  <2>3. ~(storage[out] >= 0)
    BY <1>1
  <2> QED BY <1>1, <1>2, <2>1, <2>2, <2>3 DEF Placed, Storages
<1>10. InTurn'
  BY <1>1, <1>2 DEF InTurn
<1>11. PlacedInOrder'
  BY <1>1, <1>2, <1>9 DEF Inv, PlannerInv, PlacedInOrder, OutputsOf
<1>12. StoragesPlaced'
  <2>1. Cardinality(Placed') = Cardinality(Placed) + 1 /\ Cardinality(Placed) \in Nat
    BY <1>9, PlacedFinite
  <2>2. num_data <= Cardinality(Placed) /\ num_data \in Nat
    BY GraphFacts DEF Inv, PlannerInv, StoragesPlaced, TypeOK
  <2>3. \A t \in Entries(g) \ Storages : free[t] = 0
    BY DEF Inv, PlannerInv, StoragesPlaced
  <2> QED BY <1>2, <1>9, <2>1, <2>2, <2>3 DEF StoragesPlaced
<1>13. RefCountsWaitingUses'
  <2> SUFFICES ASSUME NEW t \in Storages PROVE storage_ref_count'[t] = Cardinality(Waiting(t)')
    BY <1>9 DEF RefCountsWaitingUses
  <2>1. CASE t = s
    <3>1. Waiting(s) \cap Uses(g, out) = {}
      BY <1>1 DEF Waiting, Uses, Storages
    <3>2. IsFiniteSet(Waiting(s)) /\ IsFiniteSet(Uses(g, out))
      BY WaitingFacts, GraphFacts DEF Inv
    <3>3. Cardinality(Waiting(s)) \in Nat /\ EntryRefCount(out) \in Nat
      BY WaitingFacts, GraphFacts DEF Inv
    <3>4. Cardinality(Waiting(s) \cup Uses(g, out)) =
            Cardinality(Waiting(s)) + Cardinality(Uses(g, out)) - Cardinality(Waiting(s) \cap Uses(g, out))
      BY <3>2, FS_Union
    <3>5. Cardinality(Waiting(s) \cup Uses(g, out)) = Cardinality(Waiting(s)) + EntryRefCount(out)
      BY <3>1, <3>3, <3>4, FS_EmptySet DEF EntryRefCount
    <3>6. storage_ref_count[s] = Cardinality(Waiting(s))
      BY <1>1 DEF Inv, PlannerInv, RefCountsWaitingUses
    <3>7. storage_ref_count'[s] = storage_ref_count[s] + EntryRefCount(out)
      BY <1>1, <1>2 DEF Inv, PlannerInv, TypeOK
    <3> QED BY <2>1, <3>5, <3>6, <3>7, <1>7
  <2>2. CASE t # s
    BY <2>2, <1>2, <1>7 DEF Inv, PlannerInv, TypeOK, RefCountsWaitingUses
  <2> QED BY <2>1, <2>2
<1>14. free[s] = 0
  <2>1. free[s] \in Nat
    BY <1>1 DEF Inv, PlannerInv, TypeOK
  <2>2. free[s] <= 1 /\ free[s] # 1
    BY <1>1 DEF Inv, PlannerInv, FreeIsUnused
  <2> QED BY <2>1, <2>2
<1>15. FreeIsUnused'
  BY <1>2, <1>7, <1>9, <1>14 DEF Inv, PlannerInv, FreeIsUnused
<1>16. OutputsHeld'
  <2> SUFFICES ASSUME NEW o \in OutputsOf(g, nid) \cap Placed'
               PROVE  free[storage'[o]] = 0 /\ Uses(g, o) # {}
    BY <1>1, <1>2 DEF OutputsHeld
  <2>1. CASE o = out
    BY <2>1, <1>1, <1>4, <1>14
  <2>2. CASE o # out
    BY <2>2, <1>1, <1>4, <1>9 DEF Inv, PlannerInv, OutputsHeld, Placed
  <2> QED BY <2>1, <2>2
<1>17. ReadsAgree'
  <2> DEFINE Agree(u, w) == \/ value'[UsedEntry(g, u)] = value'[UsedEntry(g, w)]
                            \/ Overwritten(u, w)' \/ Overwritten(w, u)'
  <2> SUFFICES ASSUME NEW t \in Storages, NEW u \in Waiting(t)', NEW w \in Waiting(t)'
               PROVE  Agree(u, w)
    BY <1>2, <1>9 DEF ReadsAgree
  <2>1. \A x \in Waiting(t) : UsedEntry(g, x) \in Entries(g) /\ UsedEntry(g, x) # out
    BY <1>1, <1>5 DEF Waiting, Storages
  <2>2. ASSUME NEW x \in Waiting(t), NEW y \in Waiting(t) PROVE Agree(x, y)
    <3>1. \/ value[UsedEntry(g, x)] = value[UsedEntry(g, y)]
          \/ Overwritten(x, y) \/ Overwritten(y, x)
      BY DEF Inv, PlannerInv, ReadsAgree
    <3>2. /\ Overwritten(x, y) => Overwritten(x, y)'
          /\ Overwritten(y, x) => Overwritten(y, x)'
      BY <1>2 DEF Overwritten
    <3> QED BY <2>1, <3>1, <3>2, <1>4
  <2>3. ASSUME t = s, NEW x \in Waiting(s), NEW y \in Uses(g, out)
        PROVE  value'[UsedEntry(g, x)] = value'[UsedEntry(g, y)] \/ Overwritten(x, y)'
    <3>1. CASE x = read
      <4>1. x[1] = nid /\ x[2] = pair.in /\ y[1] > nid
        BY <3>1, <1>0, <1>6
      <4> QED BY <4>1, <1>2 DEF Overwritten
    <3>2. CASE x # read
      BY <3>2, <2>1, <2>3, <1>4, <1>6, <1>8
    <3> QED BY <3>1, <3>2
  <2>4. CASE t # s
    BY <2>2, <2>4, <1>7
  <2>5. CASE t = s
    <3>1. u \in Waiting(s) \cup Uses(g, out) /\ w \in Waiting(s) \cup Uses(g, out)
      BY <2>5, <1>7
    <3>2. CASE u \in Uses(g, out) /\ w \in Uses(g, out)
      BY <3>2, <1>6
    <3> QED BY <2>2, <2>3, <2>5, <3>1, <3>2
  <2> QED BY <2>4, <2>5
<1>18. PlanIsSafe'
  <2> SUFFICES ASSUME NEW o \in Entries(g), NEW p \in Entries(g),
                      o # p, storage'[o] >= 0, storage'[p] = storage'[o],
                      g.source[p] <= g.source[o], NEW u \in Uses(g, p)
               PROVE  \/ u[1] < g.source[o]
                      \/ value'[p] = value'[o]
                      \/ /\ u[1] = g.source[o]
                         /\ \E i \in DOMAIN g.inplace[u[1]] :
                              g.inplace[u[1]][i].in = u[2] /\ g.inplace[u[1]][i].out = o
    BY <1>2 DEF PlanIsSafe, SafeStorage
  <2>1. g.source[out] = nid /\ u \in AllUses(g) /\ UsedEntry(g, u) = p
    BY <1>1 DEF OutputsOf, Uses
  <2>2. CASE o = out
    <3>1. storage[p] = s
      BY <2>2, <1>4
    <3>2. CASE u[1] < nid
      BY <2>1, <2>2, <3>2
    <3>3. CASE ~(u[1] < nid)
      <4>1. u \in Waiting(s)
        BY <2>1, <3>1, <3>3, <1>5 DEF Waiting
      <4>2. u = read \/ value'[p] = value'[o]
        BY <4>1, <2>1, <2>2, <1>4, <1>8
      <4>3. u = read => u[1] = nid /\ u[2] = pair.in
        BY <1>0
      <4> QED BY <4>2, <4>3, <2>1, <2>2, <1>0, <1>2
    <3> QED BY <3>2, <3>3
  <2>3. CASE p = out
    <3>1. o \in Placed /\ storage[o] = s
      BY <2>3, <1>4 DEF Placed
    <3>2. g.source[o] <= nid /\ g.source[o] \in Nat
      BY <3>1, GraphFacts DEF Inv, PlannerInv, PlacedInOrder, Nodes
    <3>3. o \in OutputsOf(g, nid)
      BY <2>1, <2>3, <3>2, <1>1 DEF OutputsOf
    <3>4. Uses(g, o) # {}
      BY <3>1, <3>3, <1>1 DEF Inv, PlannerInv, OutputsHeld
    <3>5. PICK w \in Uses(g, o) : w \in AllUses(g) /\ UsedEntry(g, w) = o /\ w[1] > nid /\ ~Freed(w)
      BY <3>3, <3>4, OutputReadsWait
    <3>6. w \in Waiting(s) /\ w # read
      <4>1. read[1] = nid
        BY <1>0
      <4>2. w # read
        BY <3>5, <4>1, <1>1
      <4> QED BY <3>1, <3>5, <4>2 DEF Waiting
    <3> QED BY <3>5, <3>6, <2>3, <1>4, <1>8
  <2>4. CASE o # out /\ p # out
    BY <2>4, <1>4 DEF Inv, PlannerInv, PlanIsSafe, SafeStorage
  <2> QED BY <2>2, <2>3, <2>4
<1>19. PublishedPlanIsSafe'
  BY <1>2 DEF Inv, PlannerInv, PublishedPlanIsSafe
<1> QED BY <1>2, <1>3, <1>10, <1>11, <1>12, <1>13, <1>15, <1>16, <1>17, <1>18, <1>19
        DEF Inv, PlannerInv

-----------------------------------------------------------------------------
(* The invariant holds in every reachable state.                           *)

LEMMA NextInv == Inv /\ [Next]_vars => Inv'
<1> SUFFICES ASSUME Inv, [Next]_vars PROVE Inv'
  OBVIOUS
<1>1. CASE StartRound
  BY <1>1, StartRoundInv
<1>2. CASE SkipVariable
  BY <1>2, SkipVariableInv
<1>3. CASE ShareInplace
  BY <1>3, ShareInplaceInv
<1>4. CASE SkipPair
  BY <1>4, SkipPairInv
<1>5. CASE SortOutputs
  BY <1>5, SortOutputsInv
<1>6. ASSUME NEW e \in todo, RequestShapeless(e) PROVE Inv'
  BY <1>6, RequestShapelessInv
<1>7. ASSUME NEW e \in todo, NEW s \in 0 .. num_data - 1, RequestReuse(e, s) PROVE Inv'
  BY <1>7, RequestReuseInv
<1>8. ASSUME NEW e \in todo, RequestAlloc(e) PROVE Inv'
  BY <1>8, RequestAllocInv
<1>9. CASE StartFreeing
  BY <1>9, StartFreeingInv
<1>10. CASE FreeInput
  BY <1>10, FreeInputInv
<1>11. CASE StartSweep
  BY <1>11, StartSweepInv
<1>12. ASSUME NEW e \in todo, SweepOutput(e) PROVE Inv'
  BY <1>12, SweepOutputInv
<1>13. CASE NextNode
  BY <1>13, NextNodeInv
<1>14. CASE EndRound
  BY <1>14, EndRoundInv
<1>15. CASE Return \/ Done \/ UNCHANGED vars
  BY <1>15, StandStillInv DEF Done
<1> QED
  BY <1>1, <1>2, <1>3, <1>4, <1>5, <1>6, <1>7, <1>8, <1>9, <1>10, <1>11, <1>12,
     <1>13, <1>14, <1>15 DEF Next

(* The planner keeps its inductive invariant, whatever the graph and the   *)
(* match range (AllocMemory and PlanMemory, plan_memory.cc:168-375).       *)
THEOREM PlannerInvariance == Spec => []PlannerInv
<1>1. Inv => PlannerInv
  BY DEF Inv
<1> QED BY <1>1, InitInv, NextInv, PTL DEF Spec

(* Storage ids, counts and sizes stay in range: storage_ref_count, with    *)
(* one slot per entry, is never indexed beyond its end and never below 0.  *)
THEOREM TypeCorrect == Spec => []TypeOK
<1>1. PlannerInv => TypeOK
  BY DEF PlannerInv
<1> QED BY <1>1, PlannerInvariance, PTL

(* storage_ref_count counts the reads still to come of each storage.       *)
THEOREM RefCountsCorrect == Spec => []RefCountsWaitingUses
<1>1. PlannerInv => RefCountsWaitingUses
  BY DEF PlannerInv
<1> QED BY <1>1, PlannerInvariance, PTL

(* What Request can hand out is dead and in the free list once.            *)
THEOREM FreeListCorrect == Spec => []FreeIsUnused
<1>1. PlannerInv => FreeIsUnused
  BY DEF PlannerInv
<1> QED BY <1>1, PlannerInvariance, PTL

(* No entry is overwritten while a read of its value is still to come, in  *)
(* the plan under construction and in the one published.                   *)
THEOREM PlansAreSafe == Spec => [](PlanIsSafe /\ PublishedPlanIsSafe)
<1>1. PlannerInv => PlanIsSafe /\ PublishedPlanIsSafe
  BY DEF PlannerInv
<1> QED BY <1>1, PlannerInvariance, PTL

-----------------------------------------------------------------------------
(* The accounts: sizes, the free list at the end of a round, and what was  *)
(* not allocated.                                                          *)

(* What each step's account reads of the invariant.                        *)
LEMMA AccountFacts ==
  ASSUME Inv
  PROVE  /\ g \in Graphs /\ TypeOK /\ InTurn
         /\ g.num_nodes \in Nat /\ g.num_entries \in Nat /\ nid \in Nat /\ num_data \in Nat
         /\ Storages \subseteq Entries(g)
         /\ \A e \in Entries(g) : /\ g.source[e] \in Nodes(g) /\ g.source[e] \in Nat
                                  /\ storage[e] = -1 \/ storage[e] \in Storages
                                  /\ Bytes(e) \in Nat
         /\ \A s \in Entries(g) : /\ free[s] \in Nat /\ storage_ref_count[s] \in Nat
                                  /\ data[s] \in [device_id : Nat, max_bytes : Nat,
                                                  released_by_node : Nodes(g)]
         /\ DOMAIN data = Entries(g) /\ DOMAIN free = Entries(g)
         /\ DOMAIN storage_ref_count = Entries(g) /\ DOMAIN storage = Entries(g)
         /\ -1 \notin Storages
         /\ \A n \in Nodes(g) : n \in Nat
<1>1. g \in Graphs /\ TypeOK /\ InTurn
  BY DEF Inv, PlannerInv
<1>2. /\ g.num_nodes \in Nat /\ g.num_entries \in Nat
      /\ \A e \in Entries(g) : g.source[e] \in Nodes(g) /\ g.size[e] \in Nat
  BY <1>1, GraphFacts
<1>3. nid \in Nat /\ num_data \in 0 .. g.num_entries
  BY <1>1, <1>2 DEF TypeOK
<1>4. Storages \subseteq Entries(g) /\ -1 \notin Storages
  BY <1>2, <1>3 DEF Storages, Entries
<1>5. \A e \in Entries(g) : storage[e] \in {-1} \cup Storages
  BY <1>1 DEF TypeOK, kBadStorageID, Storages
<1>6. \A e \in Entries(g) : g.source[e] \in Nat /\ Bytes(e) \in Nat
  BY <1>2 DEF Nodes, Bytes
<1>7. \A n \in Nodes(g) : n \in Nat
  BY <1>2 DEF Nodes
<1> QED BY <1>1, <1>2, <1>3, <1>4, <1>5, <1>6, <1>7 DEF TypeOK

(* The release of a storage leaves its size and device.                    *)
LEMMA ReleaseKeepsSize ==
  ASSUME Inv, NEW s \in Entries(g), Release(s)
  PROVE  \A t \in Entries(g) : /\ data'[t].max_bytes = data[t].max_bytes
                               /\ data'[t].device_id = data[t].device_id
<1> SUFFICES ASSUME NEW t \in Entries(g)
             PROVE  /\ data'[t].max_bytes = data[t].max_bytes
                    /\ data'[t].device_id = data[t].device_id
  OBVIOUS
<1>1. data' = [data EXCEPT ![s].released_by_node = nid]
  BY DEF Release
<1>2. data[t] \in [device_id : Nat, max_bytes : Nat, released_by_node : Nodes(g)]
  BY AccountFacts
<1>3. data'[t] = IF t = s THEN [data[t] EXCEPT !.released_by_node = nid] ELSE data[t]
  BY <1>1, AccountFacts
<1> QED BY <1>2, <1>3

(* Entries keep fitting when no storage shrinks or changes device.         *)
LEMMA StillFits ==
  ASSUME Inv, StorageFits, g' = g, storage' = storage,
         \A t \in Entries(g) : /\ data'[t].max_bytes = data[t].max_bytes
                               /\ data'[t].device_id = data[t].device_id
  PROVE  StorageFits'
<1> SUFFICES ASSUME NEW e \in Entries(g), storage[e] # kBadStorageID
             PROVE  /\ data'[storage[e]].max_bytes >= Bytes(e)
                    /\ data'[storage[e]].device_id = g.device[g.source[e]]
  BY DEF StorageFits, Bytes, kBadStorageID
<1>1. storage[e] \in Entries(g)
  BY AccountFacts DEF kBadStorageID
<1> QED BY <1>1 DEF StorageFits

LEMMA ReuseFits ==
  ASSUME Inv, StorageFits, NEW e \in todo, NEW s \in 0 .. num_data - 1, RequestReuse(e, s)
  PROVE  StorageFits'
<1>1. /\ e \in Entries(g) /\ g.source[e] = nid /\ s \in Storages /\ s \in Entries(g)
      /\ Bytes(e) \in Nat
  BY AccountFacts DEF RequestReuse, NextRequest, InTurn, OutputsOf, Storages
<1>2. /\ g' = g /\ storage' = [storage EXCEPT ![e] = s]
      /\ data' = [data EXCEPT ![s].max_bytes = std_max(@, Bytes(e))]
      /\ data[s].device_id = g.device[nid]
  <2>1. Matches(s, nid)
    BY DEF RequestReuse, BestFit
  <2> QED BY <2>1 DEF RequestReuse, NextRequest, search, Matches
<1>3. \A t \in Entries(g) :
        /\ data'[t].max_bytes >= data[t].max_bytes /\ data[t].max_bytes \in Nat
        /\ data'[t].max_bytes \in Nat
        /\ data'[t].device_id = data[t].device_id
        /\ t = s => data'[t].max_bytes >= Bytes(e)
  <2> SUFFICES ASSUME NEW t \in Entries(g)
               PROVE  /\ data'[t].max_bytes >= data[t].max_bytes /\ data[t].max_bytes \in Nat
                      /\ data'[t].max_bytes \in Nat
                      /\ data'[t].device_id = data[t].device_id
                      /\ t = s => data'[t].max_bytes >= Bytes(e)
    OBVIOUS
  <2>1. data[t] \in [device_id : Nat, max_bytes : Nat, released_by_node : Nodes(g)]
    BY AccountFacts
  <2>2. data'[t] = IF t = s THEN [data[t] EXCEPT !.max_bytes = std_max(data[t].max_bytes, Bytes(e))]
                   ELSE data[t]
    BY <1>1, <1>2, AccountFacts
  <2>3. data[t].max_bytes \in Nat
    BY <2>1
  <2>4. /\ std_max(data[t].max_bytes, Bytes(e)) >= data[t].max_bytes
        /\ std_max(data[t].max_bytes, Bytes(e)) >= Bytes(e)
        /\ std_max(data[t].max_bytes, Bytes(e)) \in Nat
    BY <1>1, <2>3 DEF std_max
  <2>5. CASE t = s
    <3>1. /\ data'[t].max_bytes = std_max(data[t].max_bytes, Bytes(e))
          /\ data'[t].device_id = data[t].device_id
      BY <2>1, <2>2, <2>5
    <3> QED BY <2>3, <2>4, <3>1
  <2>6. CASE t # s
    BY <2>2, <2>3, <2>6
  <2> QED BY <2>5, <2>6
<1> SUFFICES ASSUME NEW x \in Entries(g), storage'[x] # -1
             PROVE  /\ data'[storage'[x]].max_bytes >= Bytes(x)
                    /\ data'[storage'[x]].device_id = g.device[g.source[x]]
  BY <1>2 DEF StorageFits, Bytes, kBadStorageID
<1>4. CASE x = e
  <2>1. storage'[x] = s
    BY <1>1, <1>2, <1>4, AccountFacts
  <2> QED BY <1>1, <1>2, <1>3, <1>4, <2>1
<1>5. CASE x # e
  <2>1. storage'[x] = storage[x]
    BY <1>1, <1>2, <1>5, AccountFacts
  <2>2. storage[x] \in Entries(g) /\ Bytes(x) \in Nat
    BY <2>1, AccountFacts
  <2>3. /\ data[storage[x]].max_bytes >= Bytes(x)
        /\ data[storage[x]].device_id = g.device[g.source[x]]
    BY <2>1 DEF StorageFits, kBadStorageID
  <2> QED BY <1>3, <2>1, <2>2, <2>3
<1> QED BY <1>4, <1>5

LEMMA AllocFits ==
  ASSUME Inv, StorageFits, NEW e \in todo, RequestAlloc(e)
  PROVE  StorageFits'
<1>1. /\ e \in Entries(g) /\ g.source[e] = nid /\ Bytes(e) \in Nat /\ storage[e] = -1
  BY AccountFacts DEF RequestAlloc, NextRequest, InTurn, OutputsOf, kBadStorageID
<1>2. num_data \in Entries(g)
  <2>1. e \in Entries(g) \ Placed
    BY <1>1 DEF Placed
  <2>2. Cardinality(Placed) \in Nat /\ Cardinality(Placed) < g.num_entries
    BY <2>1, PlacedFinite
  <2>3. num_data <= Cardinality(Placed)
    BY DEF Inv, PlannerInv, StoragesPlaced
  <2> QED BY <2>2, <2>3, AccountFacts DEF Entries
<1>3. /\ g' = g /\ storage' = [storage EXCEPT ![e] = num_data]
      /\ data' = [data EXCEPT ![num_data].device_id = g.device[nid],
                              ![num_data].max_bytes = Bytes(e)]
  BY DEF RequestAlloc, NextRequest, search
<1>4. data'[num_data].device_id = g.device[nid] /\ data'[num_data].max_bytes = Bytes(e)
  <2>1. data[num_data] \in [device_id : Nat, max_bytes : Nat, released_by_node : Nodes(g)]
    BY <1>2, AccountFacts
  <2> QED BY <1>2, <1>3, <2>1, AccountFacts
<1>5. \A t \in Entries(g) : t # num_data => data'[t] = data[t]
  BY <1>3, AccountFacts
<1> SUFFICES ASSUME NEW x \in Entries(g), storage'[x] # -1
             PROVE  /\ data'[storage'[x]].max_bytes >= Bytes(x)
                    /\ data'[storage'[x]].device_id = g.device[g.source[x]]
  BY <1>3 DEF StorageFits, Bytes, kBadStorageID
<1>6. CASE x = e
  <2>1. storage'[x] = num_data
    BY <1>1, <1>3, <1>6, AccountFacts
  <2> QED BY <1>1, <1>4, <1>6, <2>1
<1>7. CASE x # e
  <2>1. storage'[x] = storage[x]
    BY <1>1, <1>3, <1>7, AccountFacts
  <2>2. storage[x] \in Entries(g) /\ storage[x] # num_data
    BY <2>1, AccountFacts DEF Storages
  <2> QED BY <1>5, <2>1, <2>2 DEF StorageFits, kBadStorageID
<1> QED BY <1>6, <1>7

(* An in-place pair is of one size and one device.                         *)
LEMMA ShareFits ==
  ASSUME Inv, StorageFits, ShareInplace
  PROVE  StorageFits'
<1>0. PICK pair, in, out :
        pair = g.inplace[nid][ipair] /\ in = g.inputs[nid][pair.in] /\ out = pair.out
  OBVIOUS
<1>1. /\ nid \in Nodes(g) /\ ipair \in DOMAIN g.inplace[nid]
      /\ g' = g /\ data' = data /\ storage' = [storage EXCEPT ![out] = storage[in]]
      /\ storage[in] >= 0 /\ g.size[out] = g.size[in]
  BY <1>0 DEF ShareInplace, AtPair, CanRunInplace, search
<1>2. /\ pair.in \in InputPositions(g, nid) /\ out \in OutputsOf(g, nid)
      /\ g.device[g.source[in]] = g.device[nid]
  BY <1>0, <1>1, GraphFacts DEF Inv, WellFormed, InplaceOptions
<1>3. in \in Entries(g) /\ out \in Entries(g) /\ g.source[out] = nid
  <2>1. \A i \in InputPositions(g, nid) : g.inputs[nid][i] \in Entries(g)
    BY <1>1, GraphFacts DEF Inv, InputPositions
  <2>2. in \in Entries(g)
    BY <1>0, <1>2, <2>1
  <2>3. out \in Entries(g) /\ g.source[out] = nid
    BY <1>2 DEF OutputsOf
  <2> QED BY <2>2, <2>3
<1> SUFFICES ASSUME NEW x \in Entries(g), storage'[x] # -1
             PROVE  /\ data[storage'[x]].max_bytes >= Bytes(x)
                    /\ data[storage'[x]].device_id = g.device[g.source[x]]
  BY <1>1 DEF StorageFits, Bytes, kBadStorageID
<1>4. CASE x = out
  <2>1. storage'[x] = storage[in] /\ Bytes(x) = Bytes(in) /\ storage[in] # -1
    BY <1>1, <1>3, <1>4, AccountFacts DEF Bytes
  <2> QED BY <1>2, <1>3, <1>4, <2>1 DEF StorageFits, kBadStorageID
<1>5. CASE x # out
  <2>1. storage'[x] = storage[x]
    BY <1>1, <1>5, AccountFacts
  <2> QED BY <2>1 DEF StorageFits, kBadStorageID
<1> QED BY <1>4, <1>5

LEMMA StorageFitsNext == Inv /\ StorageFits /\ [Next]_vars => StorageFits'
<1> SUFFICES ASSUME Inv, StorageFits, [Next]_vars PROVE StorageFits'
  OBVIOUS
<1>1. CASE StartRound
  BY <1>1 DEF StartRound, StorageFits, search, PerEntry, Entries
<1>2. CASE SkipVariable \/ SkipPair \/ SortOutputs \/ StartFreeing \/ StartSweep \/ NextNode
           \/ EndRound \/ Return \/ Done \/ UNCHANGED vars
  BY <1>2, StillFits DEF SkipVariable, SkipPair, SortOutputs, StartFreeing, StartSweep,
     NextNode, EndRound, Return, Done, vars, plan, allocator, search
<1>3. CASE ShareInplace
  BY <1>3, ShareFits
<1>4. ASSUME NEW e \in todo, RequestShapeless(e) PROVE StorageFits'
  BY <1>4, StillFits DEF RequestShapeless, NextRequest, allocator, search
<1>5. ASSUME NEW e \in todo, NEW s \in 0 .. num_data - 1, RequestReuse(e, s) PROVE StorageFits'
  BY <1>5, ReuseFits
<1>6. ASSUME NEW e \in todo, RequestAlloc(e) PROVE StorageFits'
  BY <1>6, AllocFits
<1>7. CASE FreeInput
  <2>1. g' = g /\ storage' = storage
    BY <1>7 DEF FreeInput, plan, search
  <2>2. UNCHANGED data \/ \E s \in Entries(g) : Release(s)
    <3>1. CASE HasCount(ipair)
      <4>1. /\ nid \in Nodes(g) /\ ipair \in InputPositions(g, nid)
        BY <1>7, AccountFacts DEF FreeInput, InTurn
      <4>2. g.inputs[nid][ipair] \in Entries(g)
        BY <4>1, GraphFacts DEF InputPositions, Inv
      <4>3. storage[g.inputs[nid][ipair]] \in Entries(g)
        BY <3>1, <4>2, AccountFacts DEF HasCount
      <4> QED BY <1>7, <3>1, <4>3 DEF FreeInput
    <3>2. CASE ~HasCount(ipair)
      BY <1>7, <3>2 DEF FreeInput
    <3> QED BY <3>1, <3>2
  <2> QED BY <2>1, <2>2, StillFits, ReleaseKeepsSize
<1>8. ASSUME NEW e \in todo, SweepOutput(e) PROVE StorageFits'
  <2>1. g' = g /\ storage' = storage
    BY <1>8 DEF SweepOutput, search
  <2>2. UNCHANGED data \/ \E s \in Entries(g) : Release(s)
    <3>1. e \in Entries(g)
      BY AccountFacts DEF TypeOK
    <3>2. storage[e] >= 0 => storage[e] \in Entries(g)
      BY <3>1, AccountFacts
    <3> QED BY <1>8, <3>2 DEF SweepOutput
  <2> QED BY <2>1, <2>2, StillFits, ReleaseKeepsSize
<1> QED
  BY <1>1, <1>2, <1>3, <1>4, <1>5, <1>6, <1>7, <1>8 DEF Next

(* What a step does to the plan's accounts: it starts a new plan, leaves   *)
(* them, places one more entry on a storage, perhaps growing it to the     *)
(* entry, or on a new storage of the entry's size.                         *)
Places(e, s) ==
  /\ e \in Entries(g) /\ storage[e] = kBadStorageID
  /\ g.source[e] = nid /\ nid \notin g.variables
  /\ storage' = [storage EXCEPT ![e] = s]

SizesKept(sids) == \A t \in sids : data'[t].max_bytes = data[t].max_bytes

AccountStep ==
  \/ num_data' = 0 /\ \A e \in Entries(g) : storage'[e] = kBadStorageID
  \/ storage' = storage /\ num_data' = num_data /\ SizesKept(Storages)
  \/ \E e \in Entries(g), s \in Storages :
       /\ Places(e, s) /\ num_data' = num_data /\ SizesKept(Storages \ {s})
       /\ data'[s].max_bytes \in {data[s].max_bytes, Bytes(e)}
  \/ \E e \in Entries(g) :
       /\ Places(e, num_data) /\ num_data' = num_data + 1 /\ SizesKept(Storages)
       /\ data'[num_data].max_bytes = Bytes(e)

LEMMA StepAccounts ==
  ASSUME Inv, [Next]_vars
  PROVE  g' = g /\ AccountStep
<1>1. g' = g
  BY DEF Next, vars, search, StartRound, SkipVariable, ShareInplace, SkipPair, SortOutputs,
     RequestShapeless, RequestReuse, RequestAlloc, NextRequest, StartFreeing, FreeInput,
     StartSweep, SweepOutput, NextNode, EndRound, Return, Done
<1> SUFFICES AccountStep
  BY <1>1
<1>2. CASE StartRound
  <2>1. num_data' = 0 /\ \A e \in Entries(g) : storage'[e] = kBadStorageID
    BY <1>2 DEF StartRound, PerEntry
  <2> QED BY <2>1 DEF AccountStep
<1>3. CASE SkipVariable \/ SkipPair \/ SortOutputs \/ StartFreeing \/ StartSweep \/ NextNode
           \/ EndRound \/ Return \/ Done \/ UNCHANGED vars
  <2>1. UNCHANGED <<storage, num_data, data>>
    BY <1>3 DEF SkipVariable, SkipPair, SortOutputs, StartFreeing, StartSweep,
       NextNode, EndRound, Return, Done, vars, plan, allocator
  <2>2. SizesKept(Storages)
    BY <2>1 DEF SizesKept
  <2> QED BY <2>1, <2>2 DEF AccountStep
<1>4. CASE ShareInplace
  <2>0. PICK pair, in, out :
          pair = g.inplace[nid][ipair] /\ in = g.inputs[nid][pair.in] /\ out = pair.out
    OBVIOUS
  <2>1. /\ nid \in Nodes(g) \ g.variables /\ ipair \in DOMAIN g.inplace[nid]
        /\ UNCHANGED <<num_data, data>> /\ storage' = [storage EXCEPT ![out] = storage[in]]
        /\ storage[in] >= 0 /\ storage[out] = kBadStorageID
    BY <1>4, <2>0 DEF ShareInplace, AtPair, CanRunInplace
  <2>2. /\ pair.in \in InputPositions(g, nid) /\ out \in OutputsOf(g, nid)
    BY <2>0, <2>1, GraphFacts DEF Inv, WellFormed, InplaceOptions
  <2>3. in \in Entries(g)
    <3>1. \A i \in InputPositions(g, nid) : g.inputs[nid][i] \in Entries(g)
      BY <2>1, GraphFacts DEF Inv, InputPositions
    <3> QED BY <2>0, <2>2, <3>1
  <2>4. storage[in] \in Storages
    BY <2>1, <2>3, AccountFacts
  <2>5. Places(out, storage[in]) /\ out \in Entries(g)
    BY <2>1, <2>2 DEF Places, OutputsOf
  <2>6. /\ SizesKept(Storages \ {storage[in]}) /\ num_data' = num_data
        /\ data'[storage[in]].max_bytes = data[storage[in]].max_bytes
    BY <2>1 DEF SizesKept
  <2> QED BY <2>4, <2>5, <2>6 DEF AccountStep
<1>5. ASSUME NEW e \in todo, RequestShapeless(e) PROVE AccountStep
  BY <1>5 DEF RequestShapeless, allocator, AccountStep, SizesKept
<1>6. ASSUME NEW e \in todo, NextRequest(e)
      PROVE  /\ e \in Entries(g) /\ storage[e] = kBadStorageID
             /\ g.source[e] = nid /\ nid \notin g.variables
  BY <1>6, AccountFacts DEF NextRequest, InTurn, OutputsOf
<1>7. ASSUME NEW e \in todo, NEW s \in 0 .. num_data - 1, RequestReuse(e, s) PROVE AccountStep
  <2>1. /\ Places(e, s) /\ s \in Storages /\ e \in Entries(g) /\ num_data' = num_data
        /\ data' = [data EXCEPT ![s].max_bytes = std_max(@, Bytes(e))]
    BY <1>6, <1>7 DEF RequestReuse, Places, Storages
  <2>2. \A t \in Storages : t # s => data'[t] = data[t]
    BY <2>1, AccountFacts
  <2>3. data'[s].max_bytes = std_max(data[s].max_bytes, Bytes(e))
    BY <2>1, AccountFacts
  <2>4. data'[s].max_bytes \in {data[s].max_bytes, Bytes(e)}
    BY <2>3 DEF std_max
  <2> QED BY <2>1, <2>2, <2>4 DEF AccountStep, SizesKept
<1>8. ASSUME NEW e \in todo, RequestAlloc(e) PROVE AccountStep
  <2>1. /\ Places(e, num_data) /\ e \in Entries(g) /\ num_data' = num_data + 1
        /\ data' = [data EXCEPT ![num_data].device_id = g.device[nid],
                                ![num_data].max_bytes = Bytes(e)]
    BY <1>6, <1>8 DEF RequestAlloc, Places
  <2>2. num_data \in Entries(g)
    <3>1. e \in Entries(g) \ Placed
      BY <1>6, <1>8 DEF RequestAlloc, Placed, kBadStorageID
    <3>2. Cardinality(Placed) \in Nat /\ Cardinality(Placed) < g.num_entries
      BY <3>1, PlacedFinite
    <3>3. num_data <= Cardinality(Placed)
      BY DEF Inv, PlannerInv, StoragesPlaced
    <3> QED BY <3>2, <3>3, AccountFacts DEF Entries
  <2>3. \A t \in Storages : t # num_data /\ t \in Entries(g)
    BY AccountFacts DEF Storages
  <2>4. \A t \in Storages : data'[t] = data[t]
    BY <2>1, <2>3, AccountFacts
  <2>5. data'[num_data].max_bytes = Bytes(e)
    <3>1. data[num_data] \in [device_id : Nat, max_bytes : Nat, released_by_node : Nodes(g)]
      BY <2>2, AccountFacts
    <3> QED BY <2>1, <2>2, <3>1, AccountFacts
  <2> QED BY <2>1, <2>4, <2>5 DEF AccountStep, SizesKept
<1>9. ASSUME UNCHANGED <<storage, num_data>>,
             UNCHANGED data \/ \E s \in Entries(g) : Release(s)
      PROVE  AccountStep
  <2>1. \A t \in Entries(g) : data'[t].max_bytes = data[t].max_bytes
    BY <1>9, ReleaseKeepsSize
  <2> QED BY <1>9, <2>1, AccountFacts DEF AccountStep, SizesKept
<1>10. CASE FreeInput
  <2>1. UNCHANGED <<storage, num_data>>
    BY <1>10 DEF FreeInput, plan
  <2>2. UNCHANGED data \/ \E s \in Entries(g) : Release(s)
    <3>1. CASE HasCount(ipair)
      <4>1. /\ nid \in Nodes(g) /\ ipair \in InputPositions(g, nid)
        BY <1>10, AccountFacts DEF FreeInput, InTurn
      <4>2. g.inputs[nid][ipair] \in Entries(g)
        BY <4>1, GraphFacts DEF InputPositions, Inv
      <4>3. storage[g.inputs[nid][ipair]] \in Entries(g)
        BY <3>1, <4>2, AccountFacts DEF HasCount
      <4> QED BY <1>10, <3>1, <4>3 DEF FreeInput
    <3>2. CASE ~HasCount(ipair)
      BY <1>10, <3>2 DEF FreeInput
    <3> QED BY <3>1, <3>2
  <2> QED BY <1>9, <2>1, <2>2
<1>11. ASSUME NEW e \in todo, SweepOutput(e) PROVE AccountStep
  <2>1. UNCHANGED <<storage, num_data>>
    BY <1>11 DEF SweepOutput
  <2>2. UNCHANGED data \/ \E s \in Entries(g) : Release(s)
    <3>1. e \in Entries(g)
      BY AccountFacts DEF TypeOK
    <3>2. storage[e] >= 0 => storage[e] \in Entries(g)
      BY <3>1, AccountFacts
    <3> QED BY <1>11, <3>2 DEF SweepOutput
  <2> QED BY <1>9, <2>1, <2>2
<1> QED
  BY <1>1, <1>2, <1>3, <1>4, <1>5, <1>7, <1>8, <1>10, <1>11 DEF Next

(* What is placed: no variable, and on every storage an entry of its size. *)
LEMMA PlacedNext ==
  ASSUME Inv, VariablesUnplaced, NoSpareBytes, [Next]_vars
  PROVE  VariablesUnplaced' /\ NoSpareBytes'
<1>1. g' = g /\ AccountStep
  BY StepAccounts
<1>2. Entries(g)' = Entries(g) /\ (\A e : Bytes(e)' = Bytes(e))
  BY <1>1 DEF Entries, Bytes
<1>3. /\ \A e \in Placed : e \in Entries(g) /\ g.source[e] \notin g.variables
      /\ \A s \in Storages : \E e \in Placed : storage[e] = s /\ data[s].max_bytes = Bytes(e)
  BY DEF VariablesUnplaced, NoSpareBytes, Placed
<1>4. CASE num_data' = 0 /\ \A e \in Entries(g) : storage'[e] = kBadStorageID
  <2>1. Placed' = {} /\ Storages' = {}
    BY <1>2, <1>4 DEF Placed, Storages, kBadStorageID
  <2> QED BY <2>1 DEF VariablesUnplaced, NoSpareBytes
<1>5. CASE storage' = storage /\ num_data' = num_data /\ SizesKept(Storages)
  <2>1. Placed' = Placed /\ Storages' = Storages
    BY <1>2, <1>5 DEF Placed, Storages
  <2> QED BY <1>1, <1>2, <1>3, <1>5, <2>1 DEF VariablesUnplaced, NoSpareBytes, SizesKept
<1>6. ASSUME NEW e \in Entries(g), NEW s \in Nat, Places(e, s)
      PROVE  /\ Placed' = Placed \cup {e} /\ e \notin Placed /\ storage'[e] = s
             /\ \A o \in Placed : storage'[o] = storage[o]
             /\ VariablesUnplaced'
  <2>1. e \notin Placed /\ storage'[e] = s /\ \A o \in Entries(g) \ {e} : storage'[o] = storage[o]
    BY <1>6, AccountFacts DEF Places, Placed, kBadStorageID
  <2>2. Placed' = Placed \cup {e}
    BY <1>2, <2>1 DEF Placed
  <2>3. VariablesUnplaced'
    BY <1>1, <1>3, <1>6, <2>2 DEF VariablesUnplaced, Places
  <2> QED BY <1>3, <2>1, <2>2, <2>3
<1>7. ASSUME NEW e \in Entries(g), NEW s \in Storages, Places(e, s), num_data' = num_data,
             SizesKept(Storages \ {s}), data'[s].max_bytes \in {data[s].max_bytes, Bytes(e)}
      PROVE  NoSpareBytes' /\ VariablesUnplaced'
  <2>0. s \in Nat /\ Storages' = Storages
    BY <1>7, AccountFacts DEF Storages
  <2> SUFFICES ASSUME NEW t \in Storages
               PROVE  \E o \in Placed' : storage'[o] = t /\ data'[t].max_bytes = Bytes(o)
    BY <1>2, <1>6, <1>7, <2>0 DEF NoSpareBytes
  <2>1. PICK o \in Placed : storage[o] = t /\ data[t].max_bytes = Bytes(o)
    BY <1>3
  <2>2. CASE data'[t].max_bytes = data[t].max_bytes
    BY <1>6, <1>7, <2>0, <2>1, <2>2
  <2>3. CASE data'[t].max_bytes # data[t].max_bytes
    <3>1. t = s /\ data'[t].max_bytes = Bytes(e)
      BY <1>7, <2>3 DEF SizesKept
    <3> QED BY <1>6, <1>7, <2>0, <3>1
  <2> QED BY <2>2, <2>3
<1>8. ASSUME NEW e \in Entries(g), Places(e, num_data), num_data' = num_data + 1,
             SizesKept(Storages), data'[num_data].max_bytes = Bytes(e)
      PROVE  NoSpareBytes' /\ VariablesUnplaced'
  <2>0. num_data \in Nat /\ Storages' = Storages \cup {num_data}
    BY <1>8, AccountFacts DEF Storages
  <2> SUFFICES ASSUME NEW t \in Storages'
               PROVE  \E o \in Placed' : storage'[o] = t /\ data'[t].max_bytes = Bytes(o)
    BY <1>2, <1>6, <1>8, <2>0 DEF NoSpareBytes
  <2>1. CASE t = num_data
    BY <1>6, <1>8, <2>0, <2>1
  <2>2. CASE t \in Storages
    <3>1. PICK o \in Placed : storage[o] = t /\ data[t].max_bytes = Bytes(o)
      BY <1>3, <2>2
    <3>2. data'[t].max_bytes = data[t].max_bytes
      BY <1>8, <2>2 DEF SizesKept
    <3> QED BY <1>6, <1>8, <2>0, <3>1, <3>2
  <2> QED BY <2>0, <2>1, <2>2
<1> QED BY <1>1, <1>4, <1>5, <1>7, <1>8 DEF AccountStep

(* The storages' sizes and the placed entries' sizes, as sums.             *)
MaxBytes == [s \in Storages |-> data[s].max_bytes]

AccountSums ==
  /\ TotalAllocBytes = SumFunctionOnSet(MaxBytes, Storages)
  /\ NeverWorseThanUnshared
       <=> TotalAllocBytes <= 4 * SumFunctionOnSet(g.size, Placed)
  /\ IsFiniteSet(Storages) /\ IsFiniteSet(Placed) /\ Placed \subseteq Entries(g)
  /\ \A s \in Storages : MaxBytes[s] = data[s].max_bytes /\ data[s].max_bytes \in Nat
  /\ \A e \in Entries(g) : g.size[e] \in Nat /\ Bytes(e) = 4 * g.size[e]

LEMMA AccountsAreSums == Inv => AccountSums
<1> SUFFICES ASSUME Inv PROVE AccountSums
  OBVIOUS
<1>1. {e \in Entries(g) : storage[e] # kBadStorageID} = Placed
  BY AccountFacts DEF Placed, kBadStorageID, Storages
<1>2. num_data - 1 \in Int /\ 0 \in Int /\ g.num_entries - 1 \in Int
  BY AccountFacts
<1>3. IsFiniteSet(Storages) /\ IsFiniteSet(Entries(g))
  BY <1>2, FS_Interval DEF Storages, Entries
<1>4. IsFiniteSet(Placed) /\ Placed \subseteq Entries(g)
  BY <1>3, FS_Subset DEF Placed
<1>5. \A s \in Storages : data[s].max_bytes \in Nat
  BY AccountFacts
<1>6. \A e \in Entries(g) : g.size[e] \in Nat /\ Bytes(e) = 4 * g.size[e]
  BY GraphFacts DEF Inv, Bytes
<1>7. \A s \in Storages : MaxBytes[s] = data[s].max_bytes
  BY DEF MaxBytes
<1>8. /\ TotalAllocBytes = SumFunctionOnSet(MaxBytes, Storages)
      /\ NeverWorseThanUnshared <=> TotalAllocBytes <= 4 * SumFunctionOnSet(g.size, Placed)
  BY <1>1 DEF TotalAllocBytes, NeverWorseThanUnshared, MaxBytes, Storages
<1> QED BY <1>3, <1>4, <1>5, <1>6, <1>7, <1>8 DEF AccountSums

(* Sharing never costs memory: a new storage is paid for by its entry, and *)
(* what a reused one grows by is at most the entry it grows for.           *)
LEMMA NeverWorseNext ==
  ASSUME Inv, NeverWorseThanUnshared, [Next]_vars
  PROVE  NeverWorseThanUnshared'
<1>0. Inv'
  BY NextInv
<1>1. g' = g /\ AccountStep
  BY StepAccounts
<1> DEFINE f == MaxBytes
           h == MaxBytes'
           size == g.size
           Total == SumFunctionOnSet(f, Storages)
           Total1 == SumFunctionOnSet(h, Storages')
           Unshared == SumFunctionOnSet(size, Placed)
           Unshared1 == SumFunctionOnSet(size, Placed')
<1>2. AccountSums
  BY AccountsAreSums
<1>3. AccountSums'
  <2>1. (Inv => AccountSums)'
    BY AccountsAreSums, PTL
  <2> QED BY <1>0, <2>1
<1>4. /\ Total <= 4 * Unshared
      /\ IsFiniteSet(Storages) /\ IsFiniteSet(Placed)
      /\ \A s \in Storages : f[s] = data[s].max_bytes /\ f[s] \in Nat /\ f[s] \in Int
      /\ \A e \in Entries(g) : size[e] \in Nat /\ size[e] \in Int /\ Bytes(e) = 4 * size[e]
      /\ \A e \in Placed : size[e] \in Int
  BY <1>2 DEF AccountSums
<1>5. /\ Total1 <= 4 * Unshared1 => NeverWorseThanUnshared'
      /\ IsFiniteSet(Storages') /\ IsFiniteSet(Placed')
      /\ \A s \in Storages' : h[s] = data'[s].max_bytes /\ h[s] \in Nat /\ h[s] \in Int
      /\ Entries(g)' = Entries(g)
  BY <1>1, <1>3 DEF AccountSums, Entries
<1>6. Unshared \in Int /\ Total \in Int
  BY <1>4, SumFacts
<1> HIDE DEF f, h, size
<1>7. CASE num_data' = 0 /\ \A e \in Entries(g) : storage'[e] = kBadStorageID
  <2>1. Placed' = {} /\ Storages' = {}
    BY <1>5, <1>7 DEF Placed, Storages, kBadStorageID
  <2>2. Total1 = 0 /\ Unshared1 = 0
    BY <2>1, SumFacts, FS_EmptySet
  <2> QED BY <1>5, <2>2
<1>8. ASSUME Storages' = Storages, SizesKept(Storages) PROVE Total1 = Total
  <2>1. \A s \in Storages : f[s] \in Int /\ h[s] = f[s]
    BY <1>4, <1>5, <1>8 DEF SizesKept
  <2> QED BY <1>4, <1>8, <2>1, SumOfEqual
<1>9. CASE storage' = storage /\ num_data' = num_data /\ SizesKept(Storages)
  <2>1. Placed' = Placed /\ Storages' = Storages
    BY <1>5, <1>9 DEF Placed, Storages
  <2> QED BY <1>4, <1>5, <1>8, <1>9, <2>1
<1>10. ASSUME NEW e \in Entries(g), NEW s \in Nat, Places(e, s)
       PROVE  Unshared1 = Unshared + size[e]
  <2>1. e \notin Placed /\ storage'[e] = s /\ \A o \in Entries(g) \ {e} : storage'[o] = storage[o]
    BY <1>10, AccountFacts DEF Places, Placed, kBadStorageID
  <2>2. Placed' = Placed \cup {e}
    BY <1>5, <2>1 DEF Placed
  <2>3. \A o \in Placed \cup {e} : size[o] \in Int
    BY <1>4
  <2> QED BY <1>4, <2>1, <2>2, <2>3, SumAdded
<1>11. ASSUME NEW e \in Entries(g), NEW s \in Storages, Places(e, s), num_data' = num_data,
              SizesKept(Storages \ {s}), data'[s].max_bytes \in {data[s].max_bytes, Bytes(e)}
       PROVE  Total1 <= 4 * Unshared1
  <2>0. s \in Nat /\ Storages' = Storages
    BY <1>11, AccountFacts DEF Storages
  <2> DEFINE R == Storages \ {s}
             Rest == SumFunctionOnSet(f, R)
             Rest1 == SumFunctionOnSet(h, R)
  <2>1. Total = Rest + f[s]
    BY <1>4, SumFacts
  <2>2. Total1 = Rest1 + h[s]
    BY <1>5, <2>0, SumFacts
  <2>3. \A t \in R : f[t] \in Int /\ h[t] = f[t]
    BY <1>4, <1>5, <1>11, <2>0 DEF SizesKept
  <2>4. IsFiniteSet(R)
    BY <1>4, FS_Subset
  <2>5. Rest = Rest1 /\ Rest \in Int
    <3> HIDE DEF R
    <3> QED BY <2>3, <2>4, SumOfEqual, SumFacts
  <2>6. h[s] <= f[s] + 4 * size[e] /\ h[s] \in Int /\ f[s] \in Int /\ size[e] \in Int
    BY <1>4, <1>5, <1>11, <2>0
  <2>7. Unshared1 = Unshared + size[e]
    BY <1>10, <1>11, <2>0
  <2> HIDE DEF Total, Total1, Rest, Rest1, R, Unshared, Unshared1
  <2> QED BY <1>4, <1>6, <2>1, <2>2, <2>5, <2>6, <2>7
<1>12. ASSUME NEW e \in Entries(g), Places(e, num_data), num_data' = num_data + 1,
              SizesKept(Storages), data'[num_data].max_bytes = Bytes(e)
       PROVE  Total1 <= 4 * Unshared1
  <2>0. num_data \in Nat /\ num_data \notin Storages /\ Storages' = Storages \cup {num_data}
    BY <1>12, AccountFacts DEF Storages
  <2>1. h[num_data] = 4 * size[e] /\ size[e] \in Int
    BY <1>4, <1>5, <1>12, <2>0
  <2>2. \A t \in Storages : f[t] \in Int /\ h[t] = f[t]
    BY <1>4, <1>5, <1>12, <2>0 DEF SizesKept
  <2>3. SumFunctionOnSet(h, Storages) = Total
    BY <1>4, <2>2, SumOfEqual
  <2>4. \A t \in Storages \cup {num_data} : h[t] \in Int
    BY <1>5, <2>0
  <2>5. Total1 = SumFunctionOnSet(h, Storages) + h[num_data]
    <3>1. SumFunctionOnSet(h, Storages \cup {num_data})
            = SumFunctionOnSet(h, Storages) + h[num_data]
      BY <1>4, <2>0, <2>4, SumAdded
    <3> QED BY <2>0, <3>1
  <2>6. Unshared1 = Unshared + size[e]
    BY <1>10, <1>12, <2>0
  <2> HIDE DEF Total, Total1, Unshared, Unshared1
  <2> QED BY <1>4, <1>6, <2>1, <2>3, <2>5, <2>6
<1> QED BY <1>1, <1>5, <1>7, <1>9, <1>11, <1>12 DEF AccountStep

(* A storage that nothing waits for goes back to the free list.            *)
Held(s) == \E o \in OutputsOf(g, nid) :
             storage[o] = s /\ (pc \in {"request", "free"} \/ (pc = "sweep" /\ o \in todo))

LEMMA UnusedIsFreeNext == Inv /\ UnusedIsFree /\ [Next]_vars => UnusedIsFree'
<1> SUFFICES ASSUME Inv, UnusedIsFree, [Next]_vars PROVE UnusedIsFree'
  OBVIOUS
<1> DEFINE Goal(s) == free'[s] = 0 /\ storage_ref_count'[s] = 0 => Held(s)'
<1>0. /\ \A s \in Storages : free[s] = 0 /\ storage_ref_count[s] = 0 => Held(s)
      /\ (\A s \in Storages' : Goal(s)) => UnusedIsFree'
  BY DEF UnusedIsFree, Held
<1>1. CASE StartRound
  <2>1. Storages' = {}
    BY <1>1 DEF StartRound, Storages
  <2> QED BY <1>0, <2>1
<1>2. ASSUME \A s \in Storages : ~ Held(s), UNCHANGED <<num_data, free, storage_ref_count>>
      PROVE  UnusedIsFree'
  BY <1>0, <1>2 DEF Storages
<1>3. CASE SkipVariable \/ SkipPair \/ SortOutputs \/ EndRound \/ Return
  <2>1. pc \in {"node", "round"} /\ UNCHANGED <<num_data, free, storage_ref_count>>
    BY <1>3 DEF SkipVariable, SkipPair, AtPair, SortOutputs, EndRound, Return, plan, allocator
  <2> QED BY <1>2, <2>1 DEF Held
<1>4. CASE NextNode
  <2>1. pc = "sweep" /\ todo = {} /\ UNCHANGED <<num_data, free, storage_ref_count>>
    BY <1>4 DEF NextNode, plan, allocator
  <2> QED BY <1>2, <2>1 DEF Held
<1>5. CASE ShareInplace
  <2>1. /\ pc = "node" /\ UNCHANGED <<num_data, free>>
        /\ \E s, out : storage_ref_count' = [storage_ref_count EXCEPT ![s] = @ + EntryRefCount(out)]
    BY <1>5 DEF ShareInplace, AtPair
  <2>2. PICK s, out : storage_ref_count' = [storage_ref_count EXCEPT ![s] = @ + EntryRefCount(out)]
    BY <2>1
  <2>3. EntryRefCount(out) \in Nat
    BY GraphFacts DEF Inv
  <2>4. ASSUME NEW t \in Storages, storage_ref_count'[t] = 0 PROVE storage_ref_count[t] = 0
    BY <2>2, <2>3, <2>4, AccountFacts
  <2>5. \A t \in Storages : ~ Held(t)
    BY <2>1 DEF Held
  <2> QED BY <1>0, <2>1, <2>4, <2>5 DEF Storages
<1>6. ASSUME UNCHANGED <<g, nid, storage, num_data>>,
             pc \in {"request", "free"},
             pc' \in {"request", "free"} \/ (pc' = "sweep" /\ OutputsOf(g, nid) \subseteq todo'),
             \A s \in Storages : free'[s] = 0 /\ storage_ref_count'[s] = 0
                                  => free[s] = 0 /\ storage_ref_count[s] = 0
      PROVE  UnusedIsFree'
  <2>1. Storages' = Storages /\ OutputsOf(g, nid)' = OutputsOf(g, nid)
    BY <1>6 DEF Storages, OutputsOf, Entries
  <2>2. \A s \in Storages : Held(s) => Held(s)'
    BY <1>6, <2>1 DEF Held
  <2> QED BY <1>0, <1>6, <2>1, <2>2
<1>7. CASE StartFreeing \/ StartSweep
  BY <1>6, <1>7 DEF StartFreeing, StartSweep, plan, allocator, search
<1>8. ASSUME NEW e \in todo, RequestShapeless(e) PROVE UnusedIsFree'
  BY <1>6, <1>8 DEF RequestShapeless, NextRequest, allocator, search
<1>9. ASSUME NEW e \in todo, NextRequest(e), NEW s, storage' = [storage EXCEPT ![e] = s],
             Storages' \subseteq Storages \cup {s},
             \A t \in Storages \ {s} : free'[t] = free[t] /\ storage_ref_count'[t] = storage_ref_count[t]
      PROVE  UnusedIsFree'
  <2>1. /\ e \in OutputsOf(g, nid) /\ e \in Entries(g) /\ storage[e] = -1
        /\ g' = g /\ nid' = nid /\ pc = "request" /\ pc' = "request"
    BY <1>9, AccountFacts DEF NextRequest, InTurn, search, OutputsOf, kBadStorageID
  <2>2. OutputsOf(g, nid)' = OutputsOf(g, nid)
    BY <2>1 DEF OutputsOf, Entries
  <2>3. Held(s)'
    BY <1>9, <2>1, <2>2, AccountFacts DEF Held
  <2>4. ASSUME NEW t \in Storages, Held(t) PROVE Held(t)'
    <3>1. PICK o \in OutputsOf(g, nid) : storage[o] = t
      BY <2>4 DEF Held
    <3>2. o # e /\ o \in Entries(g)
      BY <2>1, <3>1, AccountFacts DEF OutputsOf
    <3>3. storage'[o] = t
      BY <1>9, <3>1, <3>2, AccountFacts
    <3> QED BY <2>1, <2>2, <3>3 DEF Held
  <2> QED BY <1>0, <1>9, <2>3, <2>4
<1>10. ASSUME NEW e \in todo, NEW s \in 0 .. num_data - 1, RequestReuse(e, s) PROVE UnusedIsFree'
  <2>1. Storages' = Storages /\ NextRequest(e) /\ storage' = [storage EXCEPT ![e] = s]
    BY <1>10 DEF RequestReuse, Storages
  <2>2. \A t \in Storages \ {s} : free'[t] = free[t] /\ storage_ref_count'[t] = storage_ref_count[t]
    BY <1>10, AccountFacts DEF RequestReuse
  <2> QED BY <1>9, <2>1, <2>2
<1>11. ASSUME NEW e \in todo, RequestAlloc(e) PROVE UnusedIsFree'
  <2>1. NextRequest(e) /\ storage' = [storage EXCEPT ![e] = num_data] /\ num_data' = num_data + 1
    BY <1>11 DEF RequestAlloc
  <2>2. Storages' \subseteq Storages \cup {num_data}
    BY <2>1, AccountFacts DEF Storages
  <2>3. \A t \in Storages \ {num_data} :
          free'[t] = free[t] /\ storage_ref_count'[t] = storage_ref_count[t]
    BY <1>11, AccountFacts DEF RequestAlloc
  <2> QED BY <1>9, <2>1, <2>2, <2>3
<1>12. CASE FreeInput
  <2>1. /\ UNCHANGED <<g, nid, storage, num_data>> /\ pc = "free" /\ pc' = "free"
        /\ nid \in Nodes(g) /\ ipair \in InputPositions(g, nid)
    BY <1>12, AccountFacts DEF FreeInput, plan, search, InTurn
  <2>2. \A s \in Storages : free'[s] = 0 /\ storage_ref_count'[s] = 0
                             => free[s] = 0 /\ storage_ref_count[s] = 0
    <3>1. CASE HasCount(ipair)
      <4>1. PICK s : s = storage[g.inputs[nid][ipair]]
        OBVIOUS
      <4>2. g.inputs[nid][ipair] \in Entries(g)
        BY <2>1, GraphFacts DEF InputPositions, Inv
      <4>3. s \in Entries(g)
        BY <3>1, <4>1, <4>2, AccountFacts DEF HasCount
      <4>4. /\ storage_ref_count' = [storage_ref_count EXCEPT ![s] = @ - 1]
            /\ IF storage_ref_count[s] = 1 THEN Release(s) ELSE UNCHANGED <<data, free>>
        BY <1>12, <3>1, <4>1 DEF FreeInput
      <4> SUFFICES ASSUME NEW t \in Storages, free'[t] = 0, storage_ref_count'[t] = 0
                   PROVE  free[t] = 0 /\ storage_ref_count[t] = 0
        OBVIOUS
      <4>5. CASE t = s
        <5>1. storage_ref_count[s] = 1
          BY <4>3, <4>4, <4>5, AccountFacts
        <5>2. free'[s] = free[s] + 1 /\ free[s] \in Nat
          BY <2>1, <4>3, <4>4, <5>1, ReleaseType, AccountFacts
        <5> QED BY <4>5, <5>2
      <4>6. CASE t # s
        <5>1. t \in Entries(g) \ {s}
          BY <4>6, AccountFacts
        <5>2. free'[t] = free[t]
          BY <2>1, <4>3, <4>4, <5>1, ReleaseType
        <5>3. storage_ref_count'[t] = storage_ref_count[t]
          BY <4>4, <5>1, AccountFacts
        <5> QED BY <5>2, <5>3
      <4> QED BY <4>5, <4>6
    <3>2. CASE ~ HasCount(ipair)
      BY <1>12, <3>2 DEF FreeInput
    <3> QED BY <3>1, <3>2
  <2> QED BY <1>6, <2>1, <2>2
<1>13. ASSUME NEW e \in todo, SweepOutput(e) PROVE UnusedIsFree'
  <2>1. /\ UNCHANGED <<g, nid, storage, num_data, storage_ref_count>> /\ pc = "sweep" /\ pc' = "sweep"
        /\ nid \in Nodes(g) /\ e \in Entries(g) /\ todo' = todo \ {e}
    BY <1>13, AccountFacts DEF SweepOutput, search, InTurn, TypeOK
  <2>2. Storages' = Storages /\ OutputsOf(g, nid)' = OutputsOf(g, nid)
    BY <2>1 DEF Storages, OutputsOf, Entries
  <2> SUFFICES ASSUME NEW t \in Storages, free'[t] = 0, storage_ref_count[t] = 0
               PROVE  Held(t)'
    BY <1>0, <2>1, <2>2
  <2>3. CASE storage[e] >= 0 /\ storage_ref_count[storage[e]] = 0
    <3>1. Release(storage[e]) /\ storage[e] \in Entries(g)
      BY <1>13, <2>1, <2>3, AccountFacts DEF SweepOutput
    <3>2. free'[storage[e]] = free[storage[e]] + 1 /\ free[storage[e]] \in Nat
      BY <2>1, <3>1, ReleaseType, AccountFacts
    <3>3. t # storage[e] /\ t \in Entries(g)
      BY <3>2, AccountFacts
    <3>4. free[t] = 0
      BY <2>1, <3>1, <3>3, ReleaseType
    <3>5. PICK o \in OutputsOf(g, nid) : storage[o] = t /\ o \in todo
      BY <1>0, <2>1, <3>4 DEF Held
    <3> QED BY <2>1, <2>2, <3>3, <3>5 DEF Held
  <2>4. CASE ~ (storage[e] >= 0 /\ storage_ref_count[storage[e]] = 0)
    <3>1. free' = free
      BY <1>13, <2>4 DEF SweepOutput
    <3>2. PICK o \in OutputsOf(g, nid) : storage[o] = t /\ o \in todo
      BY <1>0, <2>1, <3>1 DEF Held
    <3>3. o # e
      BY <2>4, <3>2, AccountFacts DEF Storages
    <3> QED BY <2>1, <2>2, <3>2, <3>3 DEF Held
  <2> QED BY <2>3, <2>4
<1>14. CASE Done \/ UNCHANGED vars
  <2>1. UNCHANGED <<num_data, free, storage_ref_count, g, nid, storage, pc, todo>>
    BY <1>14 DEF Done, vars, loop, plan, allocator, search
  <2> QED BY <2>1 DEF UnusedIsFree, Storages, OutputsOf, Entries
<1> QED
  BY <1>1, <1>3, <1>4, <1>5, <1>7, <1>8, <1>10, <1>11, <1>12, <1>13, <1>14 DEF Next

(* num_not_allocated counts the outputs swept without a storage.           *)
LEMMA UnallocatedNext ==
  ASSUME Inv, UnallocatedCounted, [Next]_vars
  PROVE  UnallocatedCounted'
<1> DEFINE Missed(e) == storage[e] = -1 /\ Swept(e)
           ops == {e \in Entries(g) : g.source[e] \notin g.variables}
<1>1. Unallocated = {e \in ops : Missed(e)}
  BY DEF Unallocated, kBadStorageID
<1>2. ASSUME g' = g PROVE Unallocated' = {e \in ops : Missed(e)'}
  BY <1>2 DEF Unallocated, kBadStorageID, Entries
<1>3. ASSUME g' = g, num_not_allocated' = num_not_allocated, \A e \in ops : Missed(e)' <=> Missed(e)
      PROVE  UnallocatedCounted'
  <2>1. Unallocated' = Unallocated
    BY <1>1, <1>2, <1>3
  <2> QED BY <1>3, <2>1 DEF UnallocatedCounted
<1>4. /\ nid \in Nat /\ g.num_nodes \in Nat
      /\ \A e \in ops : /\ e \in Entries(g) /\ g.source[e] \in Nat
                        /\ g.source[e] < g.num_nodes /\ g.source[e] \notin g.variables
  BY AccountFacts DEF Nodes
<1>5. CASE StartRound
  <2>1. g' = g /\ num_not_allocated' = 0 /\ \A e \in ops : ~ Missed(e)'
    BY <1>4, <1>5 DEF StartRound, search, Swept
  <2>2. Unallocated' = {}
    BY <1>2, <2>1
  <2> QED BY <2>1, <2>2, FS_EmptySet DEF UnallocatedCounted
<1>6. CASE SkipVariable \/ SkipPair \/ SortOutputs \/ StartFreeing \/ FreeInput \/ EndRound
           \/ Return \/ Done \/ UNCHANGED vars
  <2>1. g' = g /\ storage' = storage /\ num_not_allocated' = num_not_allocated
    BY <1>6 DEF SkipVariable, SkipPair, SortOutputs, StartFreeing, FreeInput, EndRound, Return,
       Done, vars, plan, search
  <2>2. \/ nid' = nid /\ pc # "sweep" /\ pc' # "sweep"
        \/ nid \in g.variables /\ nid' = nid + 1 /\ pc # "sweep" /\ pc' # "sweep"
        \/ UNCHANGED <<nid, pc, todo>>
    BY <1>6 DEF SkipVariable, SkipPair, AtPair, SortOutputs, StartFreeing, FreeInput, EndRound,
       Return, Done, vars, loop
  <2>3. \A e \in ops : Swept(e)' <=> Swept(e)
    BY <1>4, <2>1, <2>2 DEF Swept
  <2> QED BY <1>3, <2>1, <2>3
<1>7. CASE StartSweep \/ NextNode
  <2>1. g' = g /\ storage' = storage /\ num_not_allocated' = num_not_allocated
    BY <1>7 DEF StartSweep, NextNode, plan, search
  <2>2. \/ nid' = nid /\ pc = "free" /\ pc' = "sweep" /\ todo' = OutputsOf(g, nid)
        \/ nid' = nid + 1 /\ pc = "sweep" /\ todo = {} /\ pc' = "node"
    BY <1>7 DEF StartSweep, NextNode
  <2>3. \A e \in ops : Swept(e)' <=> Swept(e)
    BY <1>4, <2>1, <2>2 DEF Swept, OutputsOf
  <2> QED BY <1>3, <2>1, <2>3
<1>8. ASSUME NEW o, o \in Entries(g) => g.source[o] = nid,
             \A e \in ops : e # o => storage'[e] = storage[e],
             UNCHANGED <<g, nid, pc, num_not_allocated>>, pc \in {"node", "request"}
      PROVE  UnallocatedCounted'
  <2>1. \A e \in ops : Swept(e)' <=> Swept(e)
    BY <1>8 DEF Swept
  <2>2. o \in ops => ~ Swept(o)
    BY <1>4, <1>8 DEF Swept
  <2>3. \A e \in ops : Missed(e)' <=> Missed(e)
    BY <1>8, <2>1, <2>2
  <2> QED BY <1>3, <1>8, <2>3
<1>9. CASE ShareInplace
  <2>1. PICK out : /\ out = g.inplace[nid][ipair].out
                   /\ storage' = [storage EXCEPT ![out] = storage[g.inputs[nid][g.inplace[nid][ipair].in]]]
    BY <1>9 DEF ShareInplace
  <2>2. UNCHANGED <<g, nid, pc, num_not_allocated>> /\ pc = "node"
    BY <1>9 DEF ShareInplace, AtPair, search
  <2>3. g.source[out] = nid
    BY <1>9, <2>1, GraphFacts DEF Inv, ShareInplace, AtPair, WellFormed, InplaceOptions, OutputsOf
  <2>4. \A e \in ops : e # out => storage'[e] = storage[e]
    BY <1>4, <2>1, AccountFacts
  <2> QED BY <1>8, <2>2, <2>3, <2>4
<1>10. ASSUME NEW e \in todo, NextRequest(e), NEW s,
              storage' = storage \/ storage' = [storage EXCEPT ![e] = s]
       PROVE  UnallocatedCounted'
  <2>1. UNCHANGED <<g, nid, pc, num_not_allocated>> /\ pc = "request" /\ g.source[e] = nid
    BY <1>10, AccountFacts DEF NextRequest, search, InTurn, OutputsOf
  <2>2. \A x \in ops : x # e => storage'[x] = storage[x]
    BY <1>4, <1>10, AccountFacts
  <2> QED BY <1>8, <2>1, <2>2
<1>11. ASSUME NEW e \in todo, RequestShapeless(e) PROVE UnallocatedCounted'
  BY <1>10, <1>11 DEF RequestShapeless
<1>12. ASSUME NEW e \in todo, NEW s \in 0 .. num_data - 1, RequestReuse(e, s) PROVE UnallocatedCounted'
  BY <1>10, <1>12 DEF RequestReuse
<1>13. ASSUME NEW e \in todo, RequestAlloc(e) PROVE UnallocatedCounted'
  BY <1>10, <1>13 DEF RequestAlloc
<1>14. ASSUME NEW e \in todo, SweepOutput(e) PROVE UnallocatedCounted'
  <2>1. /\ UNCHANGED <<g, nid, storage>> /\ pc = "sweep" /\ pc' = "sweep"
        /\ todo' = todo \ {e}
        /\ num_not_allocated' = num_not_allocated + IF storage[e] = -1 THEN 1 ELSE 0
    BY <1>14 DEF SweepOutput, search, kBadStorageID
  <2>2. e \in ops /\ g.source[e] = nid
    BY <2>1, AccountFacts DEF InTurn, OutputsOf
  <2>3. \A x \in ops : Swept(x)' <=> Swept(x) \/ x = e
    BY <1>4, <2>1, <2>2 DEF Swept
  <2>4. ~ Swept(e)
    BY <1>4, <2>1, <2>2 DEF Swept
  <2>5. CASE storage[e] # -1
    <3>1. num_not_allocated' = num_not_allocated
      BY <2>1, <2>5, AccountFacts DEF TypeOK
    <3>2. \A x \in ops : Missed(x)' <=> Missed(x)
      BY <2>1, <2>3, <2>5
    <3> QED BY <1>3, <2>1, <3>1, <3>2
  <2>6. CASE storage[e] = -1
    <3>1. Unallocated' = Unallocated \cup {e}
      BY <1>1, <1>2, <2>1, <2>2, <2>3, <2>6
    <3>2. e \notin Unallocated
      BY <2>4 DEF Unallocated
    <3>3. IsFiniteSet(Unallocated)
      <4>1. IsFiniteSet(Entries(g))
        <5>1. g.num_entries - 1 \in Int /\ 0 \in Int
          BY AccountFacts
        <5> QED BY <5>1, FS_Interval DEF Entries
      <4>2. Unallocated \in SUBSET Entries(g)
        BY DEF Unallocated
      <4> QED BY <4>1, <4>2, FS_Subset
    <3>4. Cardinality(Unallocated \cup {e}) = Cardinality(Unallocated) + 1
      BY <3>2, <3>3, FS_AddElement
    <3>5. num_not_allocated' = num_not_allocated + 1
      BY <2>1, <2>6
    <3> QED BY <3>1, <3>4, <3>5 DEF UnallocatedCounted
  <2> QED BY <2>5, <2>6
<1> HIDE DEF Missed, ops
<1> QED
  BY <1>5, <1>6, <1>7, <1>9, <1>11, <1>12, <1>13, <1>14 DEF Next

LEMMA AccountInitInv == Init => Inv /\ AccountInv
<1> SUFFICES ASSUME Init PROVE Inv /\ AccountInv
  OBVIOUS
<1>1. Inv
  BY InitInv
<1>2. StorageFits /\ UnusedIsFree
  BY DEF Init, StorageFits, UnusedIsFree, Storages, PerEntry
<1>3. Unallocated = {}
  BY <1>1, AccountFacts DEF Init, Unallocated, Swept
<1>4. UnallocatedCounted
  BY <1>3, FS_EmptySet DEF Init, UnallocatedCounted
<1>5. VariablesUnplaced /\ NoSpareBytes
  BY DEF Init, VariablesUnplaced, NoSpareBytes, Placed, Storages, PerEntry, kBadStorageID
<1>6. Placed = {} /\ Storages = {}
  BY DEF Init, Placed, Storages, PerEntry, kBadStorageID
<1>7. NeverWorseThanUnshared
  <2>1. /\ SumFunctionOnSet(MaxBytes, Storages) = 0
        /\ SumFunctionOnSet(g.size, Placed) = 0
    BY <1>6, SumFacts, FS_EmptySet
  <2> QED BY <1>1, <2>1, AccountsAreSums DEF AccountSums
<1> QED BY <1>1, <1>2, <1>4, <1>5, <1>7 DEF AccountInv

LEMMA AccountsNext == Inv /\ AccountInv /\ [Next]_vars => (Inv /\ AccountInv)'
BY NextInv, StorageFitsNext, UnusedIsFreeNext, UnallocatedNext, PlacedNext, NeverWorseNext
   DEF AccountInv

(* The accounts hold in every state that can be reached.                   *)
THEOREM AccountsInvariance == Spec => [](Inv /\ AccountInv)
BY AccountInitInv, AccountsNext, PTL DEF Spec

(* Every entry fits its storage and is on its node's device: what is       *)
(* reused grows, and is reused by nodes of its device only.                *)
THEOREM EntriesFitTheirStorage == Spec => []StorageFits
<1>1. Inv /\ AccountInv => StorageFits
  BY DEF AccountInv
<1> QED BY <1>1, AccountsInvariance, PTL

(* A finished round has given back every storage, once, but those of the   *)
(* graph's heads.                                                          *)
THEOREM EveryStorageIsReleased == Spec => []NothingLeaks
<1>1. Inv /\ AccountInv => NothingLeaks
  <2> SUFFICES ASSUME Inv, UnusedIsFree, pc = "node", nid = g.num_nodes, NEW s \in Storages
               PROVE  free[s] = IF \E j \in DOMAIN g.outputs : storage[g.outputs[j]] = s
                                THEN 0 ELSE 1
    BY DEF AccountInv, NothingLeaks
  <2>1. /\ free[s] \in Nat /\ free[s] <= 1 /\ (free[s] = 1 => Waiting(s) = {})
        /\ storage_ref_count[s] = Cardinality(Waiting(s))
    BY AccountFacts DEF Inv, PlannerInv, FreeIsUnused, RefCountsWaitingUses
  <2>2. free[s] = 0 => Waiting(s) # {}
    <3>1. Waiting(s) = {} => storage_ref_count[s] = 0
      BY <2>1, FS_EmptySet
    <3> QED BY <3>1 DEF UnusedIsFree
  <2>3. /\ g.num_nodes \in Nat /\ \A u \in AllUses(g) : u[1] \in 0 .. g.num_nodes
    BY GraphFacts, UsesFollowSource DEF Inv
  <2>4. Len(g.outputs) \in Nat /\ DOMAIN g.outputs = 1 .. Len(g.outputs)
    BY GraphFacts DEF Inv, WellFormed, GraphTypes
  <2>5. \A u \in AllUses(g) : ~ Freed(u) <=> u[1] = g.num_nodes
    BY <2>3 DEF Freed
  <2>6. \A u \in AllUses(g) : u[1] = g.num_nodes => u[2] \in DOMAIN g.outputs
    <3> SUFFICES ASSUME NEW u \in AllUses(g), u[1] = g.num_nodes PROVE u \in HeadUses(g)
      BY <2>4 DEF HeadUses
    <3>1. u \notin NodeUses(g)
      BY <2>3 DEF NodeUses, Nodes
    <3> QED BY <3>1 DEF AllUses
  <2>7. \A j \in DOMAIN g.outputs : <<g.num_nodes, j>> \in AllUses(g)
    BY <2>4 DEF AllUses, HeadUses
  <2>8. Waiting(s) # {} <=> \E j \in DOMAIN g.outputs : storage[g.outputs[j]] = s
    BY <2>5, <2>6, <2>7 DEF Waiting, UsedEntry
  <2> QED BY <2>1, <2>2, <2>8
<1> QED BY <1>1, AccountsInvariance, PTL

(* num_not_allocated, on which the compiler decides whether it may go on,  *)
(* is the number of operator outputs that have no storage.                 *)
THEOREM NotAllocatedCounted == Spec => []NotAllocatedIsExact
<1>1. Inv /\ AccountInv => NotAllocatedIsExact
  <2> SUFFICES ASSUME Inv, pc = "node", nid = g.num_nodes
               PROVE  Unallocated = {e \in Entries(g) :
                        g.source[e] \notin g.variables /\ storage[e] = kBadStorageID}
    BY DEF AccountInv, UnallocatedCounted, NotAllocatedIsExact
  <2>1. \A e \in Entries(g) : g.source[e] < nid
    BY AccountFacts DEF Nodes
  <2> QED BY <2>1 DEF Unallocated, Swept
<1> QED BY <1>1, AccountsInvariance, PTL

(* Sharing never costs memory: whatever is reused, grown and shared in     *)
(* place, a plan allocates at most what one storage per entry would.       *)
THEOREM SharingNeverCosts == Spec => []NeverWorseThanUnshared
<1>1. Inv /\ AccountInv => NeverWorseThanUnshared
  BY DEF AccountInv
<1> QED BY <1>1, AccountsInvariance, PTL

-----------------------------------------------------------------------------
(* A plan that is safe without in-place pairs and allocates every output   *)
(* runs once it is decorated.                                              *)
LEMMA DecoratedPlanRuns ==
  ASSUME g \in Graphs,
         NEW sid \in [Entries(g) -> -1 .. g.num_entries - 1],
         SafeStorage(g, sid, OwnValue),
         \A e \in OpEntries(g) : sid[e] >= 0
  PROVE  LET d == DecorateMemoryPlan(g, sid)
         IN /\ d \in [Entries(g) -> Int]
            /\ SafeStorage(g, d, OwnValue)
            /\ VariablesAlone(g, d)
            /\ PassesReuseCheck(g, d, {})
<1> DEFINE d == DecorateMemoryPlan(g, sid)
<1>1. /\ WellFormed(g) /\ VariablesHaveOneOutput(g)
      /\ \A n \in Nodes(g) : g.inplace[n] = <<>> /\ g.ignored[n] = {}
  BY GraphsAssumption, CvmOpAssumption
<1>2. /\ d \in [Entries(g) -> Int]
      /\ \A e \in OpEntries(g) : d[e] = sid[e]
      /\ \A v \in VariableEntries(g) : d[v] >= 0
      /\ VariablesAlone(g, d)
  BY <1>1, DecoratedPlan
<1> HIDE DEF d
<1>3. \A e \in Entries(g) : e \in VariableEntries(g) \/ e \in OpEntries(g)
  BY DEF OpEntries
<1>4. \A a, b \in Entries(g) : a # b /\ d[a] = d[b] => a \in OpEntries(g) /\ b \in OpEntries(g)
  BY <1>2, <1>3 DEF VariablesAlone
<1>5. SafeStorage(g, d, OwnValue)
  BY <1>2, <1>4 DEF SafeStorage
<1>6. \A e \in Entries(g) : d[e] >= 0
  BY <1>2, <1>3
<1>7. ASSUME NEW n \in Nodes(g) \ g.variables,
             NEW o \in OutputsOf(g, n), NEW i \in InputPositions(g, n)
      PROVE  d[o] # d[g.inputs[n][i]]
  <2> DEFINE a == g.inputs[n][i]
             u == <<n, i>>
  <2>1. u \in AllUses(g) /\ UsedEntry(g, u) = a /\ a \in Entries(g)
    BY <1>1, ReadsAreUses
  <2>2. u \in Uses(g, a)
    BY <2>1 DEF Uses
  <2>3. g.source[a] < n /\ g.source[a] \in Nodes(g) /\ n \in Int
    <3>1. g.source[a] < u[1] /\ g.source[a] \in Nodes(g)
      BY <1>1, <2>1, UsesFollowSource
    <3>2. n \in Int
      BY GraphFacts DEF Nodes
    <3> QED BY <3>1, <3>2
  <2>4. o \in Entries(g) /\ g.source[o] = n
    BY DEF OutputsOf
  <2>5. o # a /\ g.source[a] <= g.source[o] /\ ~(u[1] < g.source[o])
    BY <2>3, <2>4 DEF Nodes
  <2>6. OwnValue[a] # OwnValue[o]
    BY <2>1, <2>4, <2>5 DEF OwnValue
  <2>7. DOMAIN g.inplace[u[1]] = {}
    BY <1>1
  <2> QED
    BY <1>5, <1>6, <2>1, <2>2, <2>4, <2>5, <2>6, <2>7 DEF SafeStorage
<1>8. PassesReuseCheck(g, d, {})
  BY <1>6, <1>7 DEF PassesReuseCheck
<1> QED BY <1>2, <1>5, <1>8 DEF d

-----------------------------------------------------------------------------
(* What the runtime allocates for a plan.                                  *)

(* It depends on the graph alone.                                          *)
LEMMA SamePool ==
  ASSUME g' = g
  PROVE  /\ Entries(g)' = Entries(g) /\ VariableEntries(g)' = VariableEntries(g)
         /\ \A sid, sids : PoolSize(sid, sids)' = PoolSize(sid, sids)
<1>1. Entries(g)' = Entries(g) /\ VariableEntries(g)' = VariableEntries(g)
  BY DEF Entries, VariableEntries
<1>2. \A sid, s : PoolEntrySize(sid, s)' = PoolEntrySize(sid, s)
  BY <1>1 DEF PoolEntrySize, Bytes
<1> QED BY <1>1, <1>2 DEF PoolSize

(* The size of a storage is that of the largest entry on it.               *)
LEMMA LargestOnStorage ==
  ASSUME NEW sid, NEW e \in Entries(g), Bytes(e) \in Int,
         \A o \in Entries(g) : sid[o] = sid[e] => Bytes(o) \in Int /\ Bytes(o) <= Bytes(e)
  PROVE  PoolEntrySize(sid, sid[e]) = Bytes(e)
<1> DEFINE bytes == {Bytes(o) : o \in {o \in Entries(g) : sid[o] = sid[e]}}
<1>1. /\ Bytes(e) \in bytes /\ \A c \in bytes : c \in Int /\ c <= Bytes(e)
  OBVIOUS
<1> HIDE DEF bytes
<1>2. \A b \in bytes : (\A c \in bytes : c <= b) => b = Bytes(e)
  BY <1>1
<1>3. (CHOOSE b \in bytes : \A c \in bytes : c <= b) = Bytes(e)
  BY <1>1, <1>2
<1> QED BY <1>3 DEF PoolEntrySize, bytes

(* Entries have sizes, and a storage that has entries a largest one.       *)
LEMMA StorageHasSize ==
  ASSUME g \in Graphs, NEW sid, NEW x \in Entries(g)
  PROVE  PoolEntrySize(sid, sid[x]) \in Int
<1>1. \A e \in Entries(g) : Bytes(e) \in Int
  BY GraphFacts DEF Bytes
<1> DEFINE On == {o \in Entries(g) : sid[o] = sid[x]}
           bytes == {Bytes(o) : o \in On}
           size == [o \in On |-> Bytes(o)]
<1>2. IsFiniteSet(On)
  <2>1. g.num_entries - 1 \in Int /\ 0 \in Int
    BY GraphFacts
  <2>2. IsFiniteSet(Entries(g))
    BY <2>1, FS_Interval DEF Entries
  <2> QED BY <2>2, FS_Subset
<1>3. IsFiniteSet(bytes)
  <2>1. size \in Surjection(On, bytes)
    BY DEF Surjection
  <2> QED BY <1>2, <2>1, FS_Surjection
<1>4. bytes \subseteq Int /\ bytes # {}
  BY <1>1
<1>5. PICK m \in bytes : \A k \in bytes : k <= m
  <2> HIDE DEF bytes
  <2> QED BY <1>3, <1>4, LargestNumber
<1>6. PICK e \in Entries(g) : sid[e] = sid[x] /\ Bytes(e) = m
  BY <1>5
<1>7. PoolEntrySize(sid, sid[e]) = Bytes(e)
  BY <1>1, <1>5, <1>6, LargestOnStorage
<1> QED BY <1>1, <1>6, <1>7

(* What a plan accounts for is the sizes of the storages that it uses.     *)
LEMMA PlanIsAccounted ==
  ASSUME Inv, StorageFits, NoSpareBytes
  PROVE  TotalAllocBytes = PoolSize(storage, {storage[e] : e \in Entries(g)} \ {kBadStorageID})
<1> DEFINE sids == {storage[e] : e \in Entries(g)} \ {kBadStorageID}
           h == [s \in Storages |-> PoolEntrySize(storage, s)]
<1>0. g \in Graphs
  BY DEF Inv
<1>1. \A s \in Storages : \E e \in Placed : storage[e] = s /\ data[s].max_bytes = Bytes(e)
  BY DEF NoSpareBytes
<1>2. sids = Storages
  BY <1>1, AccountFacts DEF Placed, kBadStorageID
<1>3. /\ TotalAllocBytes = SumFunctionOnSet(MaxBytes, Storages) /\ IsFiniteSet(Storages)
      /\ \A s \in Storages : MaxBytes[s] = data[s].max_bytes /\ data[s].max_bytes \in Nat
  BY AccountsAreSums DEF AccountSums
<1>4. ASSUME NEW s \in Storages PROVE h[s] = MaxBytes[s]
  <2>1. PICK e \in Placed : storage[e] = s /\ data[s].max_bytes = Bytes(e)
    BY <1>1
  <2>2. e \in Entries(g) /\ Bytes(e) \in Int /\ s # kBadStorageID
    BY <2>1, AccountFacts DEF Placed, kBadStorageID
  <2>3. \A o \in Entries(g) : storage[o] = storage[e] => Bytes(o) \in Int /\ Bytes(o) <= Bytes(e)
    BY <2>1, <2>2, AccountFacts DEF StorageFits
  <2>4. PoolEntrySize(storage, storage[e]) = Bytes(e)
    BY <2>2, <2>3, LargestOnStorage
  <2> QED BY <1>3, <2>1, <2>4
<1>5. SumFunctionOnSet(MaxBytes, Storages) = SumFunctionOnSet(h, Storages)
  <2>1. \A s \in Storages : MaxBytes[s] \in Int /\ h[s] = MaxBytes[s]
    BY <1>3, <1>4
  <2> HIDE DEF h
  <2> QED BY <1>3, <2>1, SumOfEqual
<1> QED BY <1>2, <1>3, <1>5 DEF PoolSize

(* Decorating a plan adds the variables' sizes to it.                      *)
LEMMA DecoratedPlanAccounted ==
  ASSUME g \in Graphs,
         NEW sid \in [Entries(g) -> -1 .. g.num_entries - 1],
         \A e \in OpEntries(g) : sid[e] >= 0,
         \A v \in VariableEntries(g) : sid[v] = kBadStorageID
  PROVE  LET d == DecorateMemoryPlan(g, sid)
         IN PoolSize(d, {d[e] : e \in Entries(g)})
              = PoolSize(sid, {sid[e] : e \in Entries(g)} \ {kBadStorageID})
                + 4 * SumFunctionOnSet(g.size, VariableEntries(g))
<1> DEFINE d == DecorateMemoryPlan(g, sid)
           vs == VariableEntries(g)
           S == {d[e] : e \in Entries(g)}
           A == {sid[e] : e \in Entries(g)} \ {kBadStorageID}
           B == {d[v] : v \in vs}
           f == [s \in A |-> PoolEntrySize(sid, s)]
           h == [s \in S |-> PoolEntrySize(d, s)]
<1>1. /\ WellFormed(g) /\ VariablesHaveOneOutput(g)
  BY GraphsAssumption, CvmOpAssumption
<1>2. /\ \A e \in OpEntries(g) : d[e] = sid[e]
      /\ \A v \in vs, e \in Entries(g) : v # e => d[v] # d[e]
  BY <1>1, DecoratedPlan DEF VariablesAlone
<1>3. /\ vs \subseteq Entries(g) /\ OpEntries(g) \subseteq Entries(g)
      /\ \A e \in Entries(g) : e \in vs \/ e \in OpEntries(g)
      /\ \A e \in OpEntries(g) : sid[e] # kBadStorageID
      /\ \A v \in vs : sid[v] = kBadStorageID
  BY DEF OpEntries, VariableEntries, kBadStorageID
<1>4. IsFiniteSet(Entries(g)) /\ IsFiniteSet(vs)
  <2>1. g.num_entries - 1 \in Int /\ 0 \in Int
    BY GraphFacts
  <2>2. IsFiniteSet(Entries(g))
    BY <2>1, FS_Interval DEF Entries
  <2> QED BY <1>3, <2>2, FS_Subset
<1>5. \A e \in Entries(g) : Bytes(e) = 4 * g.size[e] /\ g.size[e] \in Int /\ Bytes(e) \in Int
  BY GraphFacts DEF Bytes
<1> HIDE DEF d, vs
<1>6. S = A \cup B /\ A \cap B = {}
  <2>1. \A s \in A : \E e \in OpEntries(g) : s = d[e]
    BY <1>2, <1>3
  <2>2. \A e \in OpEntries(g) : d[e] \in A
    BY <1>2, <1>3
  <2>3. S = A \cup B
    <3> SUFFICES \A s : s \in S <=> s \in A \cup B
      OBVIOUS
    <3>1. \A s : s \in S => s \in A \cup B
      BY <1>3, <2>2
    <3>2. \A s \in A \cup B : s \in S
      BY <1>3, <2>1
    <3> QED BY <3>1, <3>2
  <2>4. \A v \in vs, e \in OpEntries(g) : d[v] # d[e]
    BY <1>2, <1>3
  <2>5. \A s \in A, v \in vs : d[v] # s
    BY <2>1, <2>4
  <2>6. A \cap B = {}
    <3> HIDE DEF A
    <3> QED BY <2>5
  <2> QED BY <2>3, <2>6
<1>7. IsFiniteSet(A) /\ IsFiniteSet(B)
  <2> DEFINE T == {sid[e] : e \in Entries(g)}
  <2>1. [e \in Entries(g) |-> sid[e]] \in Surjection(Entries(g), T)
    BY DEF Surjection
  <2>2. IsFiniteSet(T)
    BY <1>4, <2>1, FS_Surjection
  <2>3. [v \in vs |-> d[v]] \in Surjection(vs, B)
    BY DEF Surjection
  <2>4. IsFiniteSet(B)
    BY <1>4, <2>3, FS_Surjection
  <2> QED BY <2>2, <2>4, FS_Subset
<1>8. ASSUME NEW s \in A PROVE f[s] \in Int /\ h[s] = f[s]
  <2>1. PICK x \in OpEntries(g) : sid[x] = s /\ d[x] = s /\ x \in Entries(g)
    BY <1>2, <1>3
  <2>2. \A o \in Entries(g) : d[o] = s <=> sid[o] = s
    BY <1>2, <1>3, <2>1
  <2>3. {o \in Entries(g) : d[o] = s} = {o \in Entries(g) : sid[o] = s}
    BY <2>2
  <2>4. PoolEntrySize(d, s) = PoolEntrySize(sid, s)
    BY <2>3 DEF PoolEntrySize
  <2>5. PoolEntrySize(sid, s) \in Int
    BY <2>1, StorageHasSize
  <2>6. s \in S
    BY <1>6
  <2> QED BY <2>4, <2>5, <2>6
<1>9. ASSUME NEW v \in vs PROVE h[d[v]] = 4 * g.size[v]
  <2>1. v \in Entries(g) /\ Bytes(v) \in Int
    BY <1>3, <1>5
  <2>2. \A o \in Entries(g) : d[o] = d[v] => Bytes(o) \in Int /\ Bytes(o) <= Bytes(v)
    BY <1>2, <1>5
  <2>3. PoolEntrySize(d, d[v]) = Bytes(v)
    BY <2>1, <2>2, LargestOnStorage
  <2>4. d[v] \in S
    BY <2>1
  <2> QED BY <1>5, <2>1, <2>3, <2>4
<1>10. SumFunctionOnSet(h, A) = SumFunctionOnSet(f, A)
  <2>1. \A s \in A : f[s] \in Int /\ h[s] = f[s]
    BY <1>8
  <2> HIDE DEF A, f, h
  <2> QED BY <1>7, <2>1, SumOfEqual
<1>11. SumFunctionOnSet(h, B) = 4 * SumFunctionOnSet(g.size, vs)
  <2> DEFINE size == g.size
  <2>1. /\ \A x, y \in vs : d[x] = d[y] => x = y
        /\ \A v \in vs : size[v] \in Int
        /\ \A v \in vs : h[d[v]] = 4 * size[v]
    BY <1>2, <1>3, <1>5, <1>9
  <2> HIDE DEF h, size
  <2>2. SumFunctionOnSet(h, {d[v] : v \in vs}) = 4 * SumFunctionOnSet(size, vs)
    BY <1>4, <2>1, SumOfImage
  <2> QED BY <2>2 DEF size
<1>12. SumFunctionOnSet(h, A \cup B) = SumFunctionOnSet(h, A) + SumFunctionOnSet(h, B)
  <2>1. \A s \in A \cup B : h[s] \in Int
    <3>1. \A s \in A : h[s] \in Int
      BY <1>8
    <3>2. \A v \in vs : h[d[v]] \in Int
      BY <1>3, <1>5, <1>9
    <3> HIDE DEF h, A
    <3> QED BY <3>1, <3>2
  <2> HIDE DEF A, B, h
  <2> QED BY <1>6, <1>7, <2>1, SumOfUnion
<1>13. /\ PoolSize(d, S) = SumFunctionOnSet(h, S)
       /\ PoolSize(sid, A) = SumFunctionOnSet(f, A)
  BY DEF PoolSize
<1> HIDE DEF S, A, B, f, h
<1>14. PoolSize(d, S) = PoolSize(sid, A) + 4 * SumFunctionOnSet(g.size, vs)
  BY <1>6, <1>10, <1>11, <1>12, <1>13
<1> QED BY <1>14 DEF S, A, d, vs

-----------------------------------------------------------------------------
(* The planner's steps under GraphCompile.                                 *)

CInv == g \in Graphs /\ CompileInv

(* cvm_op shares nothing in place: a step of the pass leaves the graph and *)
(* every entry's value, and gives what it sweeps a storage or counts it.   *)
LEMMA PassAllocates ==
  ASSUME CInv, Next
  PROVE  g' = g /\ value' = OwnValue /\ AllocatedSoFar' /\ PublishedPlanComplete'
<1> DEFINE Step == \A e \in OpEntries(g) :
             Swept(e)' /\ num_not_allocated' = 0
               => num_not_allocated = 0 /\ ((Swept(e) \/ storage[e] >= 0) /\ (storage[e] >= 0 => storage'[e] >= 0))
<1>1. /\ g \in Graphs /\ TypeOK /\ InTurn /\ value = OwnValue
      /\ AllocatedSoFar /\ PublishedPlanComplete
  BY DEF CInv, CompileInv, PlannerInv
<1>2. \A n \in Nodes(g) : DOMAIN g.inplace[n] = {}
  BY <1>1, CvmOpAssumption
<1>3. /\ g.num_nodes \in Nat /\ nid \in Nat /\ num_not_allocated \in Nat
      /\ \A e \in OpEntries(g) : /\ e \in Entries(g) /\ g.source[e] \in Nat
                                 /\ g.source[e] < g.num_nodes
                                 /\ g.source[e] \notin g.variables
                                 /\ storage[e] \in Int
  <2>1. g.num_nodes \in Nat /\ \A e \in Entries(g) : g.source[e] \in Nodes(g)
    BY <1>1, GraphFacts
  <2>2. nid \in Nat /\ num_not_allocated \in Nat
    BY <1>1, <2>1 DEF TypeOK
  <2>3. \A e \in Entries(g) : storage[e] \in Int
    BY <1>1 DEF TypeOK, kBadStorageID
  <2> QED BY <2>1, <2>2, <2>3 DEF OpEntries, VariableEntries, Nodes
<1>4. ASSUME g' = g, best' = best, value' = value, Step
      PROVE  g' = g /\ value' = OwnValue /\ AllocatedSoFar' /\ PublishedPlanComplete'
  <2>1. value' = OwnValue
    BY <1>1, <1>4
  <2>2. PublishedPlanComplete'
    BY <1>1, <1>4 DEF PublishedPlanComplete, OwnValue, OpEntries, VariableEntries, Entries
  <2>3. OpEntries(g)' = OpEntries(g)
    BY <1>4 DEF OpEntries, VariableEntries, Entries
  <2>4. AllocatedSoFar'
    BY <1>1, <1>4, <2>3 DEF AllocatedSoFar
  <2> QED BY <1>4, <2>1, <2>2, <2>4
<1> HIDE DEF Step
<1>5. CASE StartRound
  <2>1. g' = g /\ best' = best /\ value' = OwnValue
    BY <1>5 DEF StartRound, search, OwnValue
  <2>2. Step
    BY <1>3, <1>5, <2>1 DEF Step, StartRound, Swept
  <2> QED BY <1>1, <1>4, <2>1, <2>2
<1>6. CASE SkipVariable
  <2>1. Step
    BY <1>3, <1>6 DEF Step, SkipVariable, Swept, plan, search
  <2> QED BY <1>4, <1>6, <2>1 DEF SkipVariable, plan, search
<1>7. CASE ShareInplace \/ SkipPair
  BY <1>2, <1>7 DEF ShareInplace, SkipPair, AtPair
<1>8. CASE SortOutputs \/ StartFreeing
  <2>1. Step
    BY <1>3, <1>8 DEF Step, SortOutputs, StartFreeing, Swept, plan, search
  <2> QED BY <1>4, <1>8, <2>1 DEF SortOutputs, StartFreeing, plan, search
<1>9. ASSUME NEW e \in todo, RequestShapeless(e) PROVE Step /\ g' = g /\ best' = best /\ value' = value
  BY <1>3, <1>9 DEF Step, RequestShapeless, NextRequest, Swept, search
<1>10. ASSUME NEW e \in todo, NEW s \in 0 .. num_data - 1, RequestReuse(e, s)
       PROVE  Step /\ g' = g /\ best' = best /\ value' = value
  <2>1. \A x \in OpEntries(g) : storage[x] >= 0 => storage'[x] >= 0
    BY <1>1, <1>3, <1>10 DEF RequestReuse, TypeOK
  <2> QED BY <1>3, <1>10, <2>1 DEF Step, RequestReuse, NextRequest, Swept, search
<1>11. ASSUME NEW e \in todo, RequestAlloc(e)
       PROVE  Step /\ g' = g /\ best' = best /\ value' = value
  <2>1. num_data >= 0
    BY <1>1, GraphFacts DEF TypeOK
  <2>2. \A x \in OpEntries(g) : storage[x] >= 0 => storage'[x] >= 0
    BY <1>1, <1>3, <1>11, <2>1 DEF RequestAlloc, TypeOK
  <2> QED BY <1>3, <1>11, <2>2 DEF Step, RequestAlloc, NextRequest, Swept, search
<1>12. CASE FreeInput
  <2>1. Step
    BY <1>3, <1>12 DEF Step, FreeInput, Swept, plan, search
  <2> QED BY <1>4, <1>12, <2>1 DEF FreeInput, plan, search
<1>13. CASE StartSweep
  <2>1. Step
    BY <1>3, <1>13 DEF Step, StartSweep, Swept, OutputsOf, plan, search
  <2> QED BY <1>4, <1>13, <2>1 DEF StartSweep, plan, search
<1>14. ASSUME NEW e \in todo, SweepOutput(e)
       PROVE  Step /\ g' = g /\ best' = best /\ value' = value
  <2>1. num_not_allocated' = 0 => num_not_allocated = 0 /\ storage[e] # -1
    BY <1>3, <1>14 DEF SweepOutput, kBadStorageID
  <2>2. \A x \in OpEntries(g) : Swept(x)' => Swept(x) \/ x = e
    BY <1>14 DEF SweepOutput, Swept, search
  <2>3. storage' = storage
    BY <1>14 DEF SweepOutput
  <2>4. \A x \in OpEntries(g) : storage[x] # -1 => storage[x] >= 0
    BY <1>1, <1>3 DEF TypeOK, kBadStorageID
  <2>5. Step
    BY <2>1, <2>2, <2>3, <2>4 DEF Step
  <2> QED BY <1>14, <2>5 DEF SweepOutput, search
<1>15. CASE NextNode
  <2>1. Step
    BY <1>3, <1>15 DEF Step, NextNode, Swept, plan, search
  <2> QED BY <1>4, <1>15, <2>1 DEF NextNode, plan, search
<1>16. CASE EndRound
  <2>1. g' = g /\ value' = OwnValue /\ storage' = storage /\ best' \subseteq best \cup {ThisPlan}
    BY <1>1, <1>16 DEF EndRound, plan
  <2>2. AllocatedSoFar'
    BY <1>1, <1>3, <1>16 DEF EndRound, plan, AllocatedSoFar, Swept, OpEntries, VariableEntries, Entries
  <2>3. num_not_allocated = 0 => \A e \in OpEntries(g) : storage[e] >= 0
    BY <1>1, <1>3, <1>16 DEF EndRound, AllocatedSoFar, Swept
  <2>4. storage \in [Entries(g) -> -1 .. g.num_entries - 1]
    <3>1. num_data \in Int /\ num_data <= g.num_entries /\ g.num_entries \in Nat
      BY <1>1, GraphFacts DEF TypeOK
    <3>2. {kBadStorageID} \cup 0 .. num_data - 1 \subseteq -1 .. g.num_entries - 1
      BY <3>1 DEF kBadStorageID
    <3> QED BY <1>1, <3>2 DEF TypeOK
  <2>5. /\ ThisPlan.storage_id = storage /\ ThisPlan.value = OwnValue
        /\ ThisPlan.not_allocated = num_not_allocated
    BY <1>1 DEF ThisPlan
  <2>6. PublishedPlanComplete'
    <3> SUFFICES ASSUME NEW p \in best'
                 PROVE  /\ p.storage_id \in [Entries(g) -> -1 .. g.num_entries - 1]
                        /\ p.value = OwnValue
                        /\ p.not_allocated = 0 => \A e \in OpEntries(g) : p.storage_id[e] >= 0
      BY <2>1 DEF PublishedPlanComplete, OwnValue, OpEntries, VariableEntries, Entries
    <3>1. CASE p \in best
      BY <1>1, <3>1 DEF PublishedPlanComplete
    <3>2. CASE p = ThisPlan
      BY <2>3, <2>4, <2>5, <3>2
    <3> QED BY <2>1, <3>1, <3>2
  <2> QED BY <2>1, <2>2, <2>6
<1>17. CASE Return \/ Done
  <2>1. Step
    BY <1>3, <1>17 DEF Step, Return, Done, Swept, vars, loop, plan, search
  <2> QED BY <1>4, <1>17, <2>1 DEF Return, Done, vars, plan, search
<1> QED
  BY <1>4, <1>5, <1>6, <1>7, <1>8, <1>9, <1>10, <1>11, <1>12, <1>13, <1>14, <1>15,
     <1>16, <1>17 DEF Next

-----------------------------------------------------------------------------
(* The composition.                                                        *)

LEMMA CompileInitInv == CompileInit => CInv
<1> SUFFICES ASSUME CompileInit PROVE CInv
  OBVIOUS
<1>1. g \in Graphs /\ PlannerInv /\ AccountInv
  BY AccountInitInv DEF CompileInit, Inv
<1>2. storage_id \in [Entries(g) -> Int]
  BY DEF CompileInit, PerEntry, kBadStorageID
<1>3. value = OwnValue /\ PublishedPlanComplete /\ PublishedPlanAccounted
  BY DEF CompileInit, Init, OwnValue, PublishedPlanComplete, PublishedPlanAccounted
<1>4. AllocatedSoFar
  <2>1. \A e \in OpEntries(g) : g.source[e] \in Nat
    BY <1>1, GraphFacts DEF OpEntries, Nodes
  <2> QED BY <2>1 DEF CompileInit, Init, AllocatedSoFar, Swept
<1> QED BY <1>1, <1>2, <1>3, <1>4 
        DEF CompileInit, CInv, CompileInv, CompiledPlanRuns, PoolIsWhatWasPlanned

(* A step of the pass keeps the planner's invariants.                      *)
LEMMA PassInvariants == CInv /\ [Next]_vars => (Inv /\ AccountInv)'
<1>1. CInv => Inv /\ AccountInv
  BY DEF CInv, CompileInv, Inv
<1>2. Inv /\ AccountInv /\ [Next]_vars => (Inv /\ AccountInv)'
  BY AccountsNext
<1> QED BY <1>1, <1>2

(* The pass publishes what it accounted for.                               *)
LEMMA PassPublishesAccounts ==
  ASSUME CInv, Next
  PROVE  PublishedPlanAccounted'
<1>1. g' = g /\ Inv /\ AccountInv /\ PublishedPlanAccounted
  BY PassAllocates DEF CInv, CompileInv, Inv
<1>2. best' \subseteq best \cup {ThisPlan}
  BY DEF Next, vars, search, StartRound, SkipVariable, ShareInplace, SkipPair, SortOutputs,
     RequestShapeless, RequestReuse, RequestAlloc, NextRequest, StartFreeing, FreeInput,
     StartSweep, SweepOutput, NextNode, EndRound, Return, Done
<1> DEFINE Accounted(p) ==
      /\ \A v \in VariableEntries(g) : p.storage_id[v] = kBadStorageID
      /\ p.allocated_bytes =
           PoolSize(p.storage_id, {p.storage_id[e] : e \in Entries(g)} \ {kBadStorageID})
<1>3. \A p \in best : Accounted(p)
  BY <1>1 DEF PublishedPlanAccounted
<1>4. Accounted(ThisPlan)
  <2>1. ThisPlan.storage_id = storage /\ ThisPlan.allocated_bytes = TotalAllocBytes
    BY DEF ThisPlan
  <2>2. \A v \in VariableEntries(g) : storage[v] = kBadStorageID
    BY <1>1, AccountFacts
    DEF AccountInv, VariablesUnplaced, Placed, VariableEntries, kBadStorageID, Storages
  <2>3. TotalAllocBytes = PoolSize(storage, {storage[e] : e \in Entries(g)} \ {kBadStorageID})
    BY <1>1, PlanIsAccounted DEF AccountInv
  <2> QED BY <2>1, <2>2, <2>3
<1>5. \A p \in best' : Accounted(p)
  <2> HIDE DEF Accounted
  <2> QED BY <1>2, <1>3, <1>4
<1> QED BY <1>1, <1>5, SamePool DEF PublishedPlanAccounted
LEMMA ApplyPlanMemoryInv == CInv /\ ApplyPlanMemory => CInv'
<1> SUFFICES ASSUME CInv, ApplyPlanMemory PROVE CInv'
  OBVIOUS
<1>1. Inv' /\ AccountInv'
  BY PassInvariants DEF ApplyPlanMemory
<1>2. /\ g' = g /\ value' = OwnValue /\ AllocatedSoFar' /\ PublishedPlanComplete'
      /\ PublishedPlanAccounted'
  BY PassAllocates, PassPublishesAccounts DEF ApplyPlanMemory
<1>3. status' = "planning" /\ storage_id' = storage_id
  BY DEF ApplyPlanMemory
<1>4. storage_id' \in [Entries(g') -> Int] /\ OwnValue' = OwnValue
  BY <1>2, <1>3 DEF CInv, CompileInv, Entries, OwnValue
<1> QED BY <1>1, <1>2, <1>3, <1>4
        DEF CInv, CompileInv, CompiledPlanRuns, PoolIsWhatWasPlanned, Inv

(* What an idle pass leaves of the invariant.                              *)
LEMMA IdlePass ==
  ASSUME CInv, UNCHANGED vars
  PROVE  /\ Inv' /\ AccountInv' /\ g' = g
         /\ (value = OwnValue /\ AllocatedSoFar /\ PublishedPlanComplete)'
         /\ PublishedPlanAccounted'
<1>1. Inv' /\ AccountInv' /\ g' = g
  BY PassInvariants DEF vars, search
<1>2. (value = OwnValue /\ AllocatedSoFar /\ PublishedPlanComplete)'
  BY DEF CInv, CompileInv, vars, loop, plan, search, OwnValue, AllocatedSoFar, Swept,
     PublishedPlanComplete, OpEntries, VariableEntries, Entries
<1>3. PublishedPlanAccounted'
  BY <1>1, SamePool DEF CInv, CompileInv, vars, search, PublishedPlanAccounted
<1> QED BY <1>1, <1>2, <1>3

LEMMA ApplyDecorateInv == CInv /\ ApplyDecorate => CInv'
<1> SUFFICES ASSUME CInv, ApplyDecorate PROVE CInv'
  OBVIOUS
<1>1. UNCHANGED vars /\ Inv
  BY DEF ApplyDecorate, CInv, CompileInv, Inv
<1>2. /\ Inv' /\ AccountInv' /\ g' = g
      /\ (value = OwnValue /\ AllocatedSoFar /\ PublishedPlanComplete)'
      /\ PublishedPlanAccounted'
  BY <1>1, IdlePass
<1>3. g' = g
  BY <1>2
<1>4. PICK p \in best : p.not_allocated = 0 /\ storage_id' = DecorateMemoryPlan(g, p.storage_id)
  BY DEF ApplyDecorate
<1>5. /\ p.storage_id \in [Entries(g) -> -1 .. g.num_entries - 1]
      /\ p.value = OwnValue
      /\ \A e \in OpEntries(g) : p.storage_id[e] >= 0
  BY <1>4 DEF CInv, CompileInv, PublishedPlanComplete
<1>6. SafeStorage(g, p.storage_id, OwnValue)
  BY <1>5 DEF CInv, CompileInv, PlannerInv, PublishedPlanIsSafe
<1>7. /\ storage_id' \in [Entries(g) -> Int]
      /\ SafeStorage(g, storage_id', OwnValue)
      /\ VariablesAlone(g, storage_id')
      /\ PassesReuseCheck(g, storage_id', {})
  BY <1>1, <1>4, <1>5, <1>6, DecoratedPlanRuns DEF Inv
<1>8. CompiledPlanRuns'
  BY <1>3, <1>7 DEF CompiledPlanRuns, OwnValue
<1>9. PoolIsWhatWasPlanned'
  <2>1. /\ \A v \in VariableEntries(g) : p.storage_id[v] = kBadStorageID
        /\ p.allocated_bytes =
             PoolSize(p.storage_id, {p.storage_id[e] : e \in Entries(g)} \ {kBadStorageID})
    BY <1>4 DEF CInv, CompileInv, PublishedPlanAccounted
  <2>2. PoolSize(storage_id', {storage_id'[e] : e \in Entries(g)})
          = p.allocated_bytes + 4 * SumFunctionOnSet(g.size, VariableEntries(g))
    BY <1>1, <1>4, <1>5, <2>1, DecoratedPlanAccounted DEF Inv
  <2>3. GetStorageSize' = p.allocated_bytes + 4 * SumFunctionOnSet(g.size, VariableEntries(g))
    BY <1>3, <2>2, SamePool DEF GetStorageSize
  <2>4. p \in best' /\ VariableEntries(g)' = VariableEntries(g)
    BY <1>1, <1>3, <1>4 DEF vars, search, VariableEntries, Entries
  <2> QED BY <1>3, <2>3, <2>4 DEF PoolIsWhatWasPlanned
<1>10. status' = "compiled"
  BY DEF ApplyDecorate
<1>11. storage_id' \in [Entries(g') -> Int]
  BY <1>3, <1>7
<1> QED BY <1>2, <1>8, <1>9, <1>10, <1>11 DEF CInv, CompileInv, Inv

(* Nothing that the invariant reads changes but status, and it does not    *)
(* become "compiled".                                                      *)
LEMMA StopInv ==
  ASSUME CInv, UNCHANGED <<vars, storage_id>>, status' \in {status, "refused"}
  PROVE  CInv'
<1>1. /\ Inv' /\ AccountInv'
      /\ (value = OwnValue /\ AllocatedSoFar /\ PublishedPlanComplete)'
      /\ PublishedPlanAccounted'
  BY IdlePass
<1>2. PoolIsWhatWasPlanned'
  <2>1. UNCHANGED <<g, best, storage_id>>
    BY DEF vars, search
  <2>2. GetStorageSize' = GetStorageSize /\ VariableEntries(g)' = VariableEntries(g)
    BY <2>1, SamePool DEF GetStorageSize
  <2> QED BY <2>1, <2>2 DEF CInv, CompileInv, PoolIsWhatWasPlanned
<1>3. storage_id' \in [Entries(g') -> Int]
  BY DEF CInv, CompileInv, vars, search, Entries
<1>4. CompiledPlanRuns'
  BY DEF CInv, CompileInv, CompiledPlanRuns, vars, search, SafeStorage, VariablesAlone,
     PassesReuseCheck, VariableEntries, Entries
<1>5. status' \in {"planning", "compiled", "refused"}
  BY DEF CInv, CompileInv
<1> QED BY <1>1, <1>2, <1>3, <1>4, <1>5 DEF CInv, CompileInv, Inv

LEMMA CompileNextInv == CInv /\ [CompileNext]_compileVars => CInv'
<1> SUFFICES ASSUME CInv, [CompileNext]_compileVars PROVE CInv'
  OBVIOUS
<1>1. CASE ApplyPlanMemory
  BY <1>1, ApplyPlanMemoryInv
<1>2. CASE ApplyDecorate
  BY <1>2, ApplyDecorateInv
<1>3. CASE RefusePlan
  <2>1. UNCHANGED <<vars, storage_id>> /\ status' = "refused"
    BY <1>3 DEF RefusePlan
  <2> QED BY <2>1, StopInv
<1>4. CASE Finished \/ UNCHANGED compileVars
  <2>1. UNCHANGED <<vars, storage_id>> /\ status' = status
    BY <1>4 DEF Finished, compileVars
  <2> QED BY <2>1, StopInv
<1> QED BY <1>1, <1>2, <1>3, <1>4 DEF CompileNext

(* Every plan that GraphCompile emits runs: PlanMemory and                 *)
(* DecorateMemoryPlan, for any graph, match range and search mode.         *)
THEOREM CompiledPlansRun == CompileSpec => []CompiledPlanRuns
<1>1. CInv => CompiledPlanRuns
  BY DEF CInv, CompileInv
<1> QED BY <1>1, CompileInitInv, CompileNextInv, PTL DEF CompileSpec

(* What the runtime allocates for an emitted plan is what the pass         *)
(* accounted for it, and the variables (CvmRuntime::PlanStorage,           *)
(* GraphAllocator::TotalAllocBytes).                                       *)
THEOREM PoolsAsPlanned == CompileSpec => []PoolIsWhatWasPlanned
<1>1. CInv => PoolIsWhatWasPlanned
  BY DEF CInv, CompileInv
<1> QED BY <1>1, CompileInitInv, CompileNextInv, PTL DEF CompileSpec
=============================================================================
