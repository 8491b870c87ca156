------------------------- MODULE GraphRuntimeProofs -------------------------
(***************************************************************************)
(* The executor computes what the graph says, for every graph, parameters, *)
(* data and plan that the compiler may emit: no storage that is still read *)
(* is written, no operator touches a parameter, and every answer is that   *)
(* of a dataflow with unshared cells.                                      *)
(***************************************************************************)
EXTENDS GraphRuntime, MemoryPlanProofs

-----------------------------------------------------------------------------
(* Facts about the loaded graph and its plan.                              *)

LEMMA LoadedGraph ==
  ASSUME g \in Graphs
  PROVE  /\ WellFormed(g) /\ VariablesHaveOneOutput(g)
         /\ \A n \in Nodes(g) : g.ignored[n] = {}
         /\ DataNode \in g.variables
         /\ g.num_nodes \in Nat /\ g.num_entries \in Nat
         /\ \A e \in Entries(g) : g.source[e] \in Nodes(g) /\ g.source[e] \in Nat
         /\ g.variables \subseteq Nodes(g)
         /\ Nodes(g) \subseteq Nat
BY DataAssumption DEF WellFormed, GraphTypes, VariablesHaveOneOutput, Nodes

(* Variable(v) is the one output of v.                                     *)
LEMMA VariableFacts ==
  ASSUME g \in Graphs, NEW v \in g.variables
  PROVE  /\ Variable(v) \in VariableEntries(g) /\ Variable(v) \in Entries(g)
         /\ g.source[Variable(v)] = v
         /\ \A e \in Entries(g) : g.source[e] = v => e = Variable(v)
<1>1. PICK x \in Entries(g) : OutputsOf(g, v) = {x}
  BY LoadedGraph DEF VariablesHaveOneOutput
<1>2. x \in Entries(g) /\ g.source[x] = v
  BY <1>1 DEF OutputsOf
<1>3. Variable(v) \in Entries(g) /\ g.source[Variable(v)] = v
  BY <1>2 DEF Variable
<1>4. \A e \in Entries(g) : g.source[e] = v => e = x
  BY <1>1 DEF OutputsOf
<1> QED BY <1>3, <1>4 DEF VariableEntries

(* The storage of a variable is that of no other entry.                    *)
LEMMA StorageOfVariable ==
  ASSUME g \in Graphs, PlanSound, NEW v \in g.variables, NEW e \in Entries(g),
         g.source[e] # v
  PROVE  storage_id[e] # storage_id[Variable(v)]
BY VariableFacts DEF PlanSound, VariablesAlone

(* An output shares the storage of no entry that is read later.            *)
LEMMA NothingReadLaterIsOverwritten ==
  ASSUME g \in Graphs, PlanSound, \A e \in Entries(g) : storage_id[e] >= 0,
         NEW o \in Entries(g), NEW e \in Entries(g), o # e,
         g.source[e] <= g.source[o],
         NEW u \in Uses(g, e), u[1] > g.source[o]
  PROVE  storage_id[e] # storage_id[o]
<1>1. u \in AllUses(g)
  BY DEF Uses
<1>2. u[1] \in Int /\ g.source[o] \in Int
  BY <1>1, UsesFollowSource, LoadedGraph
<1>3. ~ (u[1] < g.source[o]) /\ u[1] # g.source[o]
  BY <1>2
<1> QED BY <1>3 DEF PlanSound, SafeStorage

(* An output shares an argument's storage only where the kernel can work   *)
(* in place.                                                               *)
LEMMA SharedArgumentIsInplace ==
  ASSUME g \in Graphs, PlanSound, \A e \in Entries(g) : storage_id[e] >= 0,
         NEW n \in Nodes(g), NEW o \in OutputsOf(g, n), NEW i \in InputPositions(g, n),
         storage_id[g.inputs[n][i]] = storage_id[o]
  PROVE  \E p \in DOMAIN g.inplace[n] :
           g.inplace[n][p].in = i /\ g.inplace[n][p].out = o
<1> DEFINE a == g.inputs[n][i]
           u == <<n, i>>
<1>1. u \in AllUses(g) /\ UsedEntry(g, u) = a /\ a \in Entries(g)
  BY LoadedGraph, ReadsAreUses
<1>2. u \in Uses(g, a)
  BY <1>1 DEF Uses
<1>3. g.source[a] < n /\ g.source[a] \in Nat /\ n \in Nat
  <2>1. g.source[a] < u[1]
    BY <1>1, LoadedGraph, UsesFollowSource
  <2> QED BY <1>1, <2>1, LoadedGraph
<1>4. o \in Entries(g) /\ g.source[o] = n
  BY DEF OutputsOf
<1>5. o # a /\ g.source[a] <= g.source[o] /\ ~ (u[1] < g.source[o])
  BY <1>3, <1>4
<1> HIDE DEF a
<1> QED BY <1>1, <1>2, <1>4, <1>5 DEF PlanSound, SafeStorage, a

-----------------------------------------------------------------------------
(* The inductive invariant, of a graph that may be loaded.                 *)

RInv == g \in Graphs /\ RuntimeInv

(* The graph and the plan are never written.                               *)
LEMMA SameModel ==
  ASSUME g' = g, storage_id' = storage_id, PlanSound
  PROVE  /\ PlanSound' /\ Storages' = Storages /\ Entries(g)' = Entries(g)
         /\ \A v : Variable(v)' = Variable(v)
         /\ \A e \in Entries(g) : data_entry_'[e] = mem'[storage_id[e]]
<1>1. PlanSound'
  BY DEF PlanSound
<1>2. Entries(g)' = Entries(g)
  OBVIOUS
<1>3. \A v : Variable(v)' = Variable(v)
  BY <1>2 DEF Variable
<1> QED BY <1>1, <1>2, <1>3 DEF Storages, data_entry_

(* Inputs are held on when the entries of the variables are kept.          *)
LEMMA InputsKept ==
  ASSUME RInv, g' = g, storage_id' = storage_id, set_flag' = set_flag,
         pc' = "run" => pc = "run",
         \A v \in g.variables :
           /\ data_entry_'[Variable(v)] = data_entry_[Variable(v)]
           /\ cell'[Variable(v)] = cell[Variable(v)]
  PROVE  InputsHeld'
<1>1. InputsHeld /\ PlanSound
  BY DEF RInv, RuntimeInv
<1> SUFFICES ASSUME NEW v \in g.variables
             PROVE  /\ v \in set_flag \/ (v = DataNode /\ pc' = "run")
                          => data_entry_'[Variable(v)] = cell'[Variable(v)]
                    /\ v \in set_flag \ {DataNode} => Fits(cell'[Variable(v)])
  BY <1>1, SameModel DEF InputsHeld
<1> QED BY <1>1 DEF InputsHeld

LEMMA TypeFacts ==
  ASSUME RInv
  PROVE  /\ \A e \in Entries(g) : /\ storage_id[e] \in Nat /\ storage_id[e] >= 0
                                  /\ storage_id[e] \in Storages
                                  /\ data_entry_[e] = mem[storage_id[e]]
         /\ DOMAIN mem = Storages /\ DOMAIN cell = Entries(g)
         /\ nid \in Nat
BY LoadedGraph DEF RInv, RuntimeInv, TypeOK, Storages, data_entry_

(* A plan the compiler may emit is sound.                                  *)
LEMMA CompiledPlanSound ==
  ASSUME g \in Graphs, storage_id \in CompiledPlans(g),
         PassesReuseCheck(g, storage_id, ReusedOps(g))
  PROVE  storage_id \in [Entries(g) -> Nat] /\ PlanSound
<1> DEFINE raw == [Entries(g) -> -1 .. Cardinality(OpEntries(g)) - 1]
           own == [e \in Entries(g) |-> e]
<1>1. PICK sid \in raw : storage_id = DecorateMemoryPlan(g, sid) /\ SafeStorage(g, sid, own)
  BY DEF CompiledPlans
<1>2. Cardinality(OpEntries(g)) \in Nat /\ Cardinality(OpEntries(g)) <= g.num_entries
  <2>1. IsFiniteSet(Entries(g)) /\ Cardinality(Entries(g)) = g.num_entries
    BY LoadedGraph, FS_Interval DEF Entries
  <2>2. OpEntries(g) \in SUBSET Entries(g)
    BY DEF OpEntries
  <2> QED BY <2>1, <2>2, FS_Subset, FS_CardinalityType
<1>3. sid \in [Entries(g) -> -1 .. g.num_entries - 1]
  BY <1>2, LoadedGraph
<1>4. /\ storage_id \in [Entries(g) -> Int]
      /\ \A e \in OpEntries(g) : storage_id[e] = sid[e]
      /\ VariablesAlone(g, storage_id)
  BY <1>1, <1>3, LoadedGraph, DecoratedPlan
<1>5. \A a, b \in Entries(g) : a # b /\ storage_id[a] = storage_id[b]
        => a \in OpEntries(g) /\ b \in OpEntries(g)
  BY <1>4 DEF VariablesAlone, OpEntries
<1>6. SafeStorage(g, storage_id, own)
  BY <1>1, <1>4, <1>5 DEF SafeStorage
<1>7. storage_id \in [Entries(g) -> Nat]
  <2>1. \A e \in Entries(g) : storage_id[e] >= 0
    BY DEF PassesReuseCheck
  <2> QED BY <1>4, <2>1
<1> QED BY <1>4, <1>6, <1>7 DEF PlanSound

LEMMA RuntimeInitInv == Init => RInv
<1> SUFFICES ASSUME Init PROVE RInv
  OBVIOUS
<1>1. g \in Graphs
  BY DEF Init
<1>2. storage_id \in [Entries(g) -> Nat] /\ PlanSound
  BY CompiledPlanSound DEF Init
<1>3. TypeOK
  <2>1. loaded \in 0 .. MaxParams /\ nid \in 0 .. g.num_nodes
    BY DataAssumption, <1>1, LoadedGraph DEF Init
  <2>2. answer \in Seq({answer[k] : k \in DOMAIN answer})
    BY DEF Init
  <2> QED BY <1>2, <2>1, <2>2 DEF Init, TypeOK
<1>4. InputsHeld /\ UsableIsLoaded /\ ReadsIntact
  BY DEF Init, InputsHeld, UsableIsLoaded, ReadsIntact
<1> QED BY <1>1, <1>2, <1>3, <1>4 DEF RInv, RuntimeInv

-----------------------------------------------------------------------------
(* The steps that store an input.                                          *)

(* Storing x in the variable v changes v, and no other variable.           *)
LEMMA StoredInput ==
  ASSUME RInv, UNCHANGED model, NEW v \in g.variables, NEW x, NEW written,
         DOMAIN written = Entries(g),
         \A w \in g.variables : written[Variable(w)] = cell[Variable(w)],
         StoreInput(v, x, written)
  PROVE  /\ DOMAIN mem' = Storages' /\ DOMAIN cell' = Entries(g)'
         /\ data_entry_'[Variable(v)] = x /\ cell'[Variable(v)] = x
         /\ \A w \in g.variables \ {v} :
              /\ data_entry_'[Variable(w)] = data_entry_[Variable(w)]
              /\ cell'[Variable(w)] = cell[Variable(w)]
<1>1. g' = g /\ storage_id' = storage_id /\ g \in Graphs /\ PlanSound
  BY DEF model, RInv, RuntimeInv
<1>2. Storages' = Storages /\ Entries(g)' = Entries(g)
  BY <1>1 DEF Storages, Entries
<1>3. \A e \in Entries(g) : data_entry_'[e] = mem'[storage_id[e]]
  BY <1>1 DEF data_entry_, Entries
<1>4. \A w \in g.variables : Variable(w) \in Entries(g) /\ g.source[Variable(w)] = w
  BY <1>1, VariableFacts
<1>5. \A w \in g.variables \ {v} :
        /\ storage_id[Variable(w)] # storage_id[Variable(v)]
        /\ Variable(w) # Variable(v)
  BY <1>1, <1>4, StorageOfVariable
<1>6. /\ mem' = [mem EXCEPT ![storage_id[Variable(v)]] = x]
      /\ cell' = [written EXCEPT ![Variable(v)] = x]
  BY DEF StoreInput
<1>7. data_entry_'[Variable(v)] = x /\ cell'[Variable(v)] = x
  BY <1>3, <1>4, <1>6, TypeFacts
<1>8. ASSUME NEW w \in g.variables \ {v}
      PROVE  /\ data_entry_'[Variable(w)] = data_entry_[Variable(w)]
             /\ cell'[Variable(w)] = cell[Variable(w)]
  BY <1>3, <1>4, <1>5, <1>6, TypeFacts
<1> QED BY <1>2, <1>6, <1>7, <1>8, TypeFacts

(* What is stored fits the precision.                                      *)
LEMMA ClampFits == ASSUME NEW x \in Data PROVE Fits(Clamp(x))
BY DataAssumption DEF Fits, Clamp

LEMMA LoadParamInv ==
  ASSUME RInv, NEW v \in g.variables, NEW x \in Data, LoadParam(v, x)
  PROVE  RInv'
<1>1. /\ g' = g /\ storage_id' = storage_id /\ UNCHANGED model /\ g \in Graphs
      /\ TypeOK /\ PlanSound /\ InputsHeld
      /\ pc = "load" /\ pc' = "load"
  BY DEF LoadParam, model, RInv, RuntimeInv
<1>2. /\ DOMAIN mem' = Storages' /\ DOMAIN cell' = Entries(g)'
      /\ data_entry_'[Variable(v)] = Clamp(x) /\ cell'[Variable(v)] = Clamp(x)
      /\ \A w \in g.variables \ {v} :
           /\ data_entry_'[Variable(w)] = data_entry_[Variable(w)]
           /\ cell'[Variable(w)] = cell[Variable(w)]
  <2>1. StoreInput(v, Clamp(x), cell)
    BY DEF LoadParam
  <2> QED BY <1>1, <2>1, StoredInput, TypeFacts
<1>3. TypeOK'
  <2>1. loaded' \in 0 .. MaxParams
    BY <1>1, DataAssumption DEF LoadParam, TypeOK
  <2> QED BY <1>1, <1>2, <2>1 DEF TypeOK, LoadParam
<1>4. PlanSound'
  BY <1>1, SameModel
<1>5. InputsHeld'
  <2> SUFFICES ASSUME NEW w \in g.variables
               PROVE  /\ w \in set_flag' => data_entry_'[Variable(w)] = cell'[Variable(w)]
                      /\ w \in set_flag' \ {DataNode} => Fits(cell'[Variable(w)])
    BY <1>1 DEF InputsHeld, Variable
  <2>1. CASE w = v
    BY <1>2, <2>1, ClampFits
  <2>2. CASE w # v
    <3>1. w \in set_flag' => w \in set_flag
      BY <2>2 DEF LoadParam
    <3> QED BY <1>1, <1>2, <2>2, <3>1 DEF InputsHeld
  <2> QED BY <2>1, <2>2
<1> QED
  BY <1>1, <1>3, <1>4, <1>5 DEF RInv, RuntimeInv, UsableIsLoaded, ReadsIntact

LEMMA SetInputInv ==
  ASSUME RInv, NEW d \in Data, SetInput(d)
  PROVE  RInv'
<1> DEFINE written == [e \in Entries(g) |-> IF e \in OpEntries(g) THEN Unset ELSE cell[e]]
<1>1. /\ g' = g /\ storage_id' = storage_id /\ UNCHANGED model /\ g \in Graphs
      /\ TypeOK /\ PlanSound /\ InputsHeld /\ ParamsLoaded /\ set_flag' = set_flag
      /\ DataNode \in g.variables /\ pc' = "run"
  BY LoadedGraph DEF SetInput, model, RInv, RuntimeInv, UsableIsLoaded
<1>2. \A w \in g.variables : written[Variable(w)] = cell[Variable(w)]
  BY <1>1, VariableFacts DEF OpEntries
<1>3. /\ DOMAIN mem' = Storages' /\ DOMAIN cell' = Entries(g)'
      /\ data_entry_'[Variable(DataNode)] = Clamp(d) /\ cell'[Variable(DataNode)] = Clamp(d)
      /\ \A w \in g.variables \ {DataNode} :
           /\ data_entry_'[Variable(w)] = data_entry_[Variable(w)]
           /\ cell'[Variable(w)] = cell[Variable(w)]
  <2>1. StoreInput(DataNode, Clamp(d), written) /\ DOMAIN written = Entries(g)
    BY DEF SetInput
  <2> HIDE DEF written
  <2> QED BY <1>1, <1>2, <2>1, StoredInput
<1>4. TypeOK'
  <2>1. nid' \in 0 .. g.num_nodes
    BY <1>1, LoadedGraph DEF SetInput
  <2>2. answer' \in Seq({answer'[k] : k \in DOMAIN answer'}) /\ loaded' = loaded
    BY DEF SetInput
  <2> QED BY <1>1, <1>3, <2>1, <2>2 DEF TypeOK
<1>5. PlanSound'
  BY <1>1, SameModel
<1>6. InputsHeld'
  <2> SUFFICES ASSUME NEW v \in g.variables
               PROVE  /\ data_entry_'[Variable(v)] = cell'[Variable(v)]
                      /\ v \in set_flag \ {DataNode} => Fits(cell'[Variable(v)])
    BY <1>1, SameModel DEF InputsHeld
  <2>1. CASE v = DataNode
    BY <1>3, <2>1
  <2>2. CASE v # DataNode
    BY <1>1, <1>3, <2>2 DEF InputsHeld, ParamsLoaded
  <2> QED BY <2>1, <2>2
<1>7. ReadsIntact'
  <2>1. \A e \in Entries(g) : ~ (g.source[e] < 0)
    BY <1>1, LoadedGraph
  <2>2. nid' = 0
    BY DEF SetInput
  <2> QED BY <1>1, <2>1, <2>2 DEF ReadsIntact
<1> QED
  BY <1>1, <1>4, <1>5, <1>6, <1>7 DEF RInv, RuntimeInv, UsableIsLoaded, ParamsLoaded

-----------------------------------------------------------------------------
(* The steps of Run.                                                       *)

LEMMA SkipVariableInv == ASSUME RInv, SkipVariable PROVE RInv'
<1>1. /\ g' = g /\ storage_id' = storage_id /\ g \in Graphs
      /\ TypeOK /\ PlanSound /\ InputsHeld /\ ParamsLoaded /\ ReadsIntact
      /\ UNCHANGED <<pc, loaded, set_flag, mem, answer, cell>>
      /\ nid \in g.variables /\ nid' = nid + 1 /\ pc = "run"
  BY DEF SkipVariable, model, RInv, RuntimeInv, UsableIsLoaded
<1>2. nid' \in 0 .. g.num_nodes
  BY <1>1, LoadedGraph DEF Nodes
<1>3. TypeOK'
  BY <1>1, <1>2 DEF TypeOK, Storages, Entries
<1>4. PlanSound'
  BY <1>1, SameModel
<1>5. data_entry_' = data_entry_ /\ InputsHeld'
  <2>1. data_entry_' = data_entry_
    BY <1>1, SameModel DEF data_entry_
  <2> QED BY <1>1, <2>1, InputsKept
<1>6. ReadsIntact'
  <2> SUFFICES ASSUME NEW e \in Entries(g), g.source[e] < nid + 1,
                      NEW u \in Uses(g, e), u[1] >= nid + 1
               PROVE  data_entry_[e] = cell[e]
    BY <1>1, <1>5 DEF ReadsIntact, Uses, AllUses, Entries
  <2>1. u[1] \in Nat /\ u[1] >= nid /\ g.source[e] \in Nat
    BY <1>1, TypeFacts, LoadedGraph, UsesFollowSource DEF Uses
  <2>2. CASE g.source[e] < nid
    BY <1>1, <2>1, <2>2 DEF ReadsIntact
  <2>3. CASE g.source[e] = nid
    <3>1. e = Variable(nid)
      BY <1>1, <2>3, VariableFacts
    <3>2. nid \in set_flag \/ nid = DataNode
      BY <1>1 DEF ParamsLoaded
    <3> QED BY <1>1, <3>1, <3>2 DEF InputsHeld
  <2> QED BY <2>1, <2>2, <2>3, TypeFacts
<1> QED
  BY <1>1, <1>3, <1>4, <1>5, <1>6 DEF RInv, RuntimeInv, UsableIsLoaded, ParamsLoaded

(* The storages that an operator writes, and what they hold then.          *)
LEMMA WrittenOutputs ==
  ASSUME RInv, UNCHANGED model, WriteOutputs
  PROVE  /\ DOMAIN mem' = Storages'
         /\ \A e \in Entries(g) :
              (\A o \in OutputsOf(g, nid) : storage_id[o] # storage_id[e])
                => data_entry_'[e] = data_entry_[e]
         /\ \A o \in OutputsOf(g, nid) : ~ Spoiled(o) => data_entry_'[o] = Results[o]
<1>1. g' = g /\ storage_id' = storage_id
  BY DEF model
<1>2. \A e \in Entries(g) : data_entry_'[e] = mem'[storage_id[e]]
  BY <1>1 DEF data_entry_, Entries
<1>3. Storages' = Storages
  BY <1>1 DEF Storages, Entries
<1>4. ASSUME NEW e \in Entries(g), \A o \in OutputsOf(g, nid) : storage_id[o] # storage_id[e]
      PROVE  data_entry_'[e] = data_entry_[e]
  <2>1. {o \in OutputsOf(g, nid) : storage_id[o] = storage_id[e]} = {}
    BY <1>4
  <2>2. mem'[storage_id[e]] = mem[storage_id[e]]
    BY <2>1, TypeFacts DEF WriteOutputs
  <2> QED BY <1>2, <2>2, TypeFacts
<1>5. ASSUME NEW o \in OutputsOf(g, nid), ~ Spoiled(o)
      PROVE  data_entry_'[o] = Results[o]
  <2>1. {q \in OutputsOf(g, nid) : storage_id[q] = storage_id[o]} = {o}
    BY <1>5 DEF Spoiled
  <2>2. o \in Entries(g)
    BY DEF OutputsOf
  <2>3. (CHOOSE q \in {o} : TRUE) = o
    OBVIOUS
  <2> DEFINE s == storage_id[o]
             out == {q \in OutputsOf(g, nid) : storage_id[q] = s}
  <2>4. s \in Storages /\ out = {o}
    BY <2>1, <2>2, TypeFacts
  <2>5. mem'[s] = IF out = {} THEN mem[s]
                  ELSE LET q == CHOOSE q \in out : TRUE
                       IN IF Spoiled(q) THEN Garbage ELSE Results[q]
    BY <2>4 DEF WriteOutputs
  <2> HIDE DEF s, out
  <2>6. mem'[s] = Results[o]
    BY <1>5, <2>3, <2>4, <2>5
  <2> QED BY <1>2, <2>2, <2>6 DEF s
<1> QED BY <1>3, <1>4, <1>5 DEF WriteOutputs

(* An output that is read later comes out right.                           *)
LEMMA ReadLaterIsNotSpoiled ==
  ASSUME RInv, nid \in Operators, NEW o \in OutputsOf(g, nid),
         NEW u \in Uses(g, o), u[1] > nid
  PROVE  ~ Spoiled(o)
<1>1. g \in Graphs /\ PlanSound /\ \A e \in Entries(g) : storage_id[e] >= 0
  BY TypeFacts DEF RInv, RuntimeInv
<1>2. nid \in Nodes(g) /\ nid \in Nat
  BY <1>1, LoadedGraph DEF Operators
<1>3. o \in Entries(g) /\ g.source[o] = nid
  BY DEF OutputsOf
<1>4. ASSUME NEW q \in OutputsOf(g, nid) \ {o} PROVE storage_id[q] # storage_id[o]
  <2>1. q \in Entries(g) /\ g.source[q] = nid
    BY DEF OutputsOf
  <2>2. g.source[o] <= g.source[q] /\ u[1] > g.source[q]
    BY <1>2, <1>3, <2>1
  <2> QED BY <1>1, <1>3, <2>1, <2>2, NothingReadLaterIsOverwritten
<1>5. \A i \in InputPositions(g, nid) :
        storage_id[g.inputs[nid][i]] = storage_id[o]
          => \E p \in DOMAIN g.inplace[nid] :
               g.inplace[nid][p].in = i /\ g.inplace[nid][p].out = o
  BY <1>1, <1>2, SharedArgumentIsInplace
<1> QED BY <1>4, <1>5 DEF Spoiled

(* No operator writes to a variable's storage.                             *)
LEMMA OperatorsKeepVariables ==
  ASSUME RInv, nid \in Operators, NEW v \in g.variables, NEW o \in OutputsOf(g, nid)
  PROVE  storage_id[o] # storage_id[Variable(v)] /\ Variable(v) \notin OutputsOf(g, nid)
<1>1. g \in Graphs /\ PlanSound
  BY DEF RInv, RuntimeInv
<1>2. o \in Entries(g) /\ g.source[o] # v
  BY DEF OutputsOf, Operators
<1>3. g.source[Variable(v)] # nid
  BY <1>1, VariableFacts DEF Operators
<1> QED BY <1>1, <1>2, <1>3, StorageOfVariable DEF OutputsOf

LEMMA RunOpInv == ASSUME RInv, RunOp PROVE RInv'
<1>1. /\ g' = g /\ storage_id' = storage_id /\ UNCHANGED model /\ g \in Graphs
      /\ TypeOK /\ PlanSound /\ InputsHeld /\ ParamsLoaded /\ ReadsIntact
      /\ UNCHANGED <<pc, loaded, set_flag, answer>>
      /\ nid \in Operators /\ nid \in Nodes(g) /\ nid' = nid + 1 /\ pc = "run" /\ WriteOutputs
      /\ cell' = [e \in Entries(g) |-> IF e \in OutputsOf(g, nid) THEN Results[e] ELSE cell[e]]
      /\ \A e \in Entries(g) : storage_id[e] >= 0
  BY TypeFacts DEF RunOp, model, RInv, RuntimeInv, UsableIsLoaded, Operators
<1>2. /\ DOMAIN mem' = Storages'
      /\ \A e \in Entries(g) :
           (\A o \in OutputsOf(g, nid) : storage_id[o] # storage_id[e])
             => data_entry_'[e] = data_entry_[e]
      /\ \A o \in OutputsOf(g, nid) : ~ Spoiled(o) => data_entry_'[o] = Results[o]
  BY <1>1, WrittenOutputs
<1>3. TypeOK'
  <2>1. nid' \in 0 .. g.num_nodes
    BY <1>1, LoadedGraph DEF Nodes
  <2>2. DOMAIN cell' = Entries(g')
    BY <1>1
  <2> QED BY <1>1, <1>2, <2>1, <2>2 DEF TypeOK
<1>4. PlanSound'
  BY <1>1, SameModel
<1>5. InputsHeld'
  <2>1. \A v \in g.variables :
          /\ data_entry_'[Variable(v)] = data_entry_[Variable(v)]
          /\ cell'[Variable(v)] = cell[Variable(v)]
    <3> SUFFICES ASSUME NEW v \in g.variables
                 PROVE  /\ data_entry_'[Variable(v)] = data_entry_[Variable(v)]
                        /\ cell'[Variable(v)] = cell[Variable(v)]
      OBVIOUS
    <3>1. Variable(v) \in Entries(g) /\ g.source[Variable(v)] # nid
      BY <1>1, VariableFacts DEF Operators
    <3>2. \A o \in OutputsOf(g, nid) : storage_id[o] # storage_id[Variable(v)]
      BY <1>1, OperatorsKeepVariables
    <3> QED BY <1>1, <1>2, <3>1, <3>2 DEF OutputsOf
  <2> QED BY <1>1, <2>1, InputsKept
<1>6. ReadsIntact'
  <2> SUFFICES ASSUME NEW e \in Entries(g), g.source[e] < nid + 1,
                      NEW u \in Uses(g, e), u[1] >= nid + 1
               PROVE  data_entry_'[e] = cell'[e]
    BY <1>1 DEF ReadsIntact, Uses, AllUses, Entries
  <2>1. u[1] \in Nat /\ u[1] > nid /\ g.source[e] \in Nat /\ nid \in Nat
    BY <1>1, TypeFacts, LoadedGraph, UsesFollowSource DEF Uses
  <2>2. CASE g.source[e] < nid
    <3>1. data_entry_[e] = cell[e]
      BY <1>1, <2>1, <2>2 DEF ReadsIntact
    <3>2. \A o \in OutputsOf(g, nid) : storage_id[o] # storage_id[e]
      <4> SUFFICES ASSUME NEW o \in OutputsOf(g, nid) PROVE storage_id[e] # storage_id[o]
        OBVIOUS
      <4>1. o \in Entries(g) /\ g.source[o] = nid
        BY DEF OutputsOf
      <4>2. o # e /\ g.source[e] <= g.source[o] /\ u[1] > g.source[o]
        BY <2>1, <2>2, <4>1
      <4> QED BY <1>1, <4>1, <4>2, NothingReadLaterIsOverwritten
    <3>3. e \notin OutputsOf(g, nid)
      BY <2>1, <2>2 DEF OutputsOf
    <3> QED BY <1>1, <1>2, <3>1, <3>2, <3>3
  <2>3. CASE g.source[e] = nid
    <3>1. e \in OutputsOf(g, nid)
      BY <2>3 DEF OutputsOf
    <3>2. ~ Spoiled(e)
      BY <1>1, <2>1, <3>1, ReadLaterIsNotSpoiled
    <3> QED BY <1>1, <1>2, <3>1, <3>2
  <2> QED BY <2>1, <2>2, <2>3
<1> QED
  BY <1>1, <1>3, <1>4, <1>5, <1>6 DEF RInv, RuntimeInv, UsableIsLoaded, ParamsLoaded

LEMMA FailOpInv == ASSUME RInv, NEW partly \in SUBSET Storages, FailOp(partly) PROVE RInv'
<1>1. /\ g' = g /\ storage_id' = storage_id /\ g \in Graphs
      /\ TypeOK /\ PlanSound /\ InputsHeld /\ ParamsLoaded
      /\ UNCHANGED <<loaded, set_flag, nid, answer, cell>>
      /\ nid \in Operators /\ pc' = "ready" /\ pc = "run"
      /\ partly \subseteq {storage_id[o] : o \in OutputsOf(g, nid)}
      /\ mem' = [s \in Storages |-> IF s \in partly THEN Garbage ELSE mem[s]]
  BY DEF FailOp, model, RInv, RuntimeInv, UsableIsLoaded
<1>2. Storages' = Storages
  BY <1>1 DEF Storages, Entries
<1>3. TypeOK'
  BY <1>1, <1>2 DEF TypeOK
<1>4. PlanSound'
  BY <1>1, SameModel
<1>5. InputsHeld'
  <2>1. ASSUME NEW v \in g.variables
        PROVE  data_entry_'[Variable(v)] = data_entry_[Variable(v)]
    <3>1. Variable(v) \in Entries(g)
      BY <1>1, VariableFacts
    <3>2. storage_id[Variable(v)] \notin partly
      BY <1>1, OperatorsKeepVariables
    <3>3. data_entry_'[Variable(v)] = mem'[storage_id[Variable(v)]]
      BY <1>1, <3>1 DEF data_entry_, Entries
    <3> QED BY <1>1, <3>1, <3>2, <3>3, TypeFacts
  <2> QED BY <1>1, <2>1, InputsKept
<1> QED
  BY <1>1, <1>3, <1>4, <1>5
  DEF RInv, RuntimeInv, UsableIsLoaded, ParamsLoaded, ReadsIntact

(* A step that leaves the memory alone, and begins no call.                *)
LEMMA RestInv ==
  ASSUME RInv, UNCHANGED <<model, loaded, set_flag, mem, nid, cell>>,
         pc' \in {"load", "ready", "run", "rejected"},
         pc' \in {"ready", "run"} => ParamsLoaded,
         pc' = "run" => pc = "run",
         answer' \in Seq({answer'[k] : k \in DOMAIN answer'})
  PROVE  RInv'
<1>1. g' = g /\ storage_id' = storage_id /\ g \in Graphs
      /\ TypeOK /\ PlanSound /\ InputsHeld /\ ReadsIntact
      /\ UNCHANGED <<loaded, set_flag, mem, nid, cell>>
  BY DEF model, RInv, RuntimeInv
<1>2. Storages' = Storages /\ data_entry_' = data_entry_ /\ Entries(g)' = Entries(g)
  BY <1>1, SameModel DEF data_entry_
<1>3. TypeOK'
  BY <1>1, <1>2 DEF TypeOK
<1>4. PlanSound'
  BY <1>1, SameModel
<1>5. InputsHeld'
  BY <1>1, <1>2, InputsKept
<1>6. ReadsIntact'
  BY <1>1, <1>2 DEF ReadsIntact, Uses, AllUses
<1> QED
  BY <1>1, <1>3, <1>4, <1>5, <1>6 DEF RInv, RuntimeInv, UsableIsLoaded, ParamsLoaded

LEMMA RuntimeNextInv == RInv /\ [Next]_vars => RInv'
<1> SUFFICES ASSUME RInv, [Next]_vars PROVE RInv'
  OBVIOUS
<1>1. /\ pc \in {"load", "ready", "run", "rejected"} /\ (pc \in {"ready", "run"} => ParamsLoaded)
      /\ answer \in Seq({answer[k] : k \in DOMAIN answer})
  BY DEF RInv, RuntimeInv, TypeOK, UsableIsLoaded
<1>2. ASSUME NEW v \in g.variables, NEW x \in Data, LoadParam(v, x) PROVE RInv'
  BY <1>2, LoadParamInv
<1>3. CASE LoadThrows \/ LoadParamsDone \/ Return \/ UNCHANGED vars
  <2>1. /\ UNCHANGED <<model, loaded, set_flag, mem, nid, cell>>
        /\ pc' \in {"load", "ready", "run", "rejected"}
        /\ pc' \in {"ready", "run"} => ParamsLoaded
        /\ pc' = "run" => pc = "run"
        /\ answer' = answer
    BY <1>1, <1>3 DEF LoadThrows, LoadParamsDone, Return, vars
  <2> QED BY <1>1, <2>1, RestInv
<1>4. ASSUME NEW d \in Data, SetInput(d) PROVE RInv'
  BY <1>4, SetInputInv
<1>5. CASE SkipVariable
  BY <1>5, SkipVariableInv
<1>6. CASE RunOp
  BY <1>6, RunOpInv
<1>7. ASSUME NEW partly \in SUBSET Storages, FailOp(partly) PROVE RInv'
  BY <1>7, FailOpInv
<1>8. CASE CopyOutputTo
  <2>1. /\ UNCHANGED <<model, pc, loaded, set_flag, mem, nid, cell>>
        /\ \E y : answer' = Append(answer, y)
    BY <1>8 DEF CopyOutputTo
  <2>2. answer' \in Seq({answer'[k] : k \in DOMAIN answer'})
    <3>1. PICK y : answer' = Append(answer, y)
      BY <2>1
    <3>2. answer \in Seq({answer[k] : k \in DOMAIN answer} \cup {y})
      BY <1>1
    <3>3. answer' \in Seq({answer[k] : k \in DOMAIN answer} \cup {y})
      BY <3>1, <3>2
    <3> QED BY <3>3
  <2> QED BY <1>1, <2>1, <2>2, RestInv
<1> QED
  BY <1>2, <1>3, <1>4, <1>5, <1>6, <1>7, <1>8 DEF Next, Load, Run

-----------------------------------------------------------------------------
(* The safety theorems.                                                    *)

(* The inductive invariant holds in every state that can be reached.       *)
THEOREM RuntimeInvariant == Spec => []RInv
BY RuntimeInitInv, RuntimeNextInv, PTL DEF Spec

(* The executor's state keeps its shape, and its loop ends at the last     *)
(* operator.                                                               *)
THEOREM RuntimeTypeCorrect == Spec => []TypeOK
<1>1. RInv => TypeOK
  BY DEF RInv, RuntimeInv
<1> QED BY <1>1, RuntimeInvariant, PTL

(* Whatever storage the plan shares, an entry that is still to be read     *)
(* holds what was computed for it.                                         *)
THEOREM ReadsStayIntact == Spec => []ReadsIntact
<1>1. RInv => ReadsIntact
  BY DEF RInv, RuntimeInv
<1> QED BY <1>1, RuntimeInvariant, PTL

(* A model that was handed out has its parameters, and every call, ended   *)
(* or failed, leaves them as they were loaded.                             *)
THEOREM ParametersSurvive == Spec => []ParamsSurvive
<1>1. RInv => ParamsSurvive
  <2> SUFFICES ASSUME RInv, pc \in {"ready", "run"}, NEW v \in g.variables \ {DataNode}
               PROVE  Fits(cell[Variable(v)]) /\ data_entry_[Variable(v)] = cell[Variable(v)]
    BY DEF ParamsSurvive
  <2>1. InputsHeld /\ ParamsLoaded
    BY DEF RInv, RuntimeInv, UsableIsLoaded
  <2>2. v \in set_flag
    BY <2>1 DEF ParamsLoaded
  <2> QED BY <2>1, <2>2 DEF InputsHeld
<1> QED BY <1>1, RuntimeInvariant, PTL

-----------------------------------------------------------------------------
(* The refinement: every step is one of the dataflow's, or a stutter.      *)

(* The abstract operators are the executor's.                              *)
LEMMA SameOperators ==
  /\ \A n : Abstract!Variable(n) = Variable(n)
  /\ \A x : (Abstract!Fits(x) <=> Fits(x)) /\ Abstract!Clamp(x) = Clamp(x)
  /\ Abstract!Operators = Operators /\ Abstract!Entries(g) = Entries(g)
  /\ \A n : /\ Abstract!OutputsOf(g, n) = OutputsOf(g, n)
            /\ Abstract!InputPositions(g, n) = InputPositions(g, n)
<1>1. Abstract!Entries(g) = Entries(g) /\ Abstract!Nodes(g) = Nodes(g)
  BY DEF Abstract!Entries, Entries, Abstract!Nodes, Nodes
<1>2. \A n : /\ Abstract!OutputsOf(g, n) = OutputsOf(g, n)
             /\ Abstract!InputPositions(g, n) = InputPositions(g, n)
  BY <1>1 DEF Abstract!OutputsOf, OutputsOf, Abstract!InputPositions, InputPositions
<1>3. \A n : Abstract!Variable(n) = Variable(n)
  BY <1>1 DEF Abstract!Variable, Variable
<1>4. \A x : (Abstract!Fits(x) <=> Fits(x)) /\ Abstract!Clamp(x) = Clamp(x)
  BY DEF Abstract!Fits, Fits, Abstract!Clamp, Clamp
<1>5. Abstract!Operators = Operators
  BY <1>1 DEF Abstract!Operators, Operators
<1> QED BY <1>1, <1>2, <1>3, <1>4, <1>5

LEMMA DataflowInit == Init => Abstract!Init
<1> SUFFICES ASSUME Init PROVE Abstract!Init
  OBVIOUS
<1>1. {n \in Operators : n < nid} = {}
  BY LoadedGraph DEF Init, Operators
<1> QED BY <1>1, SameOperators DEF Init, Abstract!Init

LEMMA SameDone ==
  ASSUME g' = g, nid' = nid
  PROVE  {n \in Operators : n < nid}' = {n \in Operators : n < nid}
BY DEF Operators, Nodes

LEMMA LoadParamStep ==
  ASSUME RInv, NEW v \in g.variables, NEW x \in Data, LoadParam(v, x)
  PROVE  Abstract!LoadParam(v, x)
<1>1. {n \in Operators : n < nid}' = {n \in Operators : n < nid}
  BY SameDone DEF LoadParam, model
<1> QED
  BY <1>1, SameOperators DEF LoadParam, StoreInput, model, Abstract!LoadParam

LEMMA LoadEndsStep ==
  ASSUME RInv, LoadThrows \/ LoadParamsDone
  PROVE  Abstract!Loaded \/ Abstract!Rejected
<1>1. {n \in Operators : n < nid}' = {n \in Operators : n < nid}
  BY SameDone DEF LoadThrows, LoadParamsDone, model
<1>2. CASE LoadThrows
  BY <1>1, <1>2 DEF LoadThrows, model, Abstract!Rejected
<1>3. CASE LoadParamsDone /\ ~ ParamsLoaded
  BY <1>1, <1>3 DEF LoadParamsDone, model, Abstract!Rejected
<1>4. CASE LoadParamsDone /\ ParamsLoaded
  <2>1. \A v \in g.variables \ {DataNode} : Fits(cell[Variable(v)])
    BY <1>4 DEF RInv, RuntimeInv, InputsHeld, ParamsLoaded
  <2>2. \A v \in g.variables \ {DataNode} : cell[Abstract!Variable(v)] # Unset
    BY <2>1, SameOperators, DataAssumption DEF Fits
  <2> QED BY <1>1, <1>4, <2>2 DEF LoadParamsDone, model, Abstract!Loaded
<1> QED BY <1>2, <1>3, <1>4

LEMMA SetInputStep ==
  ASSUME RInv, NEW d \in Data, SetInput(d)
  PROVE  Abstract!Request(d)
<1>1. g' = g /\ g \in Graphs /\ DataNode \in g.variables
  BY LoadedGraph DEF SetInput, model, RInv
<1>2. {n \in Operators : n < nid}' = {}
  <2>1. Operators' = Operators /\ nid' = 0
    BY <1>1 DEF Operators, SetInput
  <2> QED BY <1>1, <2>1, LoadedGraph DEF Operators
<1>3. Variable(DataNode) \in Entries(g)
  BY <1>1, VariableFacts
<1>4. \A e \in Entries(g) : e \in OpEntries(g) <=> g.source[e] \notin g.variables
  BY DEF OpEntries, VariableEntries
<1>5. cell' = [e \in Entries(g) |->
                 IF e = Variable(DataNode) THEN Clamp(d)
                 ELSE IF g.source[e] \in g.variables THEN cell[e] ELSE Unset]
  BY <1>3, <1>4 DEF SetInput, StoreInput
<1>6. cell' = [e \in Entries(g) |->
                 IF e = Abstract!Variable(DataNode) THEN Abstract!Clamp(d)
                 ELSE IF g.source[e] \in g.variables THEN cell[e] ELSE Unset]
  BY <1>5, SameOperators
<1> QED BY <1>1, <1>2, <1>6, SameOperators DEF SetInput, Abstract!Request

(* An argument is read where it was computed, or stored.                   *)
LEMMA ArgumentsIntact ==
  ASSUME RInv, pc = "run", nid \in Operators
  PROVE  /\ Arguments = Abstract!Arguments(cell, nid)
         /\ \A i \in InputPositions(g, nid) :
              g.source[g.inputs[nid][i]] \in g.variables \cup {n \in Operators : n < nid}
<1>1. g \in Graphs /\ ReadsIntact /\ nid \in Nodes(g) /\ g.ignored[nid] = {}
  BY LoadedGraph DEF RInv, RuntimeInv, Operators
<1>2. ASSUME NEW i \in InputPositions(g, nid)
      PROVE  /\ data_entry_[g.inputs[nid][i]] = cell[g.inputs[nid][i]]
             /\ g.source[g.inputs[nid][i]] \in g.variables \cup {n \in Operators : n < nid}
  <2> DEFINE a == g.inputs[nid][i]
             u == <<nid, i>>
  <2>1. u \in AllUses(g) /\ UsedEntry(g, u) = a /\ a \in Entries(g)
    BY <1>1, LoadedGraph, ReadsAreUses
  <2>2. g.source[a] < u[1] /\ g.source[a] \in Nodes(g)
    BY <1>1, <2>1, LoadedGraph, UsesFollowSource
  <2>3. u \in Uses(g, a) /\ u[1] = nid /\ u[1] >= nid
    BY <2>1, TypeFacts DEF Uses
  <2>4. data_entry_[a] = cell[a]
    BY <1>1, <2>1, <2>2, <2>3 DEF ReadsIntact
  <2> QED BY <2>2, <2>3, <2>4 DEF Operators
<1> QED BY <1>2, SameOperators DEF Arguments, Abstract!Arguments

LEMMA RunOpStep == ASSUME RInv, RunOp, NEW m, m = nid PROVE Abstract!Compute(m)
<1>1. /\ g' = g /\ pc = "run" /\ nid \in Operators /\ nid' = nid + 1 /\ g \in Graphs
      /\ cell' = [e \in Entries(g) |-> IF e \in OutputsOf(g, nid) THEN Results[e] ELSE cell[e]]
      /\ UNCHANGED <<pc, answer>>
  BY DEF RunOp, model, RInv
<1>2. {n \in Operators : n < nid}' = {n \in Operators : n < nid} \cup {nid}
  <2>1. Operators' = Operators /\ \A n \in Operators : n \in Nat
    BY <1>1, LoadedGraph DEF Operators
  <2>2. \A n \in Operators : n < nid + 1 <=> n < nid \/ n = nid
    BY <2>1, <1>1
  <2> QED BY <1>1, <2>1, <2>2
<1>3. nid \in Operators \ {n \in Operators : n < nid}
  BY <1>1, TypeFacts
<1>4. cell' = [e \in Entries(g) |->
                 IF e \in OutputsOf(g, nid) THEN Kernel(e, Abstract!Arguments(cell, nid))
                 ELSE cell[e]]
  BY <1>1, ArgumentsIntact DEF Results
<1> QED
  BY <1>1, <1>2, <1>3, <1>4, ArgumentsIntact, SameOperators DEF Abstract!Compute

LEMMA FailOpStep ==
  ASSUME RInv, NEW partly \in SUBSET Storages, FailOp(partly)
  PROVE  Abstract!Fail
<1>1. {n \in Operators : n < nid}' = {n \in Operators : n < nid}
  BY SameDone DEF FailOp, model
<1>2. nid \in Operators /\ nid \notin {n \in Operators : n < nid}
  BY TypeFacts DEF FailOp
<1> QED BY <1>1, <1>2, SameOperators DEF FailOp, model, Abstract!Fail

(* A head is read when every operator has run.                             *)
LEMMA CopyOutputToStep == ASSUME RInv, CopyOutputTo PROVE Abstract!GetOutput
<1> DEFINE j == Len(answer) + 1
           u == <<g.num_nodes, j>>
           head == g.outputs[j]
<1>1. /\ g \in Graphs /\ ReadsIntact /\ pc = "run" /\ nid = g.num_nodes
      /\ answer \in Seq({answer[k] : k \in DOMAIN answer})
  BY DEF RInv, RuntimeInv, TypeOK, CopyOutputTo
<1>2. Len(answer) \in Nat /\ g.outputs \in Seq(Entries(g))
  BY <1>1, LoadedGraph DEF WellFormed, GraphTypes
<1>3. j \in 1 .. Len(g.outputs)
  BY <1>2 DEF CopyOutputTo
<1> HIDE DEF j
<1>4. u \in AllUses(g) /\ UsedEntry(g, u) = head /\ head \in Entries(g)
  BY <1>2, <1>3 DEF AllUses, HeadUses, UsedEntry
<1>5. u \in Uses(g, head) /\ u[1] = nid /\ g.source[head] < nid /\ u[1] >= nid
  BY <1>1, <1>4, LoadedGraph DEF Uses, Nodes
<1>6. data_entry_[head] = cell[head]
  BY <1>1, <1>4, <1>5 DEF ReadsIntact
<1>7. {n \in Operators : n < nid} = Operators
  BY <1>1, LoadedGraph DEF Operators, Nodes
<1>8. {n \in Operators : n < nid}' = {n \in Operators : n < nid}
  BY SameDone DEF CopyOutputTo, model
<1>9. answer' = Append(answer, cell[g.outputs[Len(answer) + 1]])
  BY <1>6 DEF CopyOutputTo, j
<1> QED
  BY <1>7, <1>8, <1>9, SameOperators DEF CopyOutputTo, model, Abstract!GetOutput

LEMMA DataflowStep ==
  RInv /\ [Next]_vars => [Abstract!Next]_<<g, pc, cell, {n \in Operators : n < nid}, answer>>
<1> SUFFICES ASSUME RInv, [Next]_vars
             PROVE  Abstract!Next \/ UNCHANGED <<g, pc, cell, {n \in Operators : n < nid}, answer>>
  OBVIOUS
<1>1. ASSUME NEW v \in g.variables, NEW x \in Data, LoadParam(v, x) PROVE Abstract!Next
  BY <1>1, LoadParamStep DEF Abstract!Next
<1>2. CASE LoadThrows \/ LoadParamsDone
  BY <1>2, LoadEndsStep DEF Abstract!Next
<1>3. ASSUME NEW d \in Data, SetInput(d) PROVE Abstract!Next
  BY <1>3, SetInputStep DEF Abstract!Next
<1>4. CASE SkipVariable
  <2>1. g' = g /\ nid' = nid + 1 /\ nid \notin Operators /\ UNCHANGED <<pc, cell, answer>>
    BY <1>4 DEF SkipVariable, model, Operators
  <2>2. Operators' = Operators /\ \A n \in Operators : n \in Nat
    BY <2>1, LoadedGraph DEF Operators, RInv
  <2>3. \A n \in Operators : n < nid + 1 <=> n < nid
    BY <2>1, <2>2, TypeFacts
  <2>4. {n \in Operators : n < nid}' = {n \in Operators : n < nid}
    BY <2>1, <2>2, <2>3
  <2> QED BY <2>1, <2>4
<1>5. CASE RunOp
  <2>1. PICK m \in Abstract!Operators : m = nid
    BY <1>5, SameOperators DEF RunOp
  <2>2. Abstract!Compute(m)
    BY <1>5, <2>1, RunOpStep
  <2> QED BY <2>2 DEF Abstract!Next
<1>6. ASSUME NEW partly \in SUBSET Storages, FailOp(partly) PROVE Abstract!Next
  BY <1>6, FailOpStep DEF Abstract!Next
<1>7. CASE CopyOutputTo
  BY <1>7, CopyOutputToStep DEF Abstract!Next
<1>8. CASE Return
  <2>1. {n \in Operators : n < nid}' = {n \in Operators : n < nid}
    BY <1>8, SameDone DEF Return, model
  <2> QED BY <1>8, <2>1 DEF Return, model, Abstract!Answered, Abstract!Next
<1>9. CASE UNCHANGED vars
  <2>1. {n \in Operators : n < nid}' = {n \in Operators : n < nid}
    BY <1>9, SameDone DEF vars, model
  <2> QED BY <1>9, <2>1 DEF vars, model
<1> QED
  BY <1>1, <1>2, <1>3, <1>4, <1>5, <1>6, <1>7, <1>8, <1>9 DEF Next, Load, Run

(* Every answer is that of the graph for this call's data and the loaded   *)
(* parameters: storage sharing, and calls that failed, never show.         *)
THEOREM ExecutorImplementsDataflow == Spec => ImplementsDataflow
<1>1. Spec => Init /\ [][Next]_vars
  BY PTL DEF Spec
<1> QED
  BY <1>1, DataflowInit, DataflowStep, RuntimeInvariant, PTL
  DEF ImplementsDataflow, Abstract!Spec
=============================================================================
