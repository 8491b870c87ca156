-------------------------- MODULE CommandRegistry --------------------------
(***************************************************************************)
(* The registry of command line modules (python/mrt/common/cmd.py) and its *)
(* depth-first search (common/dfs.py)                                      *)
(*                                                                         *)
(* Decorators executed at import time declare modules, groups and options. *)
(* Run then analyses the references between the modules, which copies the  *)
(* public options of every module to those that refer to it, drops the     *)
(* modules that lead to no function, builds one parser per module, and     *)
(* calls the function the command line names.                              *)
(*                                                                         *)
(* A module's name is the sequence of its words; the root's is empty.  An  *)
(* option is its string, its permission and the declaration that made it.  *)
(***************************************************************************)
EXTENDS Naturals, Sequences, FiniteSets, SequencesExt

CONSTANTS
    Declarations,       \* what the imported files may declare, in any order
    MaxDeclarations,    \* bound: how many of them one program has
    Orders              \* the orders a set of names may be iterated in

PUBLIC == 0
PRIVATE == 1
GLOBAL_NAME == <<"common", "options">>
Root == <<>>
None == "none"          \* a CmdFunction that holds no function

Named == {d.name : d \in Declarations}
Names == Named \cup UNION {d.refs : d \in Declarations}

ASSUME RegistryAssumption ==
    /\ MaxDeclarations \in Nat
    /\ \A d \in Declarations :
         /\ d.kind \in {"module", "group"} /\ d.main \in BOOLEAN
         /\ d.perm \in {PUBLIC, PRIVATE} /\ d.by # None
    /\ \A n \in Names : Range(n) \cap {"parser", "sub_parser"} = {}
    /\ \A ord \in Orders : Names \subseteq Range(ord)

VARIABLES
    declared,   \* the declarations executed so far, in order
    store,      \* CmdStorage.STORE: the entries, by name
    pre,        \* init_parsers' pre_func and pre_groups
    parsers,    \* CmdStorage.PARSERS: the parser of each name
    phase,      \* how far Run is
    outcome     \* what the call did, or the error that ended the program

vars == <<declared, store, pre, parsers, phase, outcome>>

(***************************************************************************)
(* Entries                                                                 *)
(***************************************************************************)
GroupEntry == [fn |-> None, opts |-> {}]

ModEntry == [fn |-> None, opts |-> {}, refs |-> {}, groups |-> <<>>,
             glob |-> TRUE]

\* get_entry creates the entry it does not find
WithEntries(st, names) == [n \in DOMAIN st \cup names |->
                             IF n \in DOMAIN st THEN st[n] ELSE ModEntry]

PublicGroup(g) == [g EXCEPT !.opts = {o \in @ : o.perm = PUBLIC}]

\* a module as groups: its own options under its name, then its groups
AsGroups(n, e) ==
    [k \in DOMAIN e.groups \cup {n} |->
       PublicGroup(IF k \in DOMAIN e.groups THEN e.groups[k]
                                            ELSE [fn |-> e.fn, opts |-> e.opts])]

\* a group already there is kept
UpdateGroups(e, common) ==
    [e EXCEPT !.groups = [k \in DOMAIN @ \cup DOMAIN common |->
                            IF k \in DOMAIN @ THEN @[k] ELSE common[k]]]

HasMain(e) == e.fn # None \/ \E k \in DOMAIN e.groups : e.groups[k].fn # None

(***************************************************************************)
(* The decorators                                                          *)
(***************************************************************************)
\* what a declaration adds; a group's main function brings the switch that
\* asks for it
Options(d) ==
    {[opt |-> o, perm |-> d.perm, by |-> d.by] :
       o \in d.opts \cup IF d.kind = "group" /\ d.main THEN {d.group} ELSE {}}

\* by_main_func or by_pass_func: only the first keeps the function
AddFunction(e, d) == [e EXCEPT !.opts = @ \cup Options(d),
                               !.fn = IF d.main THEN d.by ELSE @]

\* a second main function of one module or group raises
Duplicated(e, d) == d.main /\ e.fn # None

Fail(why) == phase' = "failed" /\ outcome' = [error |-> why]

DeclareModule(d) ==
    LET st == WithEntries(store, {d.name})
        e == [st[d.name] EXCEPT !.refs = @ \cup d.refs, !.glob = d.glob]
    IN  /\ d.kind = "module"
        /\ store' = [st EXCEPT ![d.name] =
                       IF Duplicated(e, d) THEN e ELSE AddFunction(e, d)]
        /\ IF Duplicated(e, d) THEN Fail("duplicated functions")
                               ELSE UNCHANGED <<phase, outcome>>

DeclareGroup(d) ==
    LET st == WithEntries(store, {d.name})
        e == st[d.name]
        k == <<d.group>>
        g == IF k \in DOMAIN e.groups THEN e.groups[k] ELSE GroupEntry
        after == IF Duplicated(g, d) THEN g ELSE AddFunction(g, d)
    IN  /\ d.kind = "group"
        /\ store' = [st EXCEPT ![d.name] =
              [e EXCEPT !.refs = @ \cup d.refs,
                        !.groups = [x \in DOMAIN @ \cup {k} |->
                                      IF x = k THEN after ELSE @[x]]]]
        /\ IF Duplicated(g, d) THEN Fail("duplicated functions")
                               ELSE UNCHANGED <<phase, outcome>>

Declare ==
    /\ phase = "import" /\ Len(declared) < MaxDeclarations
    /\ \E d \in Declarations \ Range(declared) :
         /\ declared' = Append(declared, d)
         /\ DeclareModule(d) \/ DeclareGroup(d)
    /\ UNCHANGED <<pre, parsers>>

(***************************************************************************)
(* refs_analysis: a depth-first search over the references.  s is its      *)
(* state: the entries, the entries visited, and whether it raised.         *)
(***************************************************************************)
\* cycling_trigger: every module of the path gets the groups of all, and
\* loses its reference to the next one.  The path may start before the
\* cycle does: then its last module does not refer to its first.
CyclingTrigger(s, path) ==
    LET next(i) == path[(i % Len(path)) + 1]
        common == FoldLeft(LAMBDA gs, n : LET own == AsGroups(n, s.store[n])
                             IN [k \in DOMAIN own \cup DOMAIN gs |->
                                   IF k \in DOMAIN own THEN own[k] ELSE gs[k]],
                           <<>>, path)
        cut(st, i) == [st EXCEPT ![path[i]] =
                         UpdateGroups([@ EXCEPT !.refs = @ \ {next(i)}], common)]
    IN  IF \E i \in DOMAIN path : next(i) \notin s.store[path[i]].refs
        THEN [s EXCEPT !.failed = TRUE]
        ELSE [s EXCEPT !.store =
                FoldLeft(cut, @, [i \in DOMAIN path |-> i])]

\* a mutant: only the references' own options are copied
VisitFuncDirect(st, n, ord) ==
    LET refs == SelectSeq(ord, LAMBDA r : r \in st[n].refs)
        own(r) == AsGroups(r, [st[r] EXCEPT !.groups = <<>>])
        e == FoldLeft(LAMBDA x, r : UpdateGroups(x, own(r)), st[n], refs)
    IN  [st EXCEPT ![n] =
           [e EXCEPT !.groups = [k \in DOMAIN @ \ {n} |-> @[k]]]]

\* a mutant: a module of a cycle stays a group of itself
VisitFuncKeep(st, n, ord) ==
    LET refs == SelectSeq(ord, LAMBDA r : r \in st[n].refs)
    IN  [st EXCEPT ![n] =
           FoldLeft(LAMBDA x, r : UpdateGroups(x, AsGroups(r, st[r])), @, refs)]

\* visit_func after the last reference: copy what they have, as groups
VisitFunc(st, n, ord) ==
    LET refs == SelectSeq(ord, LAMBDA r : r \in st[n].refs)
        e == FoldLeft(LAMBDA x, r : UpdateGroups(x, AsGroups(r, st[r])),
                      st[n], refs)
    IN  [st EXCEPT ![n] =
           [e EXCEPT !.groups = [k \in DOMAIN @ \ {n} |-> @[k]]]]

RECURSIVE DfsImpl(_, _, _, _)
DfsImpl(s, node, path, ord) ==
    LET here == Append(path, node)
        start == [s EXCEPT !.store = WithEntries(@, @[node].refs)]
        follow(x, ref) ==
            IF x.failed THEN x
            ELSE IF ref \in Range(here) THEN CyclingTrigger(x, here)
            ELSE DfsImpl(x, ref, here, ord)
        end == FoldLeft(follow, start,
                        SelectSeq(ord, LAMBDA r : r \in s.store[node].refs))
    IN  IF s.failed \/ node \in s.visited THEN s
        ELSE IF end.failed THEN end
        ELSE [end EXCEPT !.store = VisitFunc(@, node, ord),
                         !.visited = @ \cup {node}]

DfsVisit(st, ord) ==
    FoldLeft(LAMBDA s, d : DfsImpl(s, d.name, <<>>, ord),
             [store |-> st, visited |-> {}, failed |-> FALSE], declared)

RefsAnalysis ==
    /\ phase = "import"
    /\ \E ord \in Orders : \E s \in {DfsVisit(store, ord)} :
         /\ store' = s.store
         /\ IF s.failed THEN Fail("KeyError")
                        ELSE phase' = "analysed" /\ UNCHANGED outcome
    /\ UNCHANGED <<declared, pre, parsers>>

(***************************************************************************)
(* init_parsers                                                            *)
(***************************************************************************)
\* The common options leave the store.  Their function is moved away from
\* the entry first: as a group they come without it.
Common(st) ==
    LET e == WithEntries(st, {GLOBAL_NAME})[GLOBAL_NAME]
    IN  [fn |-> e.fn, groups |-> AsGroups(GLOBAL_NAME, [e EXCEPT !.fn = None])]

\* a mutant: the groups' functions do not count
PruneOwn(st) ==
    LET leads(n) == Len(n) = 1 /\ \E m \in DOMAIN st :
                                     IsPrefix(n, m) /\ st[m].fn # None
    IN  [n \in {n \in DOMAIN st : st[n].fn # None \/ leads(n)} |-> st[n]]

\* Entries without a function are dropped.  The ones on the way to an entry
\* with one are marked by looking their dotted name up: only a name of one
\* word is found that way, a longer one is dropped and created again.
Prune(st) ==
    LET leads(n) == Len(n) = 1 /\ \E m \in DOMAIN st :
                                     IsPrefix(n, m) /\ HasMain(st[m])
    IN  [n \in {n \in DOMAIN st : HasMain(st[n]) \/ leads(n)} |-> st[n]]

TakeCommon ==
    /\ phase = "analysed"
    /\ pre' = Common(store)
    /\ store' = Prune([n \in DOMAIN store \ {GLOBAL_NAME} |-> store[n]])
    /\ phase' = "pruned"
    /\ UNCHANGED <<declared, parsers, outcome>>

\* every option a parser is given: a group's once for each group that has it
Items(e) ==
    {<<k, o>> : k \in {Root}, o \in e.opts}
      \cup UNION {{<<k, o>> : o \in e.groups[k].opts} : k \in DOMAIN e.groups}

\* argparse refuses an option string it already has
Conflict(items) == \E i, j \in items : i # j /\ i[2].opt = j[2].opt

\* init_parser: an entry that leads to no function gets no options and no
\* function to call
InitParser(e) ==
    [entry |-> e, main |-> HasMain(e),
     items |-> IF HasMain(e) THEN Items(e) ELSE {}]

InitParsers ==
    LET names == {Root} \cup DOMAIN store
                   \cup UNION {Prefixes(n) : n \in DOMAIN store}
        entries == WithEntries(store, names)
        entry(n) == IF entries[n].glob THEN UpdateGroups(entries[n], pre.groups)
                                       ELSE entries[n]
    IN  /\ phase = "pruned"
        /\ \E new \in {[n \in names |-> InitParser(entry(n))]} :
             /\ store' = [n \in names |-> new[n].entry]
             /\ IF \E n \in names : Conflict(new[n].items)
                THEN Fail("ArgumentError") /\ UNCHANGED parsers
                ELSE phase' = "ready" /\ parsers' = new /\ UNCHANGED outcome
        /\ UNCHANGED <<declared, pre>>

(***************************************************************************)
(* parse_args and the call                                                 *)
(***************************************************************************)
\* _func: the common function, then a group whose switch is given, then the
\* module's own function.  The parsers without a function set none: the
\* nearest one above that has one answers.
Called(n, given) ==
    LET able == {p \in Prefixes(n) : parsers[p].main}
        owner == CHOOSE p \in able : \A q \in able : Len(q) <= Len(p)
        e == parsers[owner].entry
        asked == {k \in DOMAIN e.groups :
                    e.groups[k].fn # None /\ Len(k) = 1 /\ k[1] \in given}
    IN  IF able = {} THEN [error |-> "cannot find the mainly function"]
        ELSE [at |-> owner,
              before |-> IF e.glob THEN pre.fn ELSE None,
              fn |-> IF asked # {} THEN e.groups[CHOOSE k \in asked : TRUE].fn
                                   ELSE e.fn]

\* the command line names a module and gives at most one option, to it or to
\* a module on the way to it
Run ==
    /\ phase = "ready"
    /\ \E n \in DOMAIN parsers :
         \E given \in {{}} \cup {{i[2].opt} :
                        i \in UNION {parsers[p].items : p \in Prefixes(n)}} :
           outcome' = Called(n, given)
    /\ phase' = "ran"
    /\ UNCHANGED <<declared, store, pre, parsers>>

Init ==
    /\ declared = <<>> /\ store = <<>> /\ parsers = <<>>
    /\ pre = [fn |-> None, groups |-> <<>>]
    /\ phase = "import" /\ outcome = [error |-> None]

Next == Declare \/ RefsAnalysis \/ TakeCommon \/ InitParsers \/ Run

Spec == Init /\ [][Next]_vars

(***************************************************************************)
(* Properties                                                              *)
(***************************************************************************)
Own(n) == UNION {Options(d) : d \in {d \in Range(declared) : d.name = n}}
Shared(n) == {o \in Own(n) : o.perm = PUBLIC}

References(n) == UNION {d.refs : d \in {d \in Range(declared) : d.name = n}}
RECURSIVE Closure(_)
Closure(S) == LET T == S \cup UNION {References(n) : n \in S}
              IN  IF T = S THEN S ELSE Closure(T)
Reach(n) == Closure(References(n))
Cyclic(n) == \E m \in Reach(n) \cup {n} : m \in Reach(m)

TakesCommon(n) ==
    LET mods == SelectSeq(declared, LAMBDA d : d.kind = "module" /\ d.name = n)
    IN  mods = <<>> \/ Last(mods).glob

\* what a module should offer: its options, the public ones of all the modules
\* it refers to, directly or not, and the common ones unless it declines them
Expected(n) ==
    Own(n) \cup UNION {Shared(m) : m \in Reach(n)}
           \cup IF TakesCommon(n) THEN Shared(GLOBAL_NAME) ELSE {}

\* Whatever the order of the imports and of the search, a command whose
\* references form no cycle offers exactly the options of those references'
\* closure (cmd.py refs_analysis, init_parsers).
OffersTheClosure ==
    phase \in {"ready", "ran"} =>
      \A n \in DOMAIN parsers :
        parsers[n].main /\ ~ Cyclic(n) =>
          {i[2] : i \in parsers[n].items} = Expected(n)

\* Building the parsers only fails on two declared options of one string that
\* some command should offer both: no option ever meets a copy of itself,
\* along whatever number of references, of cycles or of common options it came
\* (init_parser's ArgumentError).
ConflictsAreReal ==
    outcome = [error |-> "ArgumentError"] =>
      \E n \in DOMAIN store : \E o1, o2 \in Expected(n) :
        o1 # o2 /\ o1.opt = o2.opt

\* No declared function is lost: once the parsers are built, the name of its
\* module, with the switch of its group if it has one, calls it (the entries
\* init_parsers deletes lead to none).
EveryFunctionRuns ==
    phase = "ready" =>
      \A d \in Range(declared) :
        d.main /\ d.name # GLOBAL_NAME =>
          /\ d.name \in DOMAIN parsers
          /\ LET done == Called(d.name, IF d.kind = "group" THEN {d.group} ELSE {})
             IN  "fn" \in DOMAIN done /\ done.at = d.name /\ done.fn = d.by
=============================================================================
