------------------------- MODULE MrtPipelineProofs -------------------------
(***************************************************************************)
(* Proofs about the drivers of the model representation tool, for any      *)
(* configurations, number of invocations and number of deaths.             *)
(*                                                                         *)
(* First, whose files a stage writes: a checkpoint an invocation started   *)
(* from stays as it is.  Second, from Sets of origins on, what a merge, an *)
(* evaluation or a compilation combines comes from one preparation, split, *)
(* calibration and quantisation, and a restart from a checkpoint that is   *)
(* up to date works.                                                       *)
(***************************************************************************)
EXTENDS MrtPipeline, SequenceTheorems, TLAPS

(***************************************************************************)
(* Tables                                                                  *)
(***************************************************************************)
LEMMA Stages ==
  /\ Stage[1] = "prepare" /\ Stage[2] = "split" /\ Stage[3] = "calibrate"
  /\ Stage[4] = "quantize" /\ Stage[5] = "merge"
  /\ From(1) = {"prepare", "split", "calibrate", "quantize", "merge"}
  /\ From(2) = {"split", "calibrate", "quantize", "merge"}
  /\ From(3) = {"calibrate", "quantize", "merge"}
  /\ From(4) = {"quantize", "merge"}
  /\ From(5) = {"merge"}
<1>1. /\ Stage[1] = "prepare" /\ Stage[2] = "split" /\ Stage[3] = "calibrate"
      /\ Stage[4] = "quantize" /\ Stage[5] = "merge" /\ Len(Stage) = 5
  BY DEF Stage
<1>2. /\ 1 .. 5 = {1, 2, 3, 4, 5} /\ 2 .. 5 = {2, 3, 4, 5} /\ 3 .. 5 = {3, 4, 5}
      /\ 4 .. 5 = {4, 5} /\ 5 .. 5 = {5}
  OBVIOUS
<1> QED BY <1>1, <1>2 DEF From

LEMMA OutdatesTable ==
  /\ Outdates("prepare") = From(1) /\ Outdates("split") = From(2)
  /\ Outdates("calibrate") = From(3) /\ Outdates("quantize") = From(4)
  /\ Outdates("unmerged") = From(4) /\ Outdates("merge") = From(5)
  /\ Outdates("evaluate") = {} /\ Outdates("compile") = {} /\ Outdates("sample") = {}
<1>1. \A d, k : d = Stage[k] /\ k \in 1 .. 5 => {j \in 1 .. 5 : Stage[j] = d} = {k}
  BY Stages
<1>2. \A d \in {"evaluate", "compile", "sample"} : {j \in 1 .. 5 : Stage[j] = d} = {}
  BY Stages
<1>3. \A k \in 1 .. 5 : Stage[k] # "unmerged"
  BY Stages
<1>4. \A k \in 1 .. 5 : Outdates(Stage[k]) = From(k)
  BY <1>1, <1>3 DEF Outdates
<1>5. \A d \in {"evaluate", "compile", "sample"} : Outdates(d) = {}
  BY <1>2 DEF Outdates
<1> QED BY <1>4, <1>5, Stages DEF Outdates

LEMMA StartIndex ==
  ASSUME ConfigsAssumption, NEW c \in Configs
  PROVE  /\ c.start \in 0 .. 5 /\ c.driver \in {"main2", "V2", "V3"} /\ c.keys \in BOOLEAN
         /\ StartsAt(c) \in 0 .. 5
         /\ c.driver # "V3" => StartsAt(c) = c.start
         /\ c.driver = "V3" => StartsAt(c) \in {0, 1, 3, 4}
BY DEF ConfigsAssumption, Config, StartsAt

(***************************************************************************)
(* Types of the operators                                                  *)
(***************************************************************************)
Writes == Seq(File \X SUBSET Origin)

LEMMA Types ==
  ASSUME NEW r \in Nat
  PROVE  /\ Prepare(r) \subseteq Origin /\ Torn \subseteq Origin
         /\ \A m \in SUBSET Origin : split_model(m, r).base \subseteq Origin
         /\ \A m \in SUBSET Origin : split_model(m, r).top \subseteq Origin
         /\ \A m \in SUBSET Origin : NewMrt(m) \in Mrt
         /\ \A m \in Mrt : Calibrated(m, r) \in Mrt
         /\ \A m \in Mrt : QuantizedMrt(m, r) \in Mrt
         /\ \A m \in Mrt : \A t \in SUBSET Origin : merge_model(m, t) \subseteq Origin
         /\ NoMrt \in Mrt /\ NoObjects \in Objects
<1>1. Prepare(r) \subseteq Origin /\ Torn \subseteq Origin
  BY DEF Prepare, Torn, Origin
<1>2. \A m \in SUBSET Origin : split_model(m, r).base \subseteq Origin
  <2> SUFFICES ASSUME NEW o \in Origin PROVE [o EXCEPT !.part = "base", !.split = r] \in Origin
    BY DEF split_model
  <2> QED BY DEF Origin
<1>3. \A m \in SUBSET Origin : split_model(m, r).top \subseteq Origin
  <2> SUFFICES ASSUME NEW o \in Origin PROVE [o EXCEPT !.part = "top", !.split = r] \in Origin
    BY DEF split_model
  <2> QED BY DEF Origin
<1>4. \A m \in SUBSET Origin : NewMrt(m) \in Mrt
  BY DEF NewMrt, Mrt, Nothing
<1>5. \A m \in Mrt : Calibrated(m, r) \in Mrt
  <2> SUFFICES ASSUME NEW m \in Mrt PROVE Calibrated(m, r) \in Mrt
    OBVIOUS
  <2>1. {[o EXCEPT !.calib = r] : o \in m.model} \subseteq Origin
    BY DEF Mrt, Origin
  <2> QED BY <2>1 DEF Calibrated, Mrt
<1>6. \A m \in Mrt : QuantizedMrt(m, r) \in Mrt
  <2> SUFFICES ASSUME NEW m \in Mrt PROVE QuantizedMrt(m, r) \in Mrt
    OBVIOUS
  <2>1. {[o EXCEPT !.quant = r, !.names = "new"] : o \in m.model} \subseteq Origin
    <3>1. \A o \in Origin : [o EXCEPT !.quant = r, !.names = "new"] \in Origin
      BY DEF Origin
    <3>2. m.model \subseteq Origin
      BY DEF Mrt
    <3> QED BY <3>1, <3>2
  <2>2. {[o EXCEPT !.quant = r] : o \in m.ext} \subseteq Origin
    BY DEF Mrt, Origin
  <2> QED BY <2>1, <2>2 DEF QuantizedMrt, Mrt
<1>7. \A m \in Mrt : \A t \in SUBSET Origin : merge_model(m, t) \subseteq Origin
  <2>1. \A o \in Origin : \A n \in {"old", "new"} :
           [o EXCEPT !.part = "merged", !.names = n] \in Origin
    BY DEF Origin
  <2>2. \A m \in Mrt : m.model \subseteq Origin /\ m.old \in {"old", "new"}
    BY DEF Mrt
  <2> QED BY <2>1, <2>2 DEF merge_model
<1>8. NoMrt \in Mrt /\ NoObjects \in Objects
  BY DEF NoMrt, Mrt, NoObjects, Objects, Nothing
<1> QED BY <1>1, <1>2, <1>3, <1>4, <1>5, <1>6, <1>7, <1>8

LEMMA FileNames ==
  \A p \in Prefix : <<p, "symbol">> \in File /\ <<p, "params">> \in File /\ <<p, "ext">> \in File
BY DEF File

LEMMA LoadTypes ==
  ASSUME files \in [File -> SUBSET Origin], NEW p \in Prefix
  PROVE  ModelLoad(p) \subseteq Origin /\ MrtLoad(p) \in Mrt
<1>1. ModelLoad(p) \subseteq Origin /\ files[<<p, "ext">>] \subseteq Origin
  BY FileNames DEF ModelLoad
<1>2. NewMrt(ModelLoad(p)) \in Mrt
  BY <1>1, Types
<1> QED BY <1>1, <1>2 DEF MrtLoad, Mrt


(***************************************************************************)
(* Queues of writes, as the sets of their entries                          *)
(***************************************************************************)
LEMMA EntriesOf ==
  /\ Entries(<<>>) = {}
  /\ \A a : Entries(<<a>>) = {a}
  /\ \A a, b : Entries(<<a, b>>) = {a, b}
<1>1. 1 .. 0 = {} /\ 1 .. 1 = {1} /\ 1 .. 2 = {1, 2}
  OBVIOUS
<1>2. Entries(<<>>) = {}
  BY <1>1 DEF Entries
<1>3. ASSUME NEW a PROVE Entries(<<a>>) = {a}
  BY <1>1 DEF Entries
<1>4. ASSUME NEW a, NEW b PROVE Entries(<<a, b>>) = {a, b}
  BY <1>1 DEF Entries
<1> QED BY <1>2, <1>3, <1>4

LEMMA EntriesConcat ==
  ASSUME NEW s \in Writes, NEW t \in Writes
  PROVE  s \o t \in Writes /\ Entries(s \o t) = Entries(s) \cup Entries(t)
<1>1. /\ s \o t \in Writes /\ Len(s \o t) = Len(s) + Len(t)
      /\ \A i \in 1 .. Len(s) + Len(t) :
            (s \o t)[i] = IF i <= Len(s) THEN s[i] ELSE t[i - Len(s)]
      /\ Len(s) \in Nat /\ Len(t) \in Nat
  BY ConcatProperties DEF Writes
<1>2. ASSUME NEW e \in Entries(s \o t) PROVE e \in Entries(s) \cup Entries(t)
  <2>1. PICK i \in 1 .. Len(s) + Len(t) : e = (s \o t)[i]
    BY <1>1 DEF Entries
  <2>2. CASE i <= Len(s)
    BY <1>1, <2>1, <2>2 DEF Entries
  <2>3. CASE ~ i <= Len(s)
    <3>1. i - Len(s) \in 1 .. Len(t) /\ e = t[i - Len(s)]
      BY <1>1, <2>1, <2>3
    <3> QED BY <3>1 DEF Entries
  <2> QED BY <2>2, <2>3
<1>3. ASSUME NEW e \in Entries(s) PROVE e \in Entries(s \o t)
  <2>1. PICK i \in 1 .. Len(s) : e = s[i]
    BY DEF Entries
  <2>2. i \in 1 .. Len(s \o t) /\ (s \o t)[i] = e
    BY <1>1, <2>1
  <2> QED BY <2>2 DEF Entries
<1>4. ASSUME NEW e \in Entries(t) PROVE e \in Entries(s \o t)
  <2>1. PICK i \in 1 .. Len(t) : e = t[i]
    BY DEF Entries
  <2>2. /\ i + Len(s) \in 1 .. Len(s \o t) /\ ~ (i + Len(s) <= Len(s))
        /\ (i + Len(s)) - Len(s) = i /\ i + Len(s) \in 1 .. Len(s) + Len(t)
    BY <1>1, <2>1
  <2>3. (s \o t)[i + Len(s)] = e
    BY <1>1, <2>1, <2>2
  <2> QED BY <2>2, <2>3 DEF Entries
<1> QED BY <1>1, <1>2, <1>3, <1>4

\* The first write and the others.
LEMMA EntriesTail ==
  ASSUME NEW q \in Writes, q # <<>>
  PROVE  /\ q[1] \in File \X SUBSET Origin /\ Tail(q) \in Writes
         /\ Entries(q) = {q[1]} \cup Entries(Tail(q))
<1>1. /\ q[1] \in File \X SUBSET Origin /\ <<q[1]>> \in Writes /\ Tail(q) \in Writes
      /\ q = <<q[1]>> \o Tail(q)
  BY HeadTailProperties, ConcatProperties DEF Writes
<1>2. Entries(q) = Entries(<<q[1]>>) \cup Entries(Tail(q))
  BY <1>1, EntriesConcat
<1> QED BY <1>1, <1>2, EntriesOf

LEMMA EntriesEmpty ==
  ASSUME NEW q \in Writes
  PROVE  q = <<>> <=> Entries(q) = {}
BY EmptySeq, EntriesOf, EntriesTail DEF Writes

LEMMA ShortQueues ==
  ASSUME NEW a \in File \X SUBSET Origin, NEW b \in File \X SUBSET Origin
  PROVE  <<>> \in Writes /\ <<a>> \in Writes /\ <<a, b>> \in Writes
BY DEF Writes

\* What is written of a model and of an MRT object.
LEMMA Saves ==
  ASSUME NEW p \in Prefix, NEW m \in SUBSET Origin, NEW mrt \in Mrt
  PROVE  /\ ModelSave(p, m) \in Writes /\ MrtSave(p, mrt) \in Writes
         /\ Entries(ModelSave(p, m)) = {<<f, m>> : f \in SymbolAndParams(p)}
         /\ Entries(MrtSave(p, mrt)) =
              {<<<<p, "ext">>, {[o EXCEPT !.names = mrt.old] : o \in mrt.ext}>>}
              \cup {<<f, mrt.model>> : f \in SymbolAndParams(p)}
<1> DEFINE x == {[o EXCEPT !.names = mrt.old] : o \in mrt.ext}
<1>1. x \in SUBSET Origin /\ mrt.model \in SUBSET Origin
  BY DEF Mrt, Origin
<1>2. ASSUME NEW k \in SUBSET Origin
      PROVE  ModelSave(p, k) \in Writes /\ Entries(ModelSave(p, k)) = {<<f, k>> : f \in SymbolAndParams(p)}
  <2>1. {<<f, k>> : f \in SymbolAndParams(p)} = {<<<<p, "symbol">>, k>>, <<<<p, "params">>, k>>}
    BY DEF SymbolAndParams
  <2>2. ModelSave(p, k) \in Writes
    <3>1. <<<<p, "symbol">>, k>> \in File \X SUBSET Origin /\ <<<<p, "params">>, k>> \in File \X SUBSET Origin
      BY FileNames
    <3> QED BY <3>1, ShortQueues DEF ModelSave
  <2> QED BY <2>1, <2>2, EntriesOf DEF ModelSave
<1>3. MrtSave(p, mrt) = << <<<<p, "ext">>, x>> >> \o ModelSave(p, mrt.model)
  BY DEF MrtSave
<1> HIDE DEF x
<1>4. << <<<<p, "ext">>, x>> >> \in Writes
  <2>1. <<<<p, "ext">>, x>> \in File \X SUBSET Origin
    BY <1>1, FileNames
  <2> QED BY <2>1, ShortQueues
<1>5. /\ MrtSave(p, mrt) \in Writes
      /\ Entries(MrtSave(p, mrt)) = Entries(<< <<<<p, "ext">>, x>> >>) \cup Entries(ModelSave(p, mrt.model))
  BY <1>1, <1>2, <1>3, <1>4, EntriesConcat
<1>6. Entries(<< <<<<p, "ext">>, x>> >>) = {<<<<p, "ext">>, x>>}
  BY EntriesOf
<1> QED BY <1>1, <1>2, <1>5, <1>6 DEF x

(***************************************************************************)
(* The order of the stages                                                 *)
(***************************************************************************)
LEMMA StepNames ==
  Steps = {"prepare", "split", "calibrate", "quantize", "merge", "evaluate", "compile"}
BY Stages DEF Steps

\* The stages left after the next one.
LEMMA Rest1 ==
  ASSUME NEW t \in Seq(Steps), t # <<>>
  PROVE  /\ Head(t) \in Steps /\ Head(t) = t[1] /\ 1 \in 1 .. Len(t)
         /\ Tail(t) \in Seq(Steps)
         /\ Len(Tail(t)) = Len(t) - 1 /\ Len(t) \in Nat /\ Len(t) > 0
         /\ \A i \in 1 .. Len(t) - 1 : Tail(t)[i] = t[i + 1]
BY HeadTailProperties, EmptySeq

LEMMA TailKeepsOrder ==
  ASSUME TrustInv, status = "running", todo # <<>>, todo' = Tail(todo), UNCHANGED cfg
  PROVE  todo' \in Seq(Steps) /\ InOrder' /\ Ahead'
<1>1. todo \in Seq(Steps) /\ InOrder /\ Ahead
  BY DEF TrustInv, TypeOK
<1>2. todo' \in Seq(Steps)
  BY <1>1, Rest1
<1>3. \A i \in 1 .. Len(todo') : i + 1 \in 1 .. Len(todo) /\ todo'[i] = todo[i + 1]
  BY <1>1, Rest1
<1>4. \A i \in 1 .. Len(todo') - 1 : i \in 1 .. Len(todo') /\ i + 1 \in 1 .. Len(todo') /\ i + 1 \in 1 .. Len(todo) - 1
  BY <1>1, Rest1
<1>5. InOrder'
  BY <1>1, <1>3, <1>4 DEF InOrder
<1>6. Ahead'
  BY <1>1, <1>3 DEF Ahead
<1> QED BY <1>2, <1>5, <1>6

\* What the next stage is followed by.
LEMMA NextFollows ==
  ASSUME TrustInv, status = "running", todo # <<>>, Tail(todo) # <<>>
  PROVE  <<Head(todo), Head(Tail(todo))>> \in Follows(cfg.driver)
<1>1. todo \in Seq(Steps) /\ InOrder
  BY DEF TrustInv, TypeOK
<1>2. Tail(todo) \in Seq(Steps) /\ Head(todo) = todo[1] /\ Head(Tail(todo)) = Tail(todo)[1]
      /\ 1 \in 1 .. Len(todo) - 1 /\ Tail(todo)[1] = todo[1 + 1]
  <2>1. Tail(todo) \in Seq(Steps) /\ Len(Tail(todo)) = Len(todo) - 1
    BY <1>1, Rest1
  <2>2. Len(Tail(todo)) > 0 /\ Head(Tail(todo)) = Tail(todo)[1]
    BY <2>1, Rest1
  <2> QED BY <1>1, <2>1, <2>2, Rest1
<1> QED BY <1>1, <1>2 DEF InOrder

\* In V3 merging follows no stage of the plan: quantize puts it there.
LEMMA NotIntoMerge ==
  ASSUME TrustInv, status = "running", todo # <<>>, todo' = Tail(todo), UNCHANGED <<cfg, chain>>
  PROVE  ~ Merging'
<1> SUFFICES ASSUME Merging' PROVE FALSE
  OBVIOUS
<1>1. cfg.driver = "V3"
  BY DEF TrustInv, StartTrusted, Merging
<1>2. <<Head(todo), "merge">> \in Follows("V3")
  BY <1>1, NextFollows DEF Merging
<1> QED BY <1>2 DEF Follows, Closing

(***************************************************************************)
(* Steps of a stage                                                        *)
(***************************************************************************)
\* A stage goes on: it binds objects, puts its writes in the queue and outdates
\* the checkpoints in gone, none of which the invocation may still load.
Proceeds(gone) ==
  /\ status = "running" /\ queue = <<>>
  /\ mem' \in Objects /\ queue' \in Writes /\ used' \subseteq Origin
  /\ dumping' \in Steps \cup {"none", "unmerged", "sample"}
  /\ trusted' = trusted \ gone
  /\ StartsAt(cfg) > 0 => Stage[StartsAt(cfg)] \notin gone
  /\ cfg.driver # "V3" /\ cfg.keys /\ StartsAt(cfg) \in {3, 4} => "split" \notin gone
  /\ UNCHANGED <<files, cfg, status, run, deaths, chain>>
  /\ queue' # <<>> =>
       /\ \A w \in Entries(queue') : w[1][1] \in PrefixesOf(dumping')
       /\ cfg.driver # "V3" /\ dumping' = "prepare" => \A w \in Entries(queue') : w[1][1] = "prepare"
       /\ trusted' \cap Outdates(dumping') = {}
       /\ cfg.driver = "V3" => dumping' \notin {"split", "merge"}
       /\ cfg.driver # "V3" => dumping' # "unmerged"

LEMMA Proceeding ==
  ASSUME TrustInv, NEW gone, Proceeds(gone), todo' \in Seq(Steps), InOrder', Ahead',
         MergeUntrusted'
  PROVE  TrustInv'
<1>1. chain.driver = cfg.driver
  BY DEF TrustInv, StartTrusted, Proceeds
<1>2. TypeOK'
  BY DEF TrustInv, TypeOK, Proceeds, Writes
<1>3. WritesOwn'
  BY <1>1 DEF Proceeds, WritesOwn, Pending
<1>4. StartTrusted'
  <2>1. StartTrusted /\ StartsAt(cfg)' = StartsAt(cfg) /\ UNCHANGED <<cfg, chain>>
    BY DEF TrustInv, Proceeds, StartsAt
  <2> QED BY <2>1, Stages DEF StartTrusted, Proceeds
<1> QED BY <1>2, <1>3, <1>4 DEF TrustInv, Proceeds

\* An exception leaves the files and what is trusted as they are.
LEMMA Failing ==
  ASSUME TrustInv, queue = <<>>, NEW why \in {"checkpoint", "config", "unbound", "slice_channel"},
         Fail(why)
  PROVE  TrustInv'
<1>1. TypeOK'
  BY Types DEF TrustInv, TypeOK, Fail
<1>2. WritesOwn'
  BY DEF WritesOwn, Fail
<1> QED BY <1>1, <1>2 DEF TrustInv, Fail, MergeUntrusted, Merging

LEMMA Finishing ==
  ASSUME TrustInv, status = "running", queue = <<>>, todo # <<>>,
         NEW objects \in Objects, NEW writes \in Writes, NEW gone,
         Finish(objects, writes), trusted' = trusted \ gone, used' \subseteq Origin,
         StartsAt(cfg) > 0 => Stage[StartsAt(cfg)] \notin gone,
         cfg.driver # "V3" /\ cfg.keys /\ StartsAt(cfg) \in {3, 4} => "split" \notin gone,
         writes # <<>> =>
           /\ \A w \in Entries(writes) : w[1][1] \in PrefixesOf(Head(todo))
           /\ cfg.driver # "V3" /\ Head(todo) = "prepare" => \A w \in Entries(writes) : w[1][1] = "prepare"
           /\ trusted' \cap Outdates(Head(todo)) = {}
           /\ cfg.driver = "V3" => Head(todo) \notin {"split", "merge"}
  PROVE  TrustInv'
<1>1. todo' \in Seq(Steps) /\ InOrder' /\ Ahead'
  BY TailKeepsOrder DEF Finish
<1>2. Head(todo) \in Steps
  BY Rest1 DEF TrustInv, TypeOK
<1>3. Head(todo) # "unmerged"
  BY <1>2, StepNames
<1>4. Proceeds(gone)
  BY <1>2, <1>3 DEF Proceeds, Finish
<1>5. MergeUntrusted'
  BY NotIntoMerge DEF Finish, MergeUntrusted
<1> QED BY <1>1, <1>4, <1>5, Proceeding

\* A stage that writes nothing and outdates nothing.
LEMMA Skipping ==
  ASSUME TrustInv, status = "running", queue = <<>>, todo # <<>>,
         NEW objects \in Objects, Finish(objects, <<>>), trusted' = trusted, used' \subseteq Origin
  PROVE  TrustInv'
<1>1. <<>> \in Writes /\ trusted' = trusted \ {}
  BY ShortQueues, FileNames, Types DEF Writes
<1> QED BY <1>1, Finishing

LEMMA Loading ==
  ASSUME TrustInv, status = "running", queue = <<>>, todo # <<>>,
         NEW fs, NEW objects \in Objects, Checkpoint(fs, objects)
  PROVE  TrustInv'
<1>1. used \subseteq Origin
  BY DEF TrustInv, TypeOK
<1>2. CASE Readable(fs)
  BY <1>1, <1>2, Skipping DEF Checkpoint
<1>3. CASE ~ Readable(fs)
  BY <1>3, Failing DEF Checkpoint
<1> QED BY <1>2, <1>3

LEMMA FromLater ==
  ASSUME NEW k \in 1 .. 5, NEW j \in 0 .. 5, j < k
  PROVE  /\ j > 0 => Stage[j] \notin From(k)
         /\ j \in {3, 4} => "split" \notin From(k)
<1>1. k \in {1, 2, 3, 4, 5} /\ j \in {0, 1, 2, 3, 4, 5}
  OBVIOUS
<1> QED BY <1>1, Stages

\* A stage run anew: not one whose checkpoint, or a later one, is loaded.
LEMMA RunningAnew ==
  ASSUME TrustInv, ConfigsAssumption, status = "running", queue = <<>>, todo # <<>>,
         NEW k \in {1, 2, 3, 4}, Head(todo) = Stage[k], StartsAt(cfg) < k,
         NEW objects \in Objects, NEW writes \in Writes, Anew(k, objects, writes),
         \A w \in Entries(writes) : w[1][1] \in PrefixesOf(Stage[k]),
         cfg.driver # "V3" /\ k = 1 => \A w \in Entries(writes) : w[1][1] = "prepare",
         cfg.driver = "V3" => k # 2
  PROVE  TrustInv'
<1>1. /\ Finish(objects, writes) /\ trusted' = trusted \ From(k) /\ used' \subseteq Origin
  BY DEF Anew, TrustInv, TypeOK
<1>2. StartsAt(cfg) \in 0 .. 5
  BY StartIndex DEF TrustInv, TypeOK
<1>3. /\ StartsAt(cfg) > 0 => Stage[StartsAt(cfg)] \notin From(k)
      /\ StartsAt(cfg) \in {3, 4} => "split" \notin From(k)
  BY <1>2, FromLater
<1>4. Outdates(Stage[k]) = From(k)
  BY Stages, OutdatesTable
<1>5. /\ cfg.driver = "V3" => Head(todo) \notin {"split", "merge"}
      /\ Head(todo) = "prepare" => k = 1
  BY Stages
<1> QED BY <1>1, <1>3, <1>4, <1>5, Finishing

LEMMA LoadingWithTop ==
  ASSUME TrustInv, status = "running", queue = <<>>, todo # <<>>,
         NEW fs, NEW objects \in Objects, CheckpointWithTop(fs, objects)
  PROVE  TrustInv'
<1>1. [objects EXCEPT !.top = ModelLoad("top")] \in Objects
  BY LoadTypes DEF TrustInv, TypeOK, Objects, Prefix
<1> QED BY <1>1, Loading DEF CheckpointWithTop

\* What is written of a model or of an object, only with Dump.
LEMMA SaveNames ==
  ASSUME NEW p \in Prefix, NEW m \in SUBSET Origin, NEW mrt \in Mrt
  PROVE  /\ ModelSave(p, m) \in Writes /\ MrtSave(p, mrt) \in Writes
         /\ \A w \in Entries(ModelSave(p, m)) : w[1][1] = p
         /\ \A w \in Entries(MrtSave(p, mrt)) : w[1][1] = p
BY Saves DEF SymbolAndParams

LEMMA Dumped ==
  ASSUME NEW stage, NEW writes \in Writes
  PROVE  /\ Dump(stage, writes) \in Writes
         /\ \A w \in Entries(Dump(stage, writes)) : w \in Entries(writes)
<1>1. <<>> \in Writes
  BY DEF Writes
<1> QED BY <1>1, EntriesOf DEF Dump

LEMMA Prefixes ==
  /\ PrefixesOf("prepare") = {"prepare", "fixed", "top", "base"}
  /\ PrefixesOf("split") = {"top", "base"}
  /\ PrefixesOf("calibrate") = {"calibrate"}
  /\ PrefixesOf("quantize") = {"quantize", "all"}
  /\ PrefixesOf("unmerged") = {"quantize", "all"}
  /\ PrefixesOf("merge") = {"all"}
  /\ PrefixesOf("compile") = {"cvm"} /\ PrefixesOf("sample") = {"cvm"}
BY DEF PrefixesOf

\* One entry of an .ext file.
LEMMA ExtWrite ==
  ASSUME NEW p \in Prefix, NEW e \in SUBSET Origin
  PROVE  /\ << <<<<p, "ext">>, e>> >> \in Writes
         /\ Entries(<< <<<<p, "ext">>, e>> >>) = {<<<<p, "ext">>, e>>}
<1>1. <<<<p, "ext">>, e>> \in File \X SUBSET Origin
  BY FileNames
<1> QED BY <1>1, ShortQueues, EntriesOf

(***************************************************************************)
(* The sections of the scripts                                             *)
(***************************************************************************)
\* A section of main2.py or V2/main.py is the next to run.
Section(stage) ==
  status = "running" /\ queue = <<>> /\ todo # <<>> /\ Head(todo) = stage /\ cfg.driver # "V3"

\* What is known there.
InSection ==
  /\ cfg \in Configs /\ StartsAt(cfg) = cfg.start /\ cfg.start \in 0 .. 5
  /\ cfg.keys \in BOOLEAN /\ mem \in Objects /\ mem.mrt \in Mrt /\ run \in Nat
  /\ mem.model \in SUBSET Origin /\ mem.base \in SUBSET Origin /\ mem.top \in SUBSET Origin
  /\ mem.qmodel \in SUBSET Origin /\ mem.oscales \in SUBSET Origin
  /\ mem.inputs_ext \in SUBSET Origin
  /\ files \in [File -> SUBSET Origin] /\ used \subseteq Origin
  /\ chain.driver = cfg.driver /\ chain.keys = cfg.keys

LEMMA SectionFacts ==
  ASSUME TrustInv, ConfigsAssumption, NEW stage, Section(stage)
  PROVE  InSection
<1>1. cfg \in Configs /\ StartTrusted
  BY DEF Section, TrustInv, TypeOK
<1>2. mem \in Objects /\ run \in Nat /\ files \in [File -> SUBSET Origin] /\ used \subseteq Origin
  BY DEF TrustInv, TypeOK
<1>3. chain.driver = cfg.driver /\ chain.keys = cfg.keys
  BY <1>1 DEF StartTrusted
<1>4. StartsAt(cfg) = cfg.start /\ cfg.start \in 0 .. 5 /\ cfg.keys \in BOOLEAN
  BY <1>1, StartIndex DEF Section
<1> QED BY <1>1, <1>2, <1>3, <1>4 DEF Objects, InSection

LEMMA PrepareTrust ==
  ASSUME TrustInv, ConfigsAssumption, Section("prepare"), PrepareSection
  PROVE  TrustInv'
<1>0. InSection
  BY SectionFacts
<1> USE <1>0 DEF InSection, Section
<1>1. CASE cfg.start < 1
  <2> DEFINE objects == [mem EXCEPT !.model = Prepare(run)]
             writes == Dump("prepare", ModelSave("prepare", Prepare(run)))
  <2>1. Anew(1, objects, writes)
    BY <1>1 DEF PrepareSection
  <2>2. Prepare(run) \in SUBSET Origin /\ objects \in Objects
    BY Types DEF Objects
  <2>3. writes \in Writes /\ \A w \in Entries(writes) : w[1][1] = "prepare"
    BY <2>2, SaveNames, Dumped, Types DEF Prefix
  <2> HIDE DEF objects, writes
  <2> QED BY <1>1, <2>1, <2>2, <2>3, RunningAnew, Prefixes, Stages
<1>2. CASE cfg.start = 1
  <2>1. [mem EXCEPT !.model = ModelLoad("prepare")] \in Objects
    BY LoadTypes DEF Objects, Prefix
  <2> QED BY <1>2, <2>1, Loading DEF PrepareSection
<1>3. CASE cfg.start > 1
  BY <1>3, Skipping DEF PrepareSection, Skip
<1> QED BY <1>1, <1>2, <1>3

LEMMA SplitTrust ==
  ASSUME TrustInv, ConfigsAssumption, Section("split"), SplitSection
  PROVE  TrustInv'
<1>0. InSection
  BY SectionFacts
<1> USE <1>0 DEF InSection, Section
<1>1. CASE ~ cfg.keys /\ cfg.start = 2
  BY <1>1, Failing DEF SplitSection
<1>2. CASE ~ cfg.keys /\ cfg.start < 2
  <2>1. <<>> \in Writes /\ Entries(<<>>) = {}
    BY EntriesOf DEF Writes
  <2>2. Anew(2, mem, <<>>)
    BY <1>2 DEF SplitSection
  <2> QED BY <1>2, <2>1, <2>2, RunningAnew, Stages
<1>3. CASE cfg.start > 2
  BY <1>3, Skipping DEF SplitSection, Skip
<1>4. CASE cfg.keys /\ cfg.start < 2
  <2> DEFINE s == split_model(mem.model, run)
             objects == [mem EXCEPT !.base = s.base, !.top = s.top]
             halves == ModelSave("top", s.top) \o ModelSave("base", s.base)
             writes == Dump("split", halves)
  <2>1. Anew(2, objects, writes)
    BY <1>4 DEF SplitSection
  <2>2. s.base \in SUBSET Origin /\ s.top \in SUBSET Origin
    BY Types
  <2>3. objects \in Objects
    BY <2>2 DEF Objects
  <2>4. /\ ModelSave("top", s.top) \in Writes /\ ModelSave("base", s.base) \in Writes
        /\ \A w \in Entries(ModelSave("top", s.top)) : w[1][1] = "top"
        /\ \A w \in Entries(ModelSave("base", s.base)) : w[1][1] = "base"
    BY <2>2, SaveNames, Types DEF Prefix
  <2>5. halves \in Writes /\ \A w \in Entries(halves) : w[1][1] \in {"top", "base"}
    BY <2>4, EntriesConcat
  <2> HIDE DEF s, halves
  <2>6. writes \in Writes /\ \A w \in Entries(writes) : w[1][1] \in {"top", "base"}
    BY <2>5, Dumped
  <2> HIDE DEF objects, writes
  <2> QED BY <1>4, <2>1, <2>3, <2>6, RunningAnew, Prefixes, Stages
<1>5. CASE cfg.keys /\ cfg.start = 2
  <2> DEFINE objects == [mem EXCEPT !.top = ModelLoad("top"), !.base = ModelLoad("base")]
  <2>1. objects \in Objects
    BY LoadTypes DEF Objects, Prefix
  <2>2. Checkpoint(SymbolAndParams("top") \cup SymbolAndParams("base"), objects)
    BY <1>5 DEF SplitSection
  <2> HIDE DEF objects
  <2> QED BY <2>1, <2>2, Loading
<1> QED BY <1>1, <1>2, <1>3, <1>4, <1>5

LEMMA CalibrateTrust ==
  ASSUME TrustInv, ConfigsAssumption, Section("calibrate"), CalibrateSection
  PROVE  TrustInv'
<1>0. InSection
  BY SectionFacts
<1> USE <1>0 DEF InSection, Section
<1>1. CASE cfg.start < 3
  <2> DEFINE mrt == Calibrated(NewMrt(IF cfg.keys THEN mem.base ELSE mem.model), run)
             objects == [mem EXCEPT !.mrt = mrt]
             writes == Dump("calibrate", MrtSave("calibrate", mrt))
  <2>1. Anew(3, objects, writes)
    BY <1>1 DEF CalibrateSection
  <2>2. mrt \in Mrt
    BY Types
  <2> HIDE DEF mrt
  <2>3. objects \in Objects
    BY <2>2 DEF Objects
  <2>4. /\ MrtSave("calibrate", mrt) \in Writes
        /\ \A w \in Entries(MrtSave("calibrate", mrt)) : w[1][1] = "calibrate"
    BY <2>2, SaveNames DEF Prefix
  <2>5. writes \in Writes /\ \A w \in Entries(writes) : w[1][1] = "calibrate"
    BY <2>4, Dumped
  <2> HIDE DEF objects, writes
  <2> QED BY <1>1, <2>1, <2>3, <2>5, RunningAnew, Prefixes, Stages
<1>2. CASE cfg.start = 3
  <2> DEFINE objects == [mem EXCEPT !.mrt = MrtLoad("calibrate")]
  <2>1. objects \in Objects
    BY LoadTypes DEF Objects, Prefix
  <2>2. CheckpointWithTop(WithExt("calibrate"), objects)
    BY <1>2 DEF CalibrateSection
  <2> HIDE DEF objects
  <2> QED BY <2>1, <2>2, LoadingWithTop
<1>3. CASE cfg.start > 3
  BY <1>3, Skipping DEF CalibrateSection, Skip
<1> QED BY <1>1, <1>2, <1>3

LEMMA QuantizeTrust ==
  ASSUME TrustInv, ConfigsAssumption, Section("quantize"), QuantizeSection
  PROVE  TrustInv'
<1>0. InSection
  BY SectionFacts
<1> USE <1>0 DEF InSection, Section
<1>1. CASE cfg.start < 4
  <2> DEFINE mrt == QuantizedMrt(mem.mrt, run)
             objects == [mem EXCEPT !.mrt = mrt, !.inputs_ext = mrt.ext]
             scales == << <<<<"all", "ext">>, mrt.ext>> >>
             saved == MrtSave("quantize", mrt) \o scales
             writes == Dump("quantize", saved)
  <2>1. Anew(4, objects, writes)
    BY <1>1 DEF QuantizeSection
  <2>2. mrt \in Mrt /\ mrt.ext \in SUBSET Origin
    BY Types DEF Mrt
  <2> HIDE DEF mrt
  <2>3. objects \in Objects
    BY <2>2 DEF Objects
  <2>4. /\ MrtSave("quantize", mrt) \in Writes
        /\ \A w \in Entries(MrtSave("quantize", mrt)) : w[1][1] = "quantize"
    BY <2>2, SaveNames DEF Prefix
  <2>5. scales \in Writes /\ \A w \in Entries(scales) : w[1][1] = "all"
    <3>1. "all" \in Prefix
      BY DEF Prefix
    <3>2. scales \in Writes /\ Entries(scales) = {<<<<"all", "ext">>, mrt.ext>>}
      BY <2>2, <3>1, ExtWrite
    <3> QED BY <3>2
  <2> HIDE DEF scales
  <2>6. saved \in Writes /\ \A w \in Entries(saved) : w[1][1] \in {"quantize", "all"}
    BY <2>4, <2>5, EntriesConcat
  <2> HIDE DEF saved
  <2>7. writes \in Writes /\ \A w \in Entries(writes) : w[1][1] \in {"quantize", "all"}
    BY <2>6, Dumped
  <2> HIDE DEF objects, writes
  <2> QED BY <1>1, <2>1, <2>3, <2>7, RunningAnew, Prefixes, Stages
<1>2. CASE cfg.start = 4
  <2>1. MrtLoad("quantize") \in Mrt
    BY LoadTypes DEF Prefix
  <2>2. LoadQuantized \in Objects
    BY <2>1 DEF LoadQuantized, Objects, Mrt
  <2> QED BY <1>2, <2>2, LoadingWithTop DEF QuantizeSection
<1>3. CASE cfg.start > 4
  BY <1>3, Skipping DEF QuantizeSection, Skip
<1> QED BY <1>1, <1>2, <1>3

LEMMA MergeTrust ==
  ASSUME TrustInv, ConfigsAssumption, Section("merge"), MergeSection
  PROVE  TrustInv'
<1>0. InSection
  BY SectionFacts
<1> USE <1>0 DEF InSection, Section
<1>1. CASE ~ cfg.keys /\ cfg.start = 5
  BY <1>1, Failing DEF MergeSection
<1>2. CASE ~ cfg.keys /\ cfg.start # 5
  <2> DEFINE objects == [mem EXCEPT !.qmodel = mem.mrt.model, !.oscales = mem.mrt.ext]
  <2>1. Finish(objects, <<>>) /\ UNCHANGED <<trusted, used>>
    BY <1>2 DEF MergeSection
  <2>2. objects \in Objects
    BY DEF Objects, Mrt
  <2> HIDE DEF objects
  <2> QED BY <2>1, <2>2, Skipping
<1>3. CASE cfg.keys /\ cfg.start < 5 /\ ~ cfg.deps
  BY <1>3, Failing DEF MergeSection
<1>4. CASE cfg.keys /\ cfg.start = 5
  <2>1. LoadMerged \in Objects
    <3>1. ModelLoad("all") \in SUBSET Origin /\ files[<<"all", "ext">>] \in SUBSET Origin
      BY LoadTypes, FileNames DEF Prefix
    <3> QED BY <3>1 DEF LoadMerged, Objects
  <2>2. Checkpoint(WithExt("all"), LoadMerged)
    BY <1>4 DEF MergeSection
  <2> QED BY <2>1, <2>2, Loading
<1>5. CASE cfg.keys /\ cfg.start < 5 /\ cfg.deps
  <2> DEFINE q == merge_model(mem.mrt, mem.top)
             objects == [mem EXCEPT !.qmodel = q, !.oscales = mem.mrt.ext, !.inputs_ext = mem.mrt.ext]
             scales == << <<<<"all", "ext">>, mem.mrt.ext>> >>
             saved == ModelSave("all", q) \o scales
             writes == Dump("merge", saved)
  <2>1. Finish(objects, writes) /\ used' = q /\ trusted' = trusted \ From(5)
    BY <1>5 DEF MergeSection
  <2>2. q \in SUBSET Origin /\ mem.mrt.ext \in SUBSET Origin /\ "all" \in Prefix
    BY Types DEF Mrt, Prefix
  <2> HIDE DEF q
  <2>3. objects \in Objects
    BY <2>2 DEF Objects
  <2>4. ModelSave("all", q) \in Writes /\ \A w \in Entries(ModelSave("all", q)) : w[1][1] = "all"
    BY <2>2, SaveNames, Types
  <2>5. scales \in Writes /\ \A w \in Entries(scales) : w[1][1] = "all"
    <3>1. scales \in Writes /\ Entries(scales) = {<<<<"all", "ext">>, mem.mrt.ext>>}
      BY <2>2, ExtWrite
    <3> QED BY <3>1
  <2> HIDE DEF scales
  <2>6. saved \in Writes /\ \A w \in Entries(saved) : w[1][1] = "all"
    BY <2>4, <2>5, EntriesConcat
  <2> HIDE DEF saved
  <2>7. writes \in Writes /\ \A w \in Entries(writes) : w[1][1] \in PrefixesOf("merge")
    BY <2>6, Dumped, Prefixes
  <2>8. trusted' \cap Outdates("merge") = {} /\ cfg.start \in 0 .. 4
    BY <1>5, <2>1, OutdatesTable
  <2>9. /\ StartsAt(cfg) > 0 => Stage[StartsAt(cfg)] \notin From(5)
        /\ StartsAt(cfg) \in {3, 4} => "split" \notin From(5)
    BY <2>8, FromLater
  <2> HIDE DEF objects, writes
  <2> QED BY <2>1, <2>2, <2>3, <2>7, <2>8, <2>9, Finishing
<1> QED BY <1>1, <1>2, <1>3, <1>4, <1>5 DEF MergeSection

LEMMA EvaluateTrust ==
  ASSUME TrustInv, ConfigsAssumption, Section("evaluate"), EvaluateSection
  PROVE  TrustInv'
<1>0. InSection
  BY SectionFacts
<1>1. Finish(mem, <<>>) /\ trusted' = trusted /\ used' \subseteq Origin
  BY <1>0 DEF EvaluateSection, InSection
<1> QED BY <1>0, <1>1, Skipping DEF InSection, Section

\* The symbol and the parameters of the compiled model.
LEMMA CompiledWrites ==
  ASSUME NEW m \in SUBSET Origin
  PROVE  /\ ModelSave("cvm", m) \in Writes
         /\ \A w \in Entries(ModelSave("cvm", m)) : w[1][1] \in PrefixesOf("compile")
BY SaveNames, Types, Prefixes DEF Prefix

LEMMA CompileTrust ==
  ASSUME TrustInv, ConfigsAssumption, Section("compile"), CompileSection
  PROVE  TrustInv'
<1>0. InSection
  BY SectionFacts
<1> DEFINE writes == ModelSave("cvm", mem.qmodel)
<1>1. Finish(mem, writes) /\ trusted' = trusted \ {} /\ used' \subseteq Origin
  BY <1>0 DEF CompileSection, InSection
<1>2. writes \in Writes /\ \A w \in Entries(writes) : w[1][1] \in PrefixesOf("compile")
  BY <1>0, CompiledWrites DEF InSection
<1>3. trusted' \cap Outdates("compile") = {}
  BY OutdatesTable
<1> HIDE DEF writes
<1> QED BY <1>0, <1>1, <1>2, <1>3, Finishing DEF InSection, Section

\* Sample data is scaled once the compiled model is written.
LEMMA SampleTrust ==
  ASSUME TrustInv, Compiled, SampleSection
  PROVE  TrustInv'
<1>1. status = "running" /\ queue = <<>> /\ mem \in Objects /\ mem.mrt \in Mrt /\ used \subseteq Origin
      /\ mem.oscales \in SUBSET Origin /\ mem.mrt.ext \in SUBSET Origin /\ todo \in Seq(Steps)
      /\ InOrder /\ Ahead
  BY DEF Compiled, TrustInv, TypeOK, Objects, Mrt
<1>2. CASE mem.mrt = NoMrt
  BY <1>1, <1>2, Failing DEF SampleSection
<1>3. CASE mem.mrt # NoMrt
  <2> DEFINE writes == << <<<<"cvm", "ext">>, mem.oscales>> >>
  <2>1. /\ used' = used \cup mem.mrt.ext /\ queue' = writes /\ dumping' = "sample"
        /\ UNCHANGED <<files, mem, cfg, todo, status, run, deaths, trusted, chain>>
    BY <1>3 DEF SampleSection
  <2>2. writes \in Writes /\ \A w \in Entries(writes) : w[1][1] \in PrefixesOf("sample")
    <3>1. "cvm" \in Prefix
      BY DEF Prefix
    <3>2. writes \in Writes /\ Entries(writes) = {<<<<"cvm", "ext">>, mem.oscales>>}
      BY <1>1, <3>1, ExtWrite
    <3> QED BY <3>2, Prefixes
  <2> HIDE DEF writes
  <2>3. trusted' = trusted \ {} /\ trusted' \cap Outdates("sample") = {}
    BY <2>1, OutdatesTable
  <2>4. Proceeds({})
    BY <1>1, <2>1, <2>2, <2>3 DEF Proceeds
  <2>5. todo' \in Seq(Steps) /\ InOrder' /\ Ahead' /\ MergeUntrusted'
    BY <1>1, <2>1 DEF InOrder, Ahead, MergeUntrusted, Merging, Compiled, TrustInv
  <2> QED BY <2>4, <2>5, Proceeding
<1> QED BY <1>2, <1>3

(***************************************************************************)
(* The stages of V3                                                        *)
(***************************************************************************)
Stage3(stage) ==
  status = "running" /\ queue = <<>> /\ todo # <<>> /\ Head(todo) = stage /\ cfg.driver = "V3"

InStage3 ==
  /\ cfg \in Configs /\ StartsAt(cfg) \in {0, 1, 3, 4} /\ cfg.keys \in BOOLEAN
  /\ mem \in Objects /\ mem.mrt \in Mrt /\ mem.conf \in SUBSET Origin /\ run \in Nat
  /\ files \in [File -> SUBSET Origin] /\ used \subseteq Origin
  /\ chain.driver = "V3" /\ chain.keys = cfg.keys

LEMMA Stage3Facts ==
  ASSUME TrustInv, ConfigsAssumption, NEW stage, Stage3(stage)
  PROVE  InStage3
<1>1. cfg \in Configs /\ StartTrusted
  BY DEF Stage3, TrustInv, TypeOK
<1>2. /\ mem \in Objects /\ run \in Nat /\ files \in [File -> SUBSET Origin] /\ used \subseteq Origin
  BY DEF TrustInv, TypeOK
<1>3. chain.driver = "V3" /\ chain.keys = cfg.keys
  BY <1>1 DEF StartTrusted, Stage3
<1>4. StartsAt(cfg) \in {0, 1, 3, 4} /\ cfg.keys \in BOOLEAN
  BY <1>1, StartIndex DEF Stage3
<1> QED BY <1>1, <1>2, <1>3, <1>4 DEF Objects, InStage3

\* A stage that is still to run comes after the one whose checkpoint is loaded.
LEMMA StartBefore ==
  ASSUME TrustInv, ConfigsAssumption, NEW k \in 1 .. 5, Stage3(Stage[k])
  PROVE  StartsAt(cfg) < k
<1>1. Ahead /\ todo \in Seq(Steps) /\ cfg \in Configs
  BY DEF TrustInv, TypeOK, Stage3
<1>2. todo[1] = Stage[k] /\ 1 \in 1 .. Len(todo)
  BY <1>1, Rest1 DEF Stage3
<1>3. StartsAt(cfg) \in 0 .. 5
  BY <1>1, StartIndex
<1>4. SUFFICES ASSUME StartsAt(cfg) >= k PROVE FALSE
  BY <1>3
<1>5. k \in 1 .. StartsAt(cfg)
  BY <1>3, <1>4
<1> QED BY <1>1, <1>2, <1>5 DEF Ahead, Stage3

LEMMA ConfFiles ==
  /\ <<"prepare", "conf">> \in File /\ <<"calibrate", "conf">> \in File /\ <<"quantize", "conf">> \in File
BY DEF File

LEMMA ConfWrite ==
  ASSUME NEW p \in {"prepare", "calibrate", "quantize"}, NEW e \in SUBSET Origin
  PROVE  /\ << <<<<p, "conf">>, e>> >> \in Writes
         /\ Entries(<< <<<<p, "conf">>, e>> >>) = {<<<<p, "conf">>, e>>}
<1>1. <<<<p, "conf">>, e>> \in File \X SUBSET Origin
  BY ConfFiles
<1> QED BY <1>1, ShortQueues, EntriesOf

\* All a preparation of V3 writes, without and with the halves.
WholeWrites(m) ==
  ModelSave("fixed", m) \o ModelSave("prepare", m) \o << <<<<"prepare", "conf">>, m>> >>
HalfWrites(top, base) ==
  ModelSave("top", top) \o ModelSave("base", base) \o << <<<<"prepare", "conf">>, base>> >>

LEMMA PrepareWrites ==
  ASSUME NEW m \in SUBSET Origin, NEW top \in SUBSET Origin, NEW base \in SUBSET Origin
  PROVE  /\ WholeWrites(m) \in Writes /\ WholeWrites(m) \o HalfWrites(top, base) \in Writes
         /\ Entries(WholeWrites(m)) =
              {<<f, m>> : f \in SymbolAndParams("fixed")} \cup {<<f, m>> : f \in SymbolAndParams("prepare")}
              \cup {<<<<"prepare", "conf">>, m>>}
         /\ Entries(WholeWrites(m) \o HalfWrites(top, base)) =
              Entries(WholeWrites(m)) \cup
              {<<f, top>> : f \in SymbolAndParams("top")} \cup {<<f, base>> : f \in SymbolAndParams("base")}
              \cup {<<<<"prepare", "conf">>, base>>}
<1>1. {"fixed", "prepare", "top", "base"} \subseteq Prefix /\ NoMrt \in Mrt
  BY Types DEF Prefix
<1> DEFINE a == ModelSave("fixed", m)
           b == ModelSave("prepare", m)
           c == << <<<<"prepare", "conf">>, m>> >>
           d == ModelSave("top", top)
           e == ModelSave("base", base)
           f0 == << <<<<"prepare", "conf">>, base>> >>
<1>2. /\ a \in Writes /\ Entries(a) = {<<f, m>> : f \in SymbolAndParams("fixed")}
      /\ b \in Writes /\ Entries(b) = {<<f, m>> : f \in SymbolAndParams("prepare")}
  BY <1>1, Saves
<1>3. /\ d \in Writes /\ Entries(d) = {<<f, top>> : f \in SymbolAndParams("top")}
      /\ e \in Writes /\ Entries(e) = {<<f, base>> : f \in SymbolAndParams("base")}
  BY <1>1, Saves
<1>4. /\ c \in Writes /\ Entries(c) = {<<<<"prepare", "conf">>, m>>}
      /\ f0 \in Writes /\ Entries(f0) = {<<<<"prepare", "conf">>, base>>}
  BY ConfWrite
<1>5. WholeWrites(m) = (a \o b) \o c /\ HalfWrites(top, base) = (d \o e) \o f0
  BY DEF WholeWrites, HalfWrites
<1> HIDE DEF a, b, c, d, e, f0
<1>6. /\ a \o b \in Writes /\ Entries(a \o b) = Entries(a) \cup Entries(b)
      /\ d \o e \in Writes /\ Entries(d \o e) = Entries(d) \cup Entries(e)
  BY <1>2, <1>3, EntriesConcat
<1>7. /\ WholeWrites(m) \in Writes /\ Entries(WholeWrites(m)) = Entries(a \o b) \cup Entries(c)
      /\ HalfWrites(top, base) \in Writes
      /\ Entries(HalfWrites(top, base)) = Entries(d \o e) \cup Entries(f0)
  BY <1>4, <1>5, <1>6, EntriesConcat
<1>8. /\ WholeWrites(m) \o HalfWrites(top, base) \in Writes
      /\ Entries(WholeWrites(m) \o HalfWrites(top, base))
           = Entries(WholeWrites(m)) \cup Entries(HalfWrites(top, base))
  BY <1>7, EntriesConcat
<1>9. Entries(WholeWrites(m)) =
              {<<f, m>> : f \in SymbolAndParams("fixed")} \cup {<<f, m>> : f \in SymbolAndParams("prepare")}
              \cup {<<<<"prepare", "conf">>, m>>}
  BY ONLY <1>2, <1>4, <1>6, <1>7
<1>10. Entries(HalfWrites(top, base)) =
              {<<f, top>> : f \in SymbolAndParams("top")} \cup {<<f, base>> : f \in SymbolAndParams("base")}
              \cup {<<<<"prepare", "conf">>, base>>}
  BY ONLY <1>3, <1>4, <1>6, <1>7
<1> QED BY ONLY <1>7, <1>8, <1>9, <1>10

\* What a stage writes of an object or of a model, and the files after it.
LEMMA ObjectWrites ==
  ASSUME NEW p \in Prefix, NEW mrt \in Mrt, NEW m \in SUBSET Origin, NEW t \in Writes
  PROVE  /\ MrtSave(p, mrt) \o t \in Writes /\ ModelSave(p, m) \o t \in Writes
         /\ Entries(MrtSave(p, mrt) \o t) = Entries(MrtSave(p, mrt)) \cup Entries(t)
         /\ Entries(ModelSave(p, m) \o t) = Entries(ModelSave(p, m)) \cup Entries(t)
         /\ \A w \in Entries(MrtSave(p, mrt) \o t) : w[1][1] = p \/ w \in Entries(t)
         /\ \A w \in Entries(ModelSave(p, m) \o t) : w[1][1] = p \/ w \in Entries(t)
BY SaveNames, EntriesConcat

\* The scales and the .conf file after a quantisation.
Scales(e) == << <<<<"all", "ext">>, e>> >>
LastFiles(e, c) == << <<<<"all", "ext">>, e>>, <<<<"quantize", "conf">>, c>> >>

LEMMA LastWrites ==
  ASSUME NEW e \in SUBSET Origin, NEW c \in SUBSET Origin
  PROVE  /\ Scales(e) \in Writes /\ Entries(Scales(e)) = {<<<<"all", "ext">>, e>>}
         /\ LastFiles(e, c) \in Writes
         /\ Entries(LastFiles(e, c)) = {<<<<"all", "ext">>, e>>, <<<<"quantize", "conf">>, c>>}
         /\ \A w \in Entries(LastFiles(e, c)) : w[1][1] \in {"all", "quantize"}
<1> DEFINE scales == <<<<"all", "ext">>, e>>
           conf == <<<<"quantize", "conf">>, c>>
<1>1. scales \in File \X SUBSET Origin /\ conf \in File \X SUBSET Origin
  BY ConfFiles, FileNames DEF Prefix
<1>2. Scales(e) = <<scales>> /\ LastFiles(e, c) = <<scales, conf>>
  BY DEF Scales, LastFiles
<1> HIDE DEF scales, conf
<1>3. /\ <<scales, conf>> \in Writes /\ Entries(<<scales, conf>>) = {scales, conf}
      /\ <<scales>> \in Writes /\ Entries(<<scales>>) = {scales}
  BY <1>1, ShortQueues, EntriesOf
<1>4. scales[1][1] = "all" /\ conf[1][1] = "quantize"
  BY DEF scales, conf
<1> QED BY <1>2, <1>3, <1>4 DEF scales, conf

LEMMA prepareTrust ==
  ASSUME TrustInv, ConfigsAssumption, prepare
  PROVE  TrustInv'
<1>0. Stage3("prepare") /\ InStage3 /\ StartsAt(cfg) < 1
  <2>1. Stage3("prepare")
    BY DEF prepare, V3, Now, Stage3
  <2> QED BY <2>1, Stage3Facts, StartBefore, Stages
<1> DEFINE m == Prepare(run)
           s == split_model(m, run)
           whole == WholeWrites(m)
           all == whole \o HalfWrites(s.top, s.base)
           writes == IF cfg.keys THEN all ELSE whole
<1>1. Anew(1, mem, writes)
  BY DEF prepare, WholeWrites, HalfWrites
<1>2. m \in SUBSET Origin /\ s.top \in SUBSET Origin /\ s.base \in SUBSET Origin
  BY <1>0, Types DEF InStage3
<1> HIDE DEF m, s
<1>3. /\ whole \in Writes /\ \A w \in Entries(whole) : w[1][1] \in {"prepare", "fixed"}
      /\ all \in Writes /\ \A w \in Entries(all) : w[1][1] \in {"prepare", "fixed", "top", "base"}
  BY <1>2, PrepareWrites DEF SymbolAndParams
<1> HIDE DEF whole, all
<1>4. writes \in Writes /\ \A w \in Entries(writes) : w[1][1] \in PrefixesOf("prepare")
  BY <1>3, Prefixes
<1> HIDE DEF writes
<1> QED BY <1>0, <1>1, <1>4, RunningAnew, Stages DEF Stage3, InStage3

LEMMA calibrateTrust ==
  ASSUME TrustInv, ConfigsAssumption, calibrate
  PROVE  TrustInv'
<1>0. Stage3("calibrate") /\ InStage3 /\ StartsAt(cfg) < 3
  <2>1. Stage3("calibrate")
    BY DEF calibrate, V3, Now, Stage3
  <2> QED BY <2>1, Stage3Facts, StartBefore, Stages
<1> DEFINE conf == files[<<"prepare", "conf">>]
           source == IF HasKeys(conf) THEN "base" ELSE "prepare"
           mrt == Calibrated(NewMrt(ModelLoad(source)), run)
           last == << <<<<"calibrate", "conf">>, conf>> >>
           writes == MrtSave("calibrate", mrt) \o last
<1>1. Anew(3, mem, writes) \/ Fail("checkpoint")
  BY DEF calibrate
<1>2. conf \in SUBSET Origin /\ source \in Prefix
  BY <1>0, ConfFiles DEF InStage3, Prefix
<1>3. mrt \in Mrt
  <2>1. ModelLoad(source) \in SUBSET Origin
    BY <1>0, <1>2, LoadTypes DEF InStage3
  <2> QED BY <1>0, <2>1, Types DEF InStage3
<1> HIDE DEF mrt, source
<1>4. /\ MrtSave("calibrate", mrt) \in Writes
      /\ \A w \in Entries(MrtSave("calibrate", mrt)) : w[1][1] = "calibrate"
  BY <1>3, SaveNames DEF Prefix
<1>5. last \in Writes /\ \A w \in Entries(last) : w[1][1] = "calibrate"
  BY <1>2, ConfWrite
<1> HIDE DEF last
<1>6. writes \in Writes /\ \A w \in Entries(writes) : w[1][1] \in PrefixesOf("calibrate")
  BY <1>4, <1>5, EntriesConcat, Prefixes
<1> HIDE DEF writes
<1>7. CASE Anew(3, mem, writes)
  BY <1>0, <1>6, <1>7, RunningAnew, Stages DEF Stage3, InStage3
<1>8. CASE Fail("checkpoint")
  BY <1>0, <1>8, Failing DEF Stage3
<1> QED BY <1>1, <1>7, <1>8

\* Merging, or nothing, is put before what follows the quantisation.
LEMMA MergeInOrder ==
  ASSUME TrustInv, ConfigsAssumption, Stage3("quantize"), UNCHANGED cfg,
         todo' = <<"merge">> \o Tail(todo) \/ todo' = Tail(todo)
  PROVE  todo' \in Seq(Steps) /\ InOrder' /\ Ahead'
<1>1. todo \in Seq(Steps) /\ InOrder /\ Ahead
  BY DEF TrustInv, TypeOK, Stage3
<1>2. CASE todo' = Tail(todo)
  BY <1>2, TailKeepsOrder DEF Stage3
<1>3. CASE todo' = <<"merge">> \o Tail(todo)
  <2> DEFINE t == Tail(todo)
  <2>1. t \in Seq(Steps) /\ Len(t) \in Nat /\ <<"merge">> \in Seq(Steps) /\ Len(<<"merge">>) = 1
        /\ Len(t) = Len(todo) - 1 /\ \A i \in 1 .. Len(t) : t[i] = todo[i + 1]
    BY <1>1, Rest1, StepNames DEF Stage3
  <2> HIDE DEF t
  <2>2. /\ todo' \in Seq(Steps) /\ Len(todo') = 1 + Len(t)
        /\ todo'[1] = "merge"
        /\ \A i \in 2 .. 1 + Len(t) : todo'[i] = t[i - 1]
    <3>1. /\ todo' = <<"merge">> \o t /\ todo' \in Seq(Steps)
          /\ Len(todo') = 1 + Len(t)
          /\ \A i \in 1 .. 1 + Len(t) :
                todo'[i] = IF i <= 1 THEN <<"merge">>[i] ELSE t[i - 1]
      BY <1>3, <2>1, ConcatProperties DEF t
    <3> QED BY <2>1, <3>1
  <2>3. \A i \in 2 .. Len(todo') : i \in 1 .. Len(todo) /\ todo'[i] = todo[i]
    BY <2>1, <2>2
  <2>4. Len(todo') = Len(todo) /\ Len(todo) \in Nat
    BY <1>1, <2>1, <2>2, Rest1 DEF Stage3
  <2>5. InOrder'
    <3>1. ASSUME NEW i \in 1 .. Len(todo') - 1
          PROVE  <<todo'[i], todo'[i + 1]>> \in Follows(cfg.driver)
      <4>1. i \in 1 .. Len(todo) - 1 /\ i + 1 \in 2 .. Len(todo') /\ i \in 1 .. Len(todo)
        BY <2>4
      <4>2. todo'[i + 1] = todo[i + 1] /\ <<todo[i], todo[i + 1]>> \in Follows(cfg.driver)
        BY <1>1, <2>3, <4>1 DEF InOrder
      <4>3. CASE i = 1
        <5>1. todo[1] = "quantize"
          BY <1>1, Rest1 DEF Stage3
        <5>2. todo[i + 1] \in Closing
          BY <4>2, <4>3, <5>1 DEF Follows, Stage3
        <5> QED BY <2>2, <4>2, <4>3, <5>2 DEF Follows
      <4>4. CASE i # 1
        <5>1. i \in 2 .. Len(todo')
          BY <4>1, <4>4
        <5> QED BY <2>3, <4>2, <5>1
      <4> QED BY <4>3, <4>4
    <3> QED BY <3>1 DEF InOrder
  <2>6. Ahead'
    <3>1. StartsAt(cfg) < 4 /\ StartsAt(cfg) \in {0, 1, 3, 4}
      BY Stage3Facts, StartBefore, Stages DEF InStage3
    <3>2. \A k \in 1 .. StartsAt(cfg) : Stage[k] # "merge"
      BY <3>1, Stages
    <3>3. \A i \in 1 .. Len(todo') : i = 1 \/ i \in 2 .. Len(todo')
      BY <2>4
    <3> QED BY <1>1, <2>2, <2>3, <3>2, <3>3 DEF Ahead
  <2> QED BY <2>2, <2>5, <2>6
<1> QED BY <1>2, <1>3

LEMMA quantizeTrust ==
  ASSUME TrustInv, ConfigsAssumption, quantize
  PROVE  TrustInv'
<1>0. Stage3("quantize") /\ InStage3 /\ StartsAt(cfg) < 4
  <2>1. Stage3("quantize")
    BY DEF quantize, V3, Now, Stage3
  <2> QED BY <2>1, Stage3Facts, StartBefore, Stages
<1> DEFINE conf == files[<<"calibrate", "conf">>]
           mrt == QuantizedMrt(MrtLoad("calibrate"), run)
           last == LastFiles(mrt.ext, conf)
           writes == MrtSave("quantize", mrt) \o last
           objects == [mem EXCEPT !.mrt = mrt, !.conf = conf]
           Run1 == /\ mem' = objects /\ queue' = writes
                   /\ \/ todo' = <<"merge">> \o Tail(todo) /\ dumping' = "unmerged"
                      \/ todo' = Tail(todo) /\ dumping' = "quantize"
                   /\ trusted' = trusted \ From(4)
                   /\ UNCHANGED <<files, cfg, status, run, deaths, chain, used>>
<1>1. Run1 \/ Fail("checkpoint")
  BY DEF quantize, LastFiles
<1>2. conf \in SUBSET Origin /\ mrt \in Mrt /\ mrt.ext \in SUBSET Origin
  <2>1. MrtLoad("calibrate") \in Mrt
    BY <1>0, LoadTypes DEF InStage3, Prefix
  <2>2. mrt \in Mrt
    BY <1>0, <2>1, Types DEF InStage3
  <2> QED BY <1>0, <2>2, ConfFiles DEF InStage3, Mrt
<1> HIDE DEF mrt, conf
<1>3. objects \in Objects
  BY <1>0, <1>2 DEF InStage3, Objects
<1>4. writes \in Writes /\ \A w \in Entries(writes) : w[1][1] \in {"quantize", "all"}
  <2>1. last \in Writes /\ \A w \in Entries(last) : w[1][1] \in {"quantize", "all"}
    BY <1>2, LastWrites
  <2> HIDE DEF last
  <2> QED BY <1>2, <2>1, ObjectWrites DEF Prefix
<1> HIDE DEF writes, objects
<1>5. CASE Run1
  <2>1. todo' \in Seq(Steps) /\ InOrder' /\ Ahead'
    BY <1>0, <1>5, MergeInOrder
  <2>2. trusted' \cap Outdates(dumping') = {} /\ \A w \in Entries(queue') : w[1][1] \in PrefixesOf(dumping')
    BY <1>4, <1>5, OutdatesTable, Prefixes
  <2>3. /\ StartsAt(cfg) > 0 => Stage[StartsAt(cfg)] \notin From(4)
    BY <1>0, FromLater DEF InStage3
  <2>4. used \subseteq Origin /\ dumping' \in Steps \cup {"none", "unmerged", "sample"}
    BY <1>0, <1>5, StepNames DEF InStage3
  <2>5. Proceeds(From(4))
    BY <1>0, <1>3, <1>4, <1>5, <2>2, <2>3, <2>4 DEF Proceeds, Stage3
  <2>6. MergeUntrusted'
    BY <1>0, <1>5, NotIntoMerge, Stages DEF MergeUntrusted, Stage3
  <2> QED BY <2>1, <2>5, <2>6, Proceeding
<1>6. CASE Fail("checkpoint")
  BY <1>0, <1>6, Failing DEF Stage3
<1> QED BY <1>1, <1>5, <1>6

LEMMA mergeTrust ==
  ASSUME TrustInv, ConfigsAssumption, merge
  PROVE  TrustInv'
<1>0. Stage3("merge") /\ InStage3 /\ "quantize" \notin trusted /\ "merge" \notin trusted
  <2>1. Stage3("merge")
    BY DEF merge, V3, Now, Stage3
  <2>2. InStage3
    BY <2>1, Stage3Facts
  <2> QED BY <2>1, <2>2 DEF TrustInv, MergeUntrusted, Merging, Stage3, InStage3
<1> DEFINE q == merge_model(mem.mrt, ModelLoad("top"))
           last == LastFiles(mem.mrt.ext, mem.conf)
           writes == ModelSave("all", q) \o last
           Run1 == /\ used' = q /\ queue' = writes /\ dumping' = "quantize" /\ todo' = Tail(todo)
                   /\ UNCHANGED <<files, mem, cfg, status, run, deaths, chain, trusted>>
<1>1. Run1 \/ Fail("config") \/ Fail("checkpoint")
  BY DEF merge, LastFiles
<1>2. q \in SUBSET Origin /\ mem.mrt.ext \in SUBSET Origin /\ mem.conf \in SUBSET Origin
  <2>1. ModelLoad("top") \in SUBSET Origin
    BY <1>0, LoadTypes DEF InStage3, Prefix
  <2> QED BY <1>0, <2>1, Types DEF InStage3, Mrt
<1> HIDE DEF q
<1>3. writes \in Writes /\ \A w \in Entries(writes) : w[1][1] \in {"quantize", "all"}
  <2>1. last \in Writes /\ \A w \in Entries(last) : w[1][1] \in {"quantize", "all"}
    BY <1>2, LastWrites
  <2>2. mem.mrt \in Mrt
    BY <1>0 DEF InStage3
  <2> HIDE DEF last
  <2> QED BY <1>2, <2>1, <2>2, ObjectWrites DEF Prefix
<1> HIDE DEF writes
<1>4. CASE Run1
  <2>1. todo' \in Seq(Steps) /\ InOrder' /\ Ahead'
    BY <1>0, <1>4, TailKeepsOrder DEF Stage3
  <2>2. /\ trusted' \cap Outdates(dumping') = {} /\ trusted' = trusted \ {}
        /\ \A w \in Entries(queue') : w[1][1] \in PrefixesOf(dumping')
    BY <1>0, <1>3, <1>4, OutdatesTable, Prefixes, Stages
  <2>3. used' \subseteq Origin /\ dumping' \in Steps \cup {"none", "unmerged", "sample"} /\ mem' \in Objects
    BY <1>0, <1>2, <1>4, StepNames DEF InStage3
  <2>4. Proceeds({})
    BY <1>0, <1>3, <1>4, <2>2, <2>3 DEF Proceeds, Stage3
  <2>5. MergeUntrusted'
    BY <1>0, <1>4, NotIntoMerge DEF MergeUntrusted, Stage3
  <2> QED BY <2>1, <2>4, <2>5, Proceeding
<1>5. CASE Fail("config")
  BY <1>0, <1>5, Failing DEF Stage3
<1>6. CASE Fail("checkpoint")
  BY <1>0, <1>6, Failing DEF Stage3
<1> QED BY <1>1, <1>4, <1>5, <1>6

LEMMA evaluateTrust ==
  ASSUME TrustInv, ConfigsAssumption, evaluate
  PROVE  TrustInv'
<1>0. Stage3("evaluate") /\ InStage3
  <2>1. Stage3("evaluate")
    BY DEF evaluate, V3, Now, Stage3
  <2> QED BY <2>1, Stage3Facts
<1>1. CASE Fail("checkpoint")
  BY <1>0, <1>1, Failing DEF Stage3
<1>2. CASE used' = ResultUsed /\ Finish(mem, <<>>) /\ UNCHANGED trusted
  <2>1. ResultUsed \subseteq Origin
    BY <1>0, LoadTypes, FileNames DEF InStage3, ResultUsed, Result, Prefix
  <2> QED BY <1>0, <1>2, <2>1, Skipping DEF Stage3, InStage3
<1> QED BY <1>1, <1>2 DEF evaluate

LEMMA compileTrust ==
  ASSUME TrustInv, ConfigsAssumption, mrt_compile
  PROVE  TrustInv'
<1>0. Stage3("compile") /\ InStage3
  <2>1. Stage3("compile")
    BY DEF mrt_compile, V3, Now, Stage3
  <2> QED BY <2>1, Stage3Facts
<1> DEFINE m == ModelLoad(Result)
           last == << <<<<"cvm", "ext">>, files[<<Result, "ext">>]>> >>
           writes == ModelSave("cvm", m) \o last
<1>1. CASE Fail("checkpoint")
  BY <1>0, <1>1, Failing DEF Stage3
<1>2. CASE used' = ResultUsed /\ Finish(mem, writes) /\ UNCHANGED trusted
  <2>1. ResultUsed \subseteq Origin /\ m \in SUBSET Origin /\ files[<<Result, "ext">>] \in SUBSET Origin
    BY <1>0, LoadTypes, FileNames DEF InStage3, ResultUsed, Result, Prefix
  <2>2. ModelSave("cvm", m) \in Writes /\ \A w \in Entries(ModelSave("cvm", m)) : w[1][1] \in PrefixesOf("compile")
    BY <2>1, CompiledWrites
  <2>3. last \in Writes /\ \A w \in Entries(last) : w[1][1] \in PrefixesOf("compile")
    <3>1. "cvm" \in Prefix
      BY DEF Prefix
    <3>2. last \in Writes /\ Entries(last) = {<<<<"cvm", "ext">>, files[<<Result, "ext">>]>>}
      BY <2>1, <3>1, ExtWrite
    <3> QED BY <3>2, Prefixes
  <2> HIDE DEF m, last
  <2>4. writes \in Writes /\ \A w \in Entries(writes) : w[1][1] \in PrefixesOf("compile")
    BY <2>2, <2>3, EntriesConcat
  <2>5. trusted' = trusted \ {} /\ trusted' \cap Outdates("compile") = {}
    BY <1>2, OutdatesTable
  <2> HIDE DEF writes
  <2> QED BY <1>0, <1>2, <2>1, <2>4, <2>5, Finishing DEF Stage3, InStage3
<1> QED BY <1>1, <1>2 DEF mrt_compile

(***************************************************************************)
(* Invocations                                                             *)
(***************************************************************************)
LEMMA Joined ==
  ASSUME NEW a \in Seq(Steps), NEW t \in Seq(Steps)
  PROVE  /\ a \o t \in Seq(Steps) /\ Len(a \o t) = Len(a) + Len(t)
         /\ Len(a) \in Nat /\ Len(t) \in Nat
         /\ \A i \in 1 .. Len(a) : (a \o t)[i] = a[i]
         /\ \A i \in 1 .. Len(t) : (a \o t)[Len(a) + i] = t[i]
<1>1. /\ a \o t \in Seq(Steps) /\ Len(a \o t) = Len(a) + Len(t)
      /\ Len(a) \in Nat /\ Len(t) \in Nat
      /\ \A i \in 1 .. Len(a) + Len(t) :
            (a \o t)[i] = IF i <= Len(a) THEN a[i] ELSE t[i - Len(a)]
  BY ConcatProperties
<1>2. ASSUME NEW i \in 1 .. Len(t) PROVE (a \o t)[Len(a) + i] = t[i]
  <2>1. Len(a) + i \in 1 .. Len(a) + Len(t) /\ ~ Len(a) + i <= Len(a) /\ (Len(a) + i) - Len(a) = i
    BY <1>1
  <2> QED BY <1>1, <2>1
<1> QED BY <1>1, <1>2

\* Two parts in order, the one followed by the other, are in order.
LEMMA OrderJoined ==
  ASSUME NEW a \in Seq(Steps), NEW t \in Seq(Steps), NEW R,
         \A i \in 1 .. Len(a) - 1 : <<a[i], a[i + 1]>> \in R,
         \A i \in 1 .. Len(t) - 1 : <<t[i], t[i + 1]>> \in R,
         Len(a) > 0 /\ Len(t) > 0 => <<a[Len(a)], t[1]>> \in R
  PROVE  \A i \in 1 .. Len(a \o t) - 1 : <<(a \o t)[i], (a \o t)[i + 1]>> \in R
<1> SUFFICES ASSUME NEW i \in 1 .. Len(a \o t) - 1 PROVE <<(a \o t)[i], (a \o t)[i + 1]>> \in R
  OBVIOUS
<1>0. Len(a \o t) = Len(a) + Len(t) /\ Len(a) \in Nat /\ Len(t) \in Nat
  BY Joined
<1>1. CASE i < Len(a)
  <2>1. i \in 1 .. Len(a) - 1 /\ i \in 1 .. Len(a) /\ i + 1 \in 1 .. Len(a)
    BY <1>0, <1>1
  <2>2. (a \o t)[i] = a[i] /\ (a \o t)[i + 1] = a[i + 1]
    BY <2>1, Joined
  <2> QED BY <2>1, <2>2
<1>2. CASE i = Len(a)
  <2>1. Len(a) > 0 /\ Len(t) > 0 /\ 1 \in 1 .. Len(t) /\ i \in 1 .. Len(a)
    BY <1>0, <1>2
  <2>2. (a \o t)[i] = a[Len(a)] /\ (a \o t)[i + 1] = t[1]
    BY <1>2, <2>1, Joined
  <2> QED BY <2>1, <2>2
<1>3. CASE i > Len(a)
  <2> DEFINE j == i - Len(a)
  <2>1. /\ j \in 1 .. Len(t) - 1 /\ j \in 1 .. Len(t) /\ j + 1 \in 1 .. Len(t)
        /\ Len(a) + j = i /\ Len(a) + (j + 1) = i + 1
    BY <1>0, <1>3
  <2>2. (a \o t)[Len(a) + j] = t[j] /\ (a \o t)[Len(a) + (j + 1)] = t[j + 1]
    BY <2>1, Joined
  <2> QED BY <2>1, <2>2
<1> QED BY <1>0, <1>1, <1>2, <1>3

LEMMA TailPlans ==
  ASSUME NEW t \in {<<>>, <<"evaluate">>, <<"compile">>, <<"evaluate", "compile">>}
  PROVE  /\ t \in Seq(Steps) /\ \A i \in 1 .. Len(t) : t[i] \in Closing
         /\ \A i \in 1 .. Len(t) - 1 : <<t[i], t[i + 1]>> = <<"evaluate", "compile">>
<1>1. \A x \in Closing : x \in Steps
  BY StepNames DEF Closing
<1>2. <<>> \in Seq(Steps) /\ <<"evaluate">> \in Seq(Steps) /\ <<"compile">> \in Seq(Steps)
      /\ <<"evaluate", "compile">> \in Seq(Steps)
  BY <1>1 DEF Closing
<1>3. CASE t = <<>>
  BY <1>2, <1>3
<1>4. CASE t = <<"evaluate">>
  BY <1>2, <1>4 DEF Closing
<1>5. CASE t = <<"compile">>
  BY <1>2, <1>5 DEF Closing
<1>6. CASE t = <<"evaluate", "compile">>
  BY <1>2, <1>6 DEF Closing
<1> QED BY <1>3, <1>4, <1>5, <1>6

Stages3 == <<"prepare", "calibrate", "quantize">>

\* What V3 still has to do after the stage it starts after.
LEMMA Plan3 ==
  ASSUME NEW k \in 0 .. 3
  PROVE  LET a == SubSeq(Stages3, k + 1, 3)
         IN  a \in Seq(Steps) /\ Len(a) = 3 - k /\ \A i \in 1 .. Len(a) : a[i] = Stages3[k + i]
<1>1. Stages3 \in Seq(Steps) /\ Len(Stages3) = 3
  BY StepNames DEF Stages3
<1> DEFINE m == k + 1
           n == 3
<1>2. m \in Int /\ n \in Int /\ \A i \in m .. n : Stages3[i] \in Steps
  <2>1. \A i \in 1 .. 3 : Stages3[i] \in Steps
    BY <1>1, ElementOfSeq
  <2>2. \A i \in m .. n : i \in 1 .. 3
    OBVIOUS
  <2> QED BY <2>1, <2>2
<1> HIDE DEF m, n
<1>3. /\ SubSeq(Stages3, m, n) \in Seq(Steps)
      /\ Len(SubSeq(Stages3, m, n)) = IF m <= n THEN n - m + 1 ELSE 0
      /\ \A i \in 1 .. n - m + 1 : SubSeq(Stages3, m, n)[i] = Stages3[m + i - 1]
  BY <1>2, SubSeqProperties
<1>4. m = k + 1 /\ n = 3
  BY DEF m, n
<1>5. /\ SubSeq(Stages3, k + 1, 3) \in Seq(Steps)
      /\ Len(SubSeq(Stages3, k + 1, 3)) = IF k + 1 <= 3 THEN 3 - (k + 1) + 1 ELSE 0
      /\ \A i \in 1 .. 3 - (k + 1) + 1 : SubSeq(Stages3, k + 1, 3)[i] = Stages3[(k + 1) + i - 1]
  BY <1>3, <1>4
<1>6. \A i \in 1 .. 3 - k : i \in 1 .. 3 - (k + 1) + 1 /\ (k + 1) + i - 1 = k + i
  OBVIOUS
<1> QED BY <1>5, <1>6

\* The stages of a configuration are in order.
LEMMA PlanInOrder ==
  ASSUME ConfigsAssumption, NEW c \in Configs
  PROVE  /\ StagesOf(c) \in Seq(Steps)
         /\ \A i \in 1 .. Len(StagesOf(c)) - 1 : <<StagesOf(c)[i], StagesOf(c)[i + 1]>> \in Follows(c.driver)
         /\ c.driver = "V3" =>
              /\ \A i \in 1 .. Len(StagesOf(c)) : \A k \in 1 .. StartsAt(c) : StagesOf(c)[i] # Stage[k]
              /\ \A i \in 1 .. Len(StagesOf(c)) : StagesOf(c)[i] # "merge"
<1> DEFINE t == c.tail
<1>1. /\ t \in {<<>>, <<"evaluate">>, <<"compile">>, <<"evaluate", "compile">>}
      /\ c.start \in 0 .. 5 /\ c.driver \in {"main2", "V2", "V3"}
  BY DEF ConfigsAssumption, Config
<1>2. /\ t \in Seq(Steps) /\ Len(t) \in Nat /\ \A i \in 1 .. Len(t) : t[i] \in Closing
      /\ \A i \in 1 .. Len(t) - 1 : <<t[i], t[i + 1]>> = <<"evaluate", "compile">>
  BY <1>1, TailPlans
<1>3. CASE c.driver # "V3"
  <2>1. StagesOf(c) = Stage \o t
    BY <1>3 DEF StagesOf
  <2>2. Stage \in Seq(Steps) /\ Len(Stage) = 5
    BY StepNames DEF Stage
  <2>3. /\ \A i \in 1 .. Len(Stage) - 1 : <<Stage[i], Stage[i + 1]>> \in Follows(c.driver)
        /\ Stage[Len(Stage)] = "merge"
    <3>1. 1 .. Len(Stage) - 1 = {1, 2, 3, 4}
      BY <2>2
    <3> QED BY <1>3, <2>2, <3>1, Stages DEF Follows
  <2>4. /\ \A i \in 1 .. Len(t) - 1 : <<t[i], t[i + 1]>> \in Follows(c.driver)
        /\ Len(Stage) > 0 /\ Len(t) > 0 => <<Stage[Len(Stage)], t[1]>> \in Follows(c.driver)
    <3>1. Len(t) > 0 => 1 \in 1 .. Len(t)
      BY <1>2
    <3> HIDE DEF t
    <3>2. Len(t) > 0 => <<Stage[Len(Stage)], t[1]>> \in {"merge"} \X Closing
      BY <1>2, <2>3, <3>1
    <3> QED BY <1>2, <3>2 DEF Follows
  <2> HIDE DEF t
  <2>5. Stage \o t \in Seq(Steps)
    BY <1>2, <2>2, Joined
  <2> QED BY <1>2, <1>3, <2>1, <2>2, <2>3, <2>4, <2>5, OrderJoined
<1>4. CASE c.driver = "V3"
  <2> DEFINE k == c.start
             a == SubSeq(Stages3, k + 1, 3)
  <2>1. k \in 0 .. 3
    BY <1>4 DEF ConfigsAssumption
  <2>2. a \in Seq(Steps) /\ Len(a) = 3 - k /\ \A i \in 1 .. Len(a) : a[i] = Stages3[k + i]
    BY <2>1, Plan3
  <2>3. StagesOf(c) = a \o t
    BY <1>4 DEF StagesOf, Stages3
  <2>4. Stages3[1] = "prepare" /\ Stages3[2] = "calibrate" /\ Stages3[3] = "quantize"
    BY DEF Stages3
  <2> HIDE DEF a, t, k
  <2>5. \A i \in 1 .. Len(a) - 1 : <<a[i], a[i + 1]>> \in Follows("V3")
    <3> SUFFICES ASSUME NEW i \in 1 .. Len(a) - 1 PROVE <<a[i], a[i + 1]>> \in Follows("V3")
      OBVIOUS
    <3>1. i \in 1 .. Len(a) /\ i + 1 \in 1 .. Len(a) /\ k + i \in {1, 2} /\ k + (i + 1) = (k + i) + 1
      BY <2>1, <2>2
    <3>2. a[i] = Stages3[k + i] /\ a[i + 1] = Stages3[(k + i) + 1]
      BY <2>2, <3>1
    <3>3. CASE k + i = 1
      BY <2>4, <3>2, <3>3 DEF Follows
    <3>4. CASE k + i = 2
      BY <2>4, <3>2, <3>4 DEF Follows
    <3> QED BY <3>1, <3>3, <3>4
  <2>6. Len(a) > 0 /\ Len(t) > 0 => <<a[Len(a)], t[1]>> \in Follows("V3")
    <3> SUFFICES ASSUME Len(a) > 0, Len(t) > 0 PROVE <<a[Len(a)], t[1]>> \in Follows("V3")
      OBVIOUS
    <3>1. Len(a) \in 1 .. Len(a) /\ k + Len(a) = 3 /\ 1 \in 1 .. Len(t)
      BY <1>2, <2>1, <2>2
    <3>2. a[Len(a)] = "quantize" /\ t[1] \in Closing
      BY <1>2, <2>2, <2>4, <3>1
    <3>3. <<a[Len(a)], t[1]>> \in {"quantize"} \X Closing
      BY <3>2
    <3> QED BY <3>3 DEF Follows
  <2>7. \A i \in 1 .. Len(t) - 1 : <<t[i], t[i + 1]>> \in Follows("V3")
    BY <1>2 DEF Follows
  <2>8. /\ a \o t \in Seq(Steps)
        /\ \A i \in 1 .. Len(a \o t) - 1 : <<(a \o t)[i], (a \o t)[i + 1]>> \in Follows("V3")
    BY <1>2, <2>2, <2>5, <2>6, <2>7, Joined, OrderJoined
  <2>9. ASSUME NEW i \in 1 .. Len(a \o t)
        PROVE  /\ (a \o t)[i] # "merge"
               /\ \A j \in 1 .. StartsAt(c) : (a \o t)[i] # Stage[j]
    <3>1. /\ k = 0 => StartsAt(c) = 0
          /\ k = 1 => StartsAt(c) = 1
          /\ k = 2 => StartsAt(c) = 3
          /\ k = 3 => StartsAt(c) = 4
      BY <1>4 DEF StartsAt, k
    <3>2. /\ Len(a \o t) = Len(a) + Len(t) /\ Len(a) \in Nat /\ Len(t) \in Nat
          /\ \A n \in 1 .. Len(a) : (a \o t)[n] = a[n]
          /\ \A n \in 1 .. Len(t) : (a \o t)[Len(a) + n] = t[n]
      BY <1>2, <2>2, Joined
    <3>3. CASE i <= Len(a)
      <4>1. i \in 1 .. Len(a) /\ (a \o t)[i] = Stages3[k + i] /\ k + i \in {1, 2, 3}
        BY <2>1, <2>2, <3>2, <3>3
      <4>2. (a \o t)[i] \in {"prepare", "calibrate", "quantize"}
        BY <2>4, <4>1
      <4>3. CASE k = 0
        BY <3>1, <4>2, <4>3
      <4>4. CASE k = 1
        BY <2>4, <3>1, <4>1, <4>2, <4>4, Stages
      <4>5. CASE k = 2
        <5>1. k + i = 3
          BY <2>2, <4>1, <4>5
        <5> QED BY <2>4, <3>1, <4>1, <4>5, <5>1, Stages
      <4>6. k # 3
        BY <2>2, <4>1
      <4> QED BY <2>1, <4>3, <4>4, <4>5, <4>6
    <3>4. CASE ~ i <= Len(a)
      <4> DEFINE n == i - Len(a)
      <4>1. n \in 1 .. Len(t) /\ Len(a) + n = i
        BY <3>2, <3>4
      <4>2. (a \o t)[i] = t[n] /\ t[n] \in Closing
        BY <1>2, <3>2, <4>1
      <4>3. StartsAt(c) \in 0 .. 4
        BY <2>1, <3>1
      <4>4. \A j \in 1 .. StartsAt(c) : j \in {1, 2, 3, 4}
        BY <4>3
      <4> QED BY <4>2, <4>4, Stages DEF Closing
    <3> QED BY <3>3, <3>4
  <2> QED BY <1>4, <2>3, <2>8, <2>9
<1> QED BY <1>3, <1>4

LEMMA StartTrust ==
  ASSUME TrustInv, ConfigsAssumption, Start
  PROVE  TrustInv'
<1>1. PICK c \in Configs :
        /\ Careful(c) /\ cfg' = c /\ todo' = StagesOf(c)
        /\ chain' = [driver |-> c.driver, keys |-> c.keys]
        /\ trusted' = IF c.driver = chain.driver THEN trusted ELSE {}
  BY DEF Start
<1>2. /\ queue = <<>> /\ queue' = <<>> /\ status' = "running" /\ run' = run + 1 /\ mem' = NoObjects
      /\ dumping' = "none" /\ used' = {} /\ files' = files /\ deaths' = deaths
  BY DEF Start
<1>3. c.driver \in {"main2", "V2", "V3"} /\ c.keys \in BOOLEAN /\ StartsAt(c) \in 0 .. 5
  BY StartIndex
<1>4. chain'.driver = c.driver /\ chain'.keys = c.keys
  BY <1>1
<1>5. /\ StagesOf(c) \in Seq(Steps)
      /\ \A i \in 1 .. Len(StagesOf(c)) - 1 : <<StagesOf(c)[i], StagesOf(c)[i + 1]>> \in Follows(c.driver)
      /\ c.driver = "V3" =>
           /\ \A i \in 1 .. Len(StagesOf(c)) : \A k \in 1 .. StartsAt(c) : StagesOf(c)[i] # Stage[k]
           /\ \A i \in 1 .. Len(StagesOf(c)) : StagesOf(c)[i] # "merge"
  BY PlanInOrder
<1>6. TypeOK'
  <2>1. NoObjects \in Objects
    BY Types
  <2> QED BY <1>1, <1>2, <1>3, <1>5, <2>1 DEF TrustInv, TypeOK
<1>7. WritesOwn'
  BY <1>2 DEF WritesOwn
<1>8. InOrder' /\ Ahead'
  BY <1>1, <1>5 DEF InOrder, Ahead, StartsAt
<1>9. ~ Merging'
  <2> SUFFICES ASSUME Merging' PROVE FALSE
    OBVIOUS
  <2>1. c.driver = "V3" /\ todo' # <<>> /\ Head(todo') = "merge" /\ todo' \in Seq(Steps)
    BY <1>1, <1>4, <1>5 DEF Merging
  <2>2. 1 \in 1 .. Len(todo') /\ todo'[1] = "merge"
    BY <2>1, Rest1
  <2> QED BY <1>1, <1>5, <2>1, <2>2
<1>10. StartTrusted'
  <2>1. /\ StartsAt(c) > 0 => Stage[StartsAt(c)] \in trusted /\ chain.driver = c.driver
        /\ c.driver # "V3" /\ c.keys /\ StartsAt(c) \in {3, 4} => "split" \in trusted
    BY <1>1 DEF Careful
  <2>2. StartsAt(c) > 0 => trusted' = trusted
    BY <1>1, <2>1
  <2>3. StartsAt(cfg)' = StartsAt(c)
    BY <1>1 DEF StartsAt
  <2> QED BY <1>1, <1>3, <1>4, <2>1, <2>2, <2>3 DEF StartTrusted
<1>11. chain'.driver = "V3" => trusted' \cap {"split", "merge"} = {}
  BY <1>1, <1>4 DEF TrustInv
<1> QED BY <1>2, <1>3, <1>4, <1>6, <1>7, <1>8, <1>9, <1>10, <1>11 DEF TrustInv, MergeUntrusted

\* The first pending file, and what stays pending.
LEMMA PendingFacts ==
  ASSUME TrustInv, queue # <<>>
  PROVE  /\ queue \in Writes /\ queue[1] \in File \X SUBSET Origin /\ Tail(queue) \in Writes
         /\ queue[1] \in Pending /\ Entries(Tail(queue)) \subseteq Pending
         /\ Tail(queue) # <<>> => Len(queue) # 1
         /\ status = "running" /\ queue[1][1][1] \in PrefixesOf(dumping)
         /\ trusted \cap Outdates(dumping) = {}
<1>1. queue \in Writes
  BY DEF TrustInv, TypeOK, Writes
<1>2. /\ queue[1] \in File \X SUBSET Origin /\ Tail(queue) \in Writes
      /\ queue[1] \in Pending /\ Entries(Tail(queue)) \subseteq Pending
  BY <1>1, EntriesTail DEF Pending
<1>3. Tail(queue) # <<>> => Len(queue) # 1
  <2>1. Len(Tail(queue)) = Len(queue) - 1
    BY <1>1, HeadTailProperties DEF Writes
  <2>2. Len(Tail(queue)) = 0 => Tail(queue) = <<>>
    BY <1>2, EmptySeq DEF Writes
  <2> QED BY <2>1, <2>2
<1> QED BY <1>1, <1>2, <1>3 DEF TrustInv, WritesOwn

LEMMA WriteTrust ==
  ASSUME TrustInv, ConfigsAssumption, Write
  PROVE  TrustInv'
<1>1. /\ queue # <<>> /\ files' = [files EXCEPT ![queue[1][1]] = queue[1][2]]
      /\ queue' = Tail(queue)
      /\ trusted' = IF Len(queue) = 1 /\ dumping \in From(1) THEN trusted \cup {dumping} ELSE trusted
      /\ UNCHANGED <<mem, cfg, todo, status, run, deaths, dumping, chain, used>>
  BY DEF Write, WriteFile
<1>2. /\ queue[1] \in File \X SUBSET Origin /\ Tail(queue) \in Writes
      /\ Entries(Tail(queue)) \subseteq Pending /\ status = "running"
      /\ Tail(queue) # <<>> => trusted' = trusted
  BY <1>1, PendingFacts
<1>3. trusted \subseteq trusted' /\ trusted' \subseteq From(1) /\ trusted' \subseteq trusted \cup {dumping}
  BY <1>1 DEF TrustInv, TypeOK
<1>4. TypeOK'
  BY <1>1, <1>2, <1>3 DEF TrustInv, TypeOK, Writes
<1>5. WritesOwn'
  BY <1>1, <1>2 DEF TrustInv, WritesOwn, Pending
<1>6. MergeUntrusted'
  <2>1. dumping = "unmerged" => trusted' = trusted
    BY <1>1, Stages
  <2> QED BY <1>1, <2>1 DEF TrustInv, MergeUntrusted, Merging
<1>7. InOrder' /\ Ahead' /\ StartTrusted'
  BY <1>1, <1>2, <1>3 DEF TrustInv, InOrder, Ahead, StartTrusted, StartsAt
<1>8. /\ chain.driver # "none"
      /\ chain.driver = "V3" => dumping \notin {"split", "merge"}
  <2>1. chain.driver = cfg.driver /\ cfg \in Configs
    BY <1>2 DEF TrustInv, StartTrusted, TypeOK
  <2>2. chain.driver # "none"
    BY <2>1, StartIndex
  <2> QED BY <1>1, <2>2 DEF TrustInv, WritesOwn
<1> QED BY <1>1, <1>2, <1>3, <1>4, <1>5, <1>6, <1>7, <1>8 DEF TrustInv

LEMMA KillTrust ==
  ASSUME TrustInv, Kill
  PROVE  TrustInv'
<1>1. /\ files' = IF queue = <<>> THEN files ELSE [files EXCEPT ![queue[1][1]] = Torn]
      /\ queue' = <<>> /\ mem' = NoObjects /\ deaths' = deaths + 1 /\ status' = "killed" /\ todo' = <<>>
      /\ UNCHANGED <<cfg, run, dumping, trusted, chain, used>>
  BY DEF Kill, Die
<1>2. Torn \subseteq Origin /\ NoObjects \in Objects
  BY Types
<1>3. files' \in [File -> SUBSET Origin]
  BY <1>1, <1>2 DEF TrustInv, TypeOK
<1>4. TypeOK'
  BY <1>1, <1>2, <1>3 DEF TrustInv, TypeOK
<1> QED BY <1>1, <1>4 DEF TrustInv, WritesOwn, MergeUntrusted, Merging

LEMMA EndTrust ==
  ASSUME TrustInv, End
  PROVE  TrustInv'
<1>1. NoObjects \in Objects
  BY Types
<1>2. TypeOK'
  BY <1>1 DEF TrustInv, TypeOK, End
<1> QED BY <1>2 DEF TrustInv, End, WritesOwn, MergeUntrusted, Merging

LEMMA StutterTrust ==
  ASSUME TrustInv, UNCHANGED vars
  PROVE  TrustInv'
BY DEF vars, TrustInv, TypeOK, WritesOwn, MergeUntrusted, Merging, InOrder, Ahead, StartTrusted,
       StartsAt, Pending

LEMMA ScriptTrust ==
  ASSUME TrustInv, ConfigsAssumption, 
         \/ PREPARE \/ SPLIT_MODEL \/ CALIBRATION \/ QUANTIZATION \/ MERGE_MODEL
         \/ EVALUATION \/ COMPILATION \/ SAMPLE
         \/ V2_PREPARE \/ V2_SPLIT_MODEL \/ V2_CALIBRATION \/ V2_QUANTIZATION \/ V2_MERGE_MODEL
         \/ V2_EVALUATION \/ V2_COMPILATION \/ V2_SAMPLE
  PROVE  TrustInv'
<1> USE DEF Main, V2, Now, Section
<1>1. CASE PREPARE \/ V2_PREPARE
  BY <1>1, PrepareTrust DEF PREPARE, V2_PREPARE
<1>2. CASE SPLIT_MODEL \/ V2_SPLIT_MODEL
  BY <1>2, SplitTrust DEF SPLIT_MODEL, V2_SPLIT_MODEL
<1>3. CASE CALIBRATION \/ V2_CALIBRATION
  BY <1>3, CalibrateTrust, Failing DEF CALIBRATION, V2_CALIBRATION
<1>4. CASE QUANTIZATION \/ V2_QUANTIZATION
  BY <1>4, QuantizeTrust DEF QUANTIZATION, V2_QUANTIZATION
<1>5. CASE MERGE_MODEL \/ V2_MERGE_MODEL
  BY <1>5, MergeTrust DEF MERGE_MODEL, V2_MERGE_MODEL
<1>6. CASE EVALUATION \/ V2_EVALUATION
  BY <1>6, EvaluateTrust DEF EVALUATION, V2_EVALUATION
<1>7. CASE COMPILATION \/ V2_COMPILATION
  BY <1>7, CompileTrust DEF COMPILATION, V2_COMPILATION
<1>8. CASE SAMPLE \/ V2_SAMPLE
  BY <1>8, SampleTrust DEF SAMPLE, V2_SAMPLE
<1> QED BY <1>1, <1>2, <1>3, <1>4, <1>5, <1>6, <1>7, <1>8

LEMMA NextTrust ==
  ASSUME TrustInv, ConfigsAssumption, [Next]_vars
  PROVE  TrustInv'
<1>1. CASE prepare \/ calibrate \/ quantize \/ merge \/ evaluate \/ mrt_compile
  BY <1>1, prepareTrust, calibrateTrust, quantizeTrust, mergeTrust, evaluateTrust, compileTrust
<1>2. CASE Start \/ Write \/ Kill \/ End
  BY <1>2, StartTrust, WriteTrust, KillTrust, EndTrust
<1>3. CASE Rest \/ UNCHANGED vars
  BY <1>3, StutterTrust DEF Rest
<1> QED BY <1>1, <1>2, <1>3, ScriptTrust DEF Next

LEMMA InitTrust ==
  ASSUME Init
  PROVE  TrustInv
<1>1. files \in [File -> SUBSET Origin]
  <2>1. Prepare(0) \subseteq Origin /\ Missing \subseteq Origin
    BY Types DEF Missing
  <2> QED BY <2>1 DEF Init, FilesInit
<1>2. NoObjects \in Objects
  BY Types
<1>3. TypeOK
  BY <1>1, <1>2 DEF Init, FilesInit, TypeOK
<1> QED BY <1>3 DEF Init, FilesInit, TrustInv, WritesOwn, MergeUntrusted, Merging

(***************************************************************************)
(* The invariant of the checkpoints: what an invocation may still load     *)
(* stays trusted, a stage writes the files of its own checkpoint and has   *)
(* outdated that checkpoint and the later ones before it writes.           *)
(***************************************************************************)
THEOREM CheckpointsInvariant == Spec => []TrustInv
<1>1. Init => TrustInv
  BY InitTrust
<1>2. TrustInv /\ [Next]_vars => TrustInv'
  BY NextTrust, ConfigsAssumption
<1> QED BY <1>1, <1>2, PTL DEF Spec

(***************************************************************************)
(* The checkpoint an invocation starts from                                *)
(***************************************************************************)
LEMMA PrefixOfStage ==
  /\ \A f \in StageFiles("prepare") : f[1] = "prepare"
  /\ \A f \in StageFiles("split") : f[1] \in {"top", "base"}
  /\ \A f \in StageFiles("calibrate") : f[1] = "calibrate"
  /\ \A f \in StageFiles("quantize") : f[1] = "quantize"
  /\ \A f \in StageFiles("merge") : f[1] = "all"
BY DEF StageFiles, SymbolAndParams, WithExt

LEMMA StageFileNames ==
  ASSUME NEW k \in 1 .. 5
  PROVE  StageFiles(Stage[k]) \subseteq File
<1>1. k \in {1, 2, 3, 4, 5}
  OBVIOUS
<1> QED BY <1>1, Stages, FileNames DEF StageFiles, SymbolAndParams, WithExt, Prefix

\* No trusted checkpoint has files of the stage being written, or of an earlier one.
LEMMA OthersFiles ==
  ASSUME NEW k \in 1 .. 5, NEW d \in Steps \cup {"none", "unmerged", "sample"},
         Stage[k] \notin Outdates(d)
  PROVE  \A f \in StageFiles(Stage[k]) : f[1] \notin PrefixesOf(d)
<1>1. k \in {1, 2, 3, 4, 5}
  OBVIOUS
<1>2. \A f \in StageFiles(Stage[k]) : f[1] # "cvm"
  BY <1>1, PrefixOfStage, Stages
<1>3. CASE d = "prepare"
  BY <1>1, <1>3, Stages, OutdatesTable
<1>4. CASE d = "split"
  <2>1. k = 1
    BY <1>1, <1>4, Stages, OutdatesTable
  <2> QED BY <1>4, <2>1, Stages, Prefixes, PrefixOfStage
<1>5. CASE d = "calibrate"
  <2>1. k \in {1, 2}
    BY <1>1, <1>5, Stages, OutdatesTable
  <2> QED BY <1>5, <2>1, Stages, Prefixes, PrefixOfStage
<1>6. CASE d \in {"quantize", "unmerged"}
  <2>1. k \in {1, 2, 3}
    BY <1>1, <1>6, Stages, OutdatesTable
  <2> QED BY <1>6, <2>1, Stages, Prefixes, PrefixOfStage
<1>7. CASE d = "merge"
  <2>1. k \in {1, 2, 3, 4}
    BY <1>1, <1>7, Stages, OutdatesTable
  <2> QED BY <1>7, <2>1, Stages, Prefixes, PrefixOfStage
<1>8. CASE d \in {"evaluate", "compile", "none", "sample"}
  BY <1>2, <1>8 DEF PrefixesOf
<1> QED BY <1>3, <1>4, <1>5, <1>6, <1>7, <1>8, StepNames

\* Files change only when a pending file is written or its writer dies.
LEMMA FilesChange ==
  ASSUME TrustInv, [Next]_vars, files' # files
  PROVE  queue # <<>> /\ \E e : files' = [files EXCEPT ![queue[1][1]] = e]
<1> SUFFICES ASSUME Next PROVE queue # <<>> /\ \E e : files' = [files EXCEPT ![queue[1][1]] = e]
  BY DEF vars
<1> USE DEF Finish, Fail, Anew, Skip, Checkpoint, CheckpointWithTop
<1>1. CASE Write \/ Kill
  BY <1>1 DEF Write, WriteFile, Kill, Die
<1>2. CASE Start \/ End \/ Rest
  BY <1>2 DEF Start, End, Rest, vars
<1>3. CASE PREPARE \/ V2_PREPARE
  BY <1>3 DEF PREPARE, V2_PREPARE, PrepareSection
<1>4. CASE SPLIT_MODEL \/ V2_SPLIT_MODEL
  BY <1>4 DEF SPLIT_MODEL, V2_SPLIT_MODEL, SplitSection
<1>5. CASE CALIBRATION \/ V2_CALIBRATION
  BY <1>5 DEF CALIBRATION, V2_CALIBRATION, CalibrateSection
<1>6. CASE QUANTIZATION \/ V2_QUANTIZATION
  BY <1>6 DEF QUANTIZATION, V2_QUANTIZATION, QuantizeSection
<1>7. CASE MERGE_MODEL \/ V2_MERGE_MODEL
  BY <1>7 DEF MERGE_MODEL, V2_MERGE_MODEL, MergeSection
<1>8. CASE EVALUATION \/ V2_EVALUATION \/ COMPILATION \/ V2_COMPILATION \/ SAMPLE \/ V2_SAMPLE
  BY <1>8 DEF EVALUATION, V2_EVALUATION, EvaluateSection, COMPILATION, V2_COMPILATION,
              CompileSection, SAMPLE, V2_SAMPLE, SampleSection
<1>9. CASE prepare \/ calibrate \/ quantize \/ merge \/ evaluate \/ mrt_compile
  BY <1>9 DEF prepare, calibrate, quantize, merge, evaluate, mrt_compile
<1> QED BY <1>1, <1>2, <1>3, <1>4, <1>5, <1>6, <1>7, <1>8, <1>9 DEF Next

LEMMA Untouched ==
  ASSUME TrustInv, ConfigsAssumption, [Next]_vars, status = "running", StartsAt(cfg) > 0,
         NEW f \in StageFiles(Stage[StartsAt(cfg)])
  PROVE  files'[f] = files[f]
<1>1. StartsAt(cfg) \in 1 .. 5 /\ Stage[StartsAt(cfg)] \in trusted
  BY StartIndex DEF TrustInv, TypeOK, StartTrusted
<1>2. CASE files' # files
  <2>1. queue # <<>> /\ \E e : files' = [files EXCEPT ![queue[1][1]] = e]
    BY <1>2, FilesChange
  <2>2. queue[1][1][1] \in PrefixesOf(dumping) /\ trusted \cap Outdates(dumping) = {}
    BY <2>1, PendingFacts
  <2>3. f[1] \notin PrefixesOf(dumping)
    BY <1>1, <2>2, OthersFiles DEF TrustInv, TypeOK
  <2>4. f # queue[1][1]
    BY <2>2, <2>3
  <2> HIDE DEF TrustInv
  <2>5. files \in [File -> SUBSET Origin]
    BY DEF TrustInv, TypeOK
  <2>6. PICK e : files' = [files EXCEPT ![queue[1][1]] = e]
    BY <2>1
  <2>7. f \in File
    BY <1>1, StageFileNames
  <2> QED BY <2>4, <2>5, <2>6, <2>7
<1> QED BY <1>2

(***************************************************************************)
(* A stage never changes the files of the checkpoint the invocation        *)
(* started from, whatever was killed or restarted before: the sections of  *)
(* main2.py and V2/main.py and the stages of V3 write under names of their *)
(* own, and a checkpoint that an earlier stage outdated is not started from.*)
(***************************************************************************)
THEOREM CheckpointKept == Spec => StartKept
<1>1. TrustInv /\ [Next]_vars =>
        [LET at == StartsAt(cfg) IN
           status = "running" /\ at > 0 => \A f \in StageFiles(Stage[at]) : files'[f] = files[f]]_vars
  <2> SUFFICES ASSUME TrustInv, [Next]_vars, status = "running", StartsAt(cfg) > 0
               PROVE  \A f \in StageFiles(Stage[StartsAt(cfg)]) : files'[f] = files[f]
    OBVIOUS
  <2> QED BY Untouched, ConfigsAssumption
<1> QED BY <1>1, CheckpointsInvariant, PTL DEF Spec, StartKept

(***************************************************************************)
(* Sets of origins                                                         *)
(***************************************************************************)
\* Every origin of S has the preparation and the split of one of T.
Inherits(S, T) == \A y \in S : \E x \in T : y.prep = x.prep /\ y.split = x.split

LEMMA OneSplitFrom ==
  ASSUME NEW S, NEW T, NEW U, OneSplit(T \cup U), Inherits(S, T)
  PROVE  OneSplit(S \cup U)
BY DEF OneSplit, Inherits

LEMMA Fewer ==
  ASSUME NEW S, NEW T, S \subseteq T
  PROVE  /\ OneSplit(T) => OneSplit(S)
         /\ Same(T) => Same(S)
         /\ Unmerged(T) => Unmerged(S)
         /\ Raw(T) => Raw(S)
         /\ Combined(T) => Combined(S)
         /\ HasKeys(S) => HasKeys(T)
<1>1. OneSplit(T) => OneSplit(S)
  BY DEF OneSplit
<1>2. Same(T) => Same(S)
  BY <1>1 DEF Same
<1>3. Unmerged(T) => Unmerged(S)
  BY DEF Unmerged
<1>4. Raw(T) => Raw(S)
  BY <1>3 DEF Raw
<1>5. Combined(T) => Combined(S)
  BY DEF Combined, Agree
<1>6. HasKeys(S) => HasKeys(T)
  BY DEF HasKeys
<1> QED BY <1>1, <1>2, <1>3, <1>4, <1>5, <1>6

LEMMA FewerFit ==
  ASSUME NEW S, NEW T, NEW U, NEW V, S \subseteq U, T \subseteq V, Fits(U, V)
  PROVE  Fits(S, T)
<1>1. S \cup T \subseteq U \cup V
  OBVIOUS
<1> QED BY <1>1, Fewer DEF Fits

LEMMA NothingFits ==
  /\ OneSplit({}) /\ Same({}) /\ Unmerged({}) /\ Raw({}) /\ Combined({}) /\ Fits({}, {})
BY DEF OneSplit, Same, Unmerged, Raw, Combined, Agree, Fits

\* What fits no top model in particular.
LEMMA FitsNone ==
  ASSUME NEW S, Same(S), Unmerged(S)
  PROVE  Fits(S, {})
BY NothingFits DEF Fits, Same

LEMMA FitsCombined ==
  ASSUME NEW S, Same(S), Unmerged(S)
  PROVE  Combined(S)
BY DEF Same, OneSplit, Unmerged, Combined, Agree

\* A prepared model.
LEMMA Prepared ==
  ASSUME NEW r \in Nat
  PROVE  OneSplit(Prepare(r)) /\ Raw(Prepare(r))
BY DEF Prepare, OneSplit, Raw, Unmerged

\* The halves of a split model.
LEMMA Halved ==
  ASSUME NEW m \in SUBSET Origin, NEW r \in Nat, OneSplit(m), Raw(m)
  PROVE  LET s == split_model(m, r)
         IN  OneSplit(s.base \cup s.top) /\ Raw(s.base) /\ Raw(s.top)
<1> DEFINE base == {[o EXCEPT !.part = "base", !.split = r] : o \in m}
           top == {[o EXCEPT !.part = "top", !.split = r] : o \in m}
<1>1. split_model(m, r).base = base /\ split_model(m, r).top = top
  BY DEF split_model
<1>3. \A x \in base \cup top : \E o \in m :
        /\ x.part \in {"base", "top"} /\ x.split = r /\ x.prep = o.prep /\ x.names = o.names
        /\ x.calib = o.calib /\ x.quant = o.quant
  <2> SUFFICES ASSUME NEW x \in base \cup top
               PROVE  \E o \in m :
                        /\ x.part \in {"base", "top"} /\ x.split = r /\ x.prep = o.prep
                        /\ x.names = o.names /\ x.calib = o.calib /\ x.quant = o.quant
    OBVIOUS
  <2>1. PICK o \in m : \/ x = [o EXCEPT !.part = "base", !.split = r]
                       \/ x = [o EXCEPT !.part = "top", !.split = r]
    OBVIOUS
  <2>2. o \in Origin
    OBVIOUS
  <2> HIDE DEF base, top
  <2>3. /\ x.part \in {"base", "top"} /\ x.split = r /\ x.prep = o.prep
        /\ x.names = o.names /\ x.calib = o.calib /\ x.quant = o.quant
    BY <2>1, <2>2 DEF Origin
  <2> QED BY <2>3
<1> HIDE DEF base, top
<1>4. OneSplit(base \cup top)
  BY <1>3 DEF OneSplit
<1>5. \A x \in base \cup top : x.part # "merged" /\ x.names = "old" /\ x.calib = 0 /\ x.quant = 0
  BY <1>3 DEF Raw
<1> QED BY <1>1, <1>4, <1>5 DEF Raw, Unmerged

\* A model calibrated anew.
LEMMA CalibratedFits ==
  ASSUME NEW m \in SUBSET Origin, NEW r \in Nat, OneSplit(m), Raw(m)
  PROVE  LET c == Calibrated(NewMrt(m), r)
         IN  /\ Same(c.model \cup c.ext) /\ Unmerged(c.model \cup c.ext)
             /\ Inherits(c.model \cup c.ext, m) /\ c.old = "old" /\ c \in Mrt
<1> DEFINE c == Calibrated(NewMrt(m), r)
           new == {[o EXCEPT !.calib = r] : o \in m}
<1>1. c.model = new /\ c.ext = new /\ c.old = NewMrt(m).old
  BY DEF Calibrated, NewMrt
<1>2. NewMrt(m).old = "old"
  BY DEF NewMrt, Raw
<1>3. c \in Mrt
  BY Types
<1>5. \A x \in new : \E o \in m :
        /\ x.part = o.part /\ x.split = o.split /\ x.prep = o.prep
        /\ x.calib = r /\ x.quant = o.quant
  <2> SUFFICES ASSUME NEW x \in new
               PROVE  \E o \in m : /\ x.part = o.part /\ x.split = o.split /\ x.prep = o.prep
                                   /\ x.calib = r /\ x.quant = o.quant
    OBVIOUS
  <2>1. PICK o \in m : x = [o EXCEPT !.calib = r]
    OBVIOUS
  <2>2. o \in Origin
    OBVIOUS
  <2> QED BY <2>1, <2>2 DEF Origin
<1> HIDE DEF new, c
<1>6. Inherits(new, m)
  BY <1>5 DEF Inherits
<1>7. Same(new)
  BY <1>5 DEF Same, OneSplit, Raw
<1>8. Unmerged(new)
  BY <1>5 DEF Unmerged, Raw
<1>9. c.model \cup c.ext = new
  BY <1>1
<1> QED BY <1>1, <1>2, <1>3, <1>6, <1>7, <1>8, <1>9 DEF c

LEMMA QuantizedFits ==
  ASSUME NEW mrt \in Mrt, NEW r \in Nat, Same(mrt.model \cup mrt.ext), Unmerged(mrt.model \cup mrt.ext)
  PROVE  LET q == QuantizedMrt(mrt, r)
         IN  /\ Same(q.model \cup q.ext) /\ Unmerged(q.model \cup q.ext)
             /\ Inherits(q.model \cup q.ext, mrt.model \cup mrt.ext) /\ q.old = mrt.old /\ q \in Mrt
<1> DEFINE q == QuantizedMrt(mrt, r)
           model == {[o EXCEPT !.quant = r, !.names = "new"] : o \in mrt.model}
           ext == {[o EXCEPT !.quant = r] : o \in mrt.ext}
           all == mrt.model \cup mrt.ext
<1>1. q.model = model /\ q.ext = ext /\ q.old = mrt.old
  BY DEF QuantizedMrt, Mrt
<1>2. q \in Mrt
  BY Types
<1>4. mrt.model \subseteq Origin /\ mrt.ext \subseteq Origin
  BY DEF Mrt
<1>5. \A x \in model \cup ext : \E o \in all :
        x.part = o.part /\ x.split = o.split /\ x.prep = o.prep /\ x.calib = o.calib /\ x.quant = r
  <2> SUFFICES ASSUME NEW x \in model \cup ext
               PROVE  \E o \in all : /\ x.part = o.part /\ x.split = o.split /\ x.prep = o.prep
                                     /\ x.calib = o.calib /\ x.quant = r
    OBVIOUS
  <2>1. PICK o \in all : \/ x = [o EXCEPT !.quant = r, !.names = "new"]
                         \/ x = [o EXCEPT !.quant = r]
    OBVIOUS
  <2>2. o \in Origin
    BY <1>4
  <2> HIDE DEF all, model, ext
  <2>3. /\ x.part = o.part /\ x.split = o.split /\ x.prep = o.prep
        /\ x.calib = o.calib /\ x.quant = r
    BY <2>1, <2>2 DEF Origin
  <2> QED BY <2>3
<1> DEFINE new == model \cup ext
<1> HIDE DEF model, ext, all, q
<1>6. Inherits(new, all)
  BY <1>5 DEF Inherits
<1>7. Same(all) => Same(new)
  BY <1>5 DEF Same, OneSplit
<1>8. Unmerged(all) => Unmerged(new)
  BY <1>5 DEF Unmerged
<1> QED BY <1>1, <1>2, <1>6, <1>7, <1>8 DEF q, all

\* The names an object has learnt are saved with its scales.
SavedExt(mrt) == {[o EXCEPT !.names = mrt.old] : o \in mrt.ext}
LEMMA SavedFits ==
  ASSUME NEW mrt \in Mrt, Same(mrt.model \cup mrt.ext), Unmerged(mrt.model \cup mrt.ext)
  PROVE  /\ Same(mrt.model \cup SavedExt(mrt)) /\ Unmerged(mrt.model \cup SavedExt(mrt))
         /\ Inherits(mrt.model \cup SavedExt(mrt), mrt.model \cup mrt.ext)
         /\ \A o \in SavedExt(mrt) : o.names = mrt.old
<1> DEFINE new == mrt.model \cup SavedExt(mrt)
           all == mrt.model \cup mrt.ext
<1>2. mrt.model \subseteq Origin /\ mrt.ext \subseteq Origin
  BY DEF Mrt
<1>0. \A x \in SavedExt(mrt) : \E o \in mrt.ext :
        /\ x.part = o.part /\ x.split = o.split /\ x.prep = o.prep /\ x.calib = o.calib
        /\ x.quant = o.quant /\ x.names = mrt.old
  <2> SUFFICES ASSUME NEW x \in SavedExt(mrt)
               PROVE  \E o \in mrt.ext :
                        /\ x.part = o.part /\ x.split = o.split /\ x.prep = o.prep
                        /\ x.calib = o.calib /\ x.quant = o.quant /\ x.names = mrt.old
    OBVIOUS
  <2>1. PICK o \in mrt.ext : x = [o EXCEPT !.names = mrt.old]
    BY DEF SavedExt
  <2>2. o \in Origin
    BY <1>2
  <2> QED BY <2>1, <2>2 DEF Origin
<1>3. \A x \in new : \E o \in all :
        x.part = o.part /\ x.split = o.split /\ x.prep = o.prep /\ x.calib = o.calib /\ x.quant = o.quant
  BY <1>0
<1>4. \A o \in SavedExt(mrt) : o.names = mrt.old
  BY <1>0
<1> HIDE DEF new, all
<1>5. Inherits(new, all)
  BY <1>3 DEF Inherits
<1>6. Same(all) => Same(new)
  BY <1>3 DEF Same, OneSplit
<1>7. Unmerged(all) => Unmerged(new)
  BY <1>3 DEF Unmerged
<1> QED BY <1>4, <1>5, <1>6, <1>7 DEF new, all

\* A base model merged with the top model it fits.
LEMMA MergedFits ==
  ASSUME NEW mrt \in Mrt, NEW top \in SUBSET Origin, Fits(mrt.model \cup mrt.ext, top), mrt.old = "old"
  PROVE  Combined(merge_model(mrt, top) \cup mrt.ext)
<1> DEFINE q == merge_model(mrt, top)
           all == mrt.model \cup mrt.ext
<1>1. \A o \in Origin :
        LET x == [o EXCEPT !.part = "merged", !.names = mrt.old]
        IN  /\ x.split = o.split /\ x.prep = o.prep /\ x.calib = o.calib
            /\ x.quant = o.quant /\ x.names = "old"
  BY DEF Origin
<1>2. mrt.model \subseteq Origin /\ mrt.ext \subseteq Origin
  BY DEF Mrt
<1>3. \A x \in q : \E o \in mrt.model \cup top :
        /\ x.split = o.split /\ x.prep = o.prep /\ x.calib = o.calib /\ x.quant = o.quant
        /\ x.names = "old"
  BY <1>1, <1>2 DEF merge_model
<1> HIDE DEF q
<1>4. \A x \in q \cup mrt.ext : \E o \in all \cup top :
        x.split = o.split /\ x.prep = o.prep /\ x.calib = o.calib /\ x.quant = o.quant
  BY <1>3
<1>5. \A x, y \in all \cup top :
        /\ x.prep = y.prep /\ x.split = y.split
        /\ x.calib = 0 \/ y.calib = 0 \/ x.calib = y.calib
        /\ x.quant = 0 \/ y.quant = 0 \/ x.quant = y.quant
  <2>1. OneSplit(all \cup top) /\ Same(all) /\ Raw(top)
    BY DEF Fits
  <2> HIDE DEF all
  <2>2. \A x, y \in all : x.calib = y.calib /\ x.quant = y.quant
    BY <2>1 DEF Same
  <2>3. \A x \in top : x.calib = 0 /\ x.quant = 0
    BY <2>1 DEF Raw
  <2> QED BY <2>1, <2>2, <2>3 DEF OneSplit
<1>6. Agree(q \cup mrt.ext)
  BY <1>4, <1>5 DEF Agree
<1>7. \A o \in q \cup mrt.ext : o.part = "merged" => o.names = "old"
  BY <1>3 DEF Fits, Unmerged
<1> QED BY <1>6, <1>7 DEF Combined, q

(***************************************************************************)
(* What the files will hold                                                *)
(***************************************************************************)
\* The files of a prefix hold, and will hold, nothing more than they did.
Told == {"prepare", "calibrate", "quantize"}
FilesOf(p) == WithExt(p) \cup (IF p \in Told THEN {<<p, "conf">>} ELSE {})
Shrinks(p) == \A f \in FilesOf(p) : Content(f)' \subseteq Content(f)

LEMMA ShrinkingSets ==
  ASSUME NEW p, Shrinks(p)
  PROVE  /\ ContentOf(SymbolAndParams(p))' \subseteq ContentOf(SymbolAndParams(p))
         /\ ContentOf(WithExt(p))' \subseteq ContentOf(WithExt(p))
         /\ Content(<<p, "ext">>)' \subseteq Content(<<p, "ext">>)
         /\ p \in Told => (Split(p)' => Split(p))
         /\ Old(p) => Old(p)'
<1>1. SymbolAndParams(p) \subseteq FilesOf(p) /\ WithExt(p) \subseteq FilesOf(p)
      /\ (p \in Told => <<p, "conf">> \in FilesOf(p)) /\ <<p, "ext">> \in FilesOf(p)
  BY DEF FilesOf, WithExt
<1>2. \A fs : fs \subseteq FilesOf(p) => ContentOf(fs)' \subseteq ContentOf(fs)
  BY DEF Shrinks, ContentOf
<1>3. (p \in Told => Content(<<p, "conf">>)' \subseteq Content(<<p, "conf">>))
      /\ Content(<<p, "ext">>)' \subseteq Content(<<p, "ext">>)
  BY <1>1 DEF Shrinks
<1>4. p \in Told => (Split(p)' => Split(p))
  BY <1>3, Fewer DEF Split, HasKeys
<1>5. Old(p) => Old(p)'
  BY <1>3 DEF Old
<1> QED BY <1>1, <1>2, <1>3, <1>4, <1>5

LEMMA ShrinkingUnion ==
  ASSUME NEW p, NEW q, Shrinks(p), Shrinks(q)
  PROVE  ContentOf(SymbolAndParams(p) \cup SymbolAndParams(q))'
           \subseteq ContentOf(SymbolAndParams(p) \cup SymbolAndParams(q))
<1>1. \A f \in SymbolAndParams(p) \cup SymbolAndParams(q) : Content(f)' \subseteq Content(f)
  BY DEF Shrinks, FilesOf, WithExt
<1> QED BY <1>1 DEF ContentOf

\* A checkpoint whose files shrink at most fits as before.
LEMMA PrepareKept ==
  ASSUME PrepareFits, chain'.driver = chain.driver,
         ("prepare" \in Live)' =>
            /\ "prepare" \in Live /\ Shrinks("prepare")
            /\ chain.driver = "V3" => Shrinks("top") /\ Shrinks("base")
  PROVE  PrepareFits'
<1> SUFFICES ASSUME ("prepare" \in Live)' PROVE PrepareFits'
  BY DEF PrepareFits
<1>1. /\ Shrinks("prepare") /\ chain.driver = "V3" => Shrinks("top") /\ Shrinks("base")
      /\ OneSplit(ContentOf(SymbolAndParams("prepare"))) /\ Raw(ContentOf(SymbolAndParams("prepare")))
      /\ chain.driver = "V3" /\ Split("prepare") =>
           /\ OneSplit(ContentOf(Top \cup SymbolAndParams("base")))
           /\ Raw(ContentOf(Top \cup SymbolAndParams("base")))
  BY DEF PrepareFits
<1>2. OneSplit(ContentOf(SymbolAndParams("prepare"))') /\ Raw(ContentOf(SymbolAndParams("prepare"))')
  BY <1>1, ShrinkingSets, Fewer
<1>3. ASSUME chain.driver = "V3", Split("prepare")'
      PROVE  /\ OneSplit(ContentOf(Top \cup SymbolAndParams("base"))')
             /\ Raw(ContentOf(Top \cup SymbolAndParams("base"))')
  <2>1. Split("prepare")
    BY <1>1, <1>3, ShrinkingSets DEF Told
  <2>2. ContentOf(Top \cup SymbolAndParams("base"))' \subseteq ContentOf(Top \cup SymbolAndParams("base"))
    BY <1>1, <1>3, ShrinkingUnion DEF Top
  <2> QED BY <1>1, <1>3, <2>1, <2>2, Fewer
<1> QED BY <1>2, <1>3 DEF PrepareFits, OneSplit, Raw, Unmerged, Top

LEMMA SplitKept ==
  ASSUME SplitFits,
         ("split" \in Live)' => "split" \in Live /\ Shrinks("top") /\ Shrinks("base")
  PROVE  SplitFits'
<1> SUFFICES ASSUME ("split" \in Live)' PROVE SplitFits'
  BY DEF SplitFits
<1>1. /\ OneSplit(ContentOf(Top \cup SymbolAndParams("base")))
      /\ Raw(ContentOf(Top \cup SymbolAndParams("base")))
  BY DEF SplitFits
<1>2. ContentOf(Top \cup SymbolAndParams("base"))' \subseteq ContentOf(Top \cup SymbolAndParams("base"))
  BY ShrinkingUnion DEF Top
<1>3. OneSplit(ContentOf(Top \cup SymbolAndParams("base"))') /\ Raw(ContentOf(Top \cup SymbolAndParams("base"))')
  BY <1>1, <1>2, Fewer
<1> QED BY <1>3 DEF SplitFits, OneSplit, Raw, Unmerged, Top

LEMMA FitsTopKept ==
  ASSUME NEW s \in Told, FitsTop(s), chain'.driver = chain.driver, Shrinks(s),
         chain.driver = "V3" => (Split(s)' => Shrinks("top")),
         chain.driver # "V3" => (("split" \in Live)' => "split" \in Live /\ Shrinks("top"))
  PROVE  FitsTop(s)'
<1>1. ContentOf(WithExt(s))' \subseteq ContentOf(WithExt(s)) /\ (Split(s)' => Split(s)) /\ (Old(s) => Old(s)')
  BY ShrinkingSets DEF Told
<1>2. /\ Fits(ContentOf(WithExt(s)), {}) /\ Old(s)
      /\ (IF chain.driver = "V3" THEN Split(s) ELSE "split" \in Live) =>
           Fits(ContentOf(WithExt(s)), ContentOf(Top))
  BY DEF FitsTop
<1>3. Fits(ContentOf(WithExt(s))', {})
  BY <1>1, <1>2, FewerFit
<1>4. ASSUME IF chain.driver = "V3" THEN Split(s)' ELSE ("split" \in Live)'
      PROVE  Fits(ContentOf(WithExt(s))', ContentOf(Top)')
  <2>1. ContentOf(Top)' \subseteq ContentOf(Top)
    BY <1>4, ShrinkingSets DEF Top
  <2> QED BY <1>1, <1>2, <1>4, <2>1, FewerFit
<1> QED BY <1>1, <1>2, <1>3, <1>4 DEF FitsTop, Fits, Same, OneSplit, Raw, Unmerged

\* The top model the later checkpoints are compared with.
TopShrinks ==
  /\ chain.driver = "V3" => Shrinks("top")
  /\ chain.driver # "V3" => (("split" \in Live)' => "split" \in Live /\ Shrinks("top"))

LEMMA LaterKept ==
  ASSUME chain'.driver = chain.driver, TopShrinks
  PROVE  /\ CalibrateFits /\ (("calibrate" \in Live)' => "calibrate" \in Live /\ Shrinks("calibrate"))
              => CalibrateFits'
         /\ QuantizeFits /\ (("quantize" \in Live)' => "quantize" \in Live /\ Shrinks("quantize"))
              => QuantizeFits'
<1>1. ASSUME NEW s \in Told, Shrinks(s), FitsTop(s)
      PROVE  FitsTop(s)'
  BY <1>1, FitsTopKept DEF TopShrinks
<1>2. ASSUME CalibrateFits, ("calibrate" \in Live)' => "calibrate" \in Live /\ Shrinks("calibrate")
      PROVE  CalibrateFits'
  BY <1>1, <1>2 DEF CalibrateFits, Told
<1>3. ASSUME QuantizeFits, ("quantize" \in Live)' => "quantize" \in Live /\ Shrinks("quantize")
      PROVE  QuantizeFits'
  BY <1>1, <1>3 DEF QuantizeFits, Told
<1> QED BY <1>2, <1>3

LEMMA MergeKept ==
  ASSUME MergeFits, chain'.driver = chain.driver,
         ("merge" \in Live)' => "merge" \in Live /\ Shrinks("all"),
         (chain.driver = "V3" /\ "quantize" \in Live)' =>
            "quantize" \in Live /\ Shrinks("all") /\ Shrinks("quantize")
  PROVE  MergeFits'
<1> SUFFICES ASSUME ("merge" \in Live \/ (chain.driver = "V3" /\ "quantize" \in Live /\ Split("quantize")))'
             PROVE  Combined(ContentOf(WithExt("all")))'
  BY DEF MergeFits
<1>1. Combined(ContentOf(WithExt("all"))) /\ Shrinks("all")
  <2>1. CASE ("merge" \in Live)'
    BY <2>1 DEF MergeFits
  <2>2. CASE (chain.driver = "V3" /\ "quantize" \in Live /\ Split("quantize"))'
    <3>1. Split("quantize") /\ chain.driver = "V3"
      BY <2>2, ShrinkingSets DEF Told
    <3> QED BY <2>2, <3>1 DEF MergeFits
  <2> QED BY <2>1, <2>2
<1>2. Combined(ContentOf(WithExt("all"))')
  BY <1>1, ShrinkingSets, Fewer
<1> QED BY <1>2 DEF Combined, Agree

\* A step that changes no checkpoint, or only completes one.
LEMMA AllKept ==
  ASSUME FilesFit, chain'.driver = chain.driver, \A p \in Prefix \ {"cvm"} : Shrinks(p),
         \A s \in From(1) : (s \in Live)' => s \in Live
  PROVE  FilesFit'
<1>1. /\ Shrinks("prepare") /\ Shrinks("top") /\ Shrinks("base") /\ Shrinks("calibrate")
      /\ Shrinks("quantize") /\ Shrinks("all")
  BY DEF Prefix
<1>2. /\ ("prepare" \in Live)' => "prepare" \in Live
      /\ ("split" \in Live)' => "split" \in Live
      /\ ("calibrate" \in Live)' => "calibrate" \in Live
      /\ ("quantize" \in Live)' => "quantize" \in Live
      /\ ("merge" \in Live)' => "merge" \in Live
  BY Stages
<1>3. PrepareFits' /\ SplitFits' /\ MergeFits'
  BY <1>1, <1>2, PrepareKept, SplitKept, MergeKept DEF FilesFit
<1>4. CalibrateFits' /\ QuantizeFits'
  BY <1>1, <1>2, LaterKept DEF FilesFit, TopShrinks
<1> QED BY <1>3, <1>4 DEF FilesFit

\* Before a stage puts its files in the queue, the files hold what they will hold.
LEMMA NothingQueued ==
  ASSUME queue = <<>>
  PROVE  /\ \A f : Content(f) = files[f]
         /\ Live = trusted
         /\ \A p : ContentOf(SymbolAndParams(p)) = ModelLoad(p)
         /\ \A p : ContentOf(WithExt(p)) = ModelLoad(p) \cup files[<<p, "ext">>]
<1>1. \A f : Content(f) = files[f]
  BY EntriesOf DEF Content, Queued, Pending
<1>2. \A p : ContentOf(SymbolAndParams(p)) = ModelLoad(p)
  BY <1>1 DEF ContentOf, SymbolAndParams, ModelLoad
<1>3. \A p : ContentOf(WithExt(p)) = ModelLoad(p) \cup files[<<p, "ext">>]
  BY <1>1 DEF ContentOf, SymbolAndParams, WithExt, ModelLoad
<1> QED BY <1>1, <1>2, <1>3 DEF Live

\* A stage leaves the files alone whose prefix it does not write.
LEMMA OthersShrink ==
  ASSUME queue = <<>>, UNCHANGED files, NEW p, \A w \in Entries(queue') : w[1][1] # p
  PROVE  Shrinks(p)
<1> SUFFICES ASSUME NEW f \in FilesOf(p) PROVE Content(f)' \subseteq Content(f)
  BY DEF Shrinks
<1>1. f[1] = p
  BY DEF FilesOf, WithExt, SymbolAndParams
<1>2. ~ Queued(f)'
  BY <1>1 DEF Queued, Pending, Entries
<1>3. Content(f)' = files[f]
  BY <1>2 DEF Content
<1> QED BY <1>3, NothingQueued

\* What a file in the queue will hold.
LEMMA WillHold ==
  ASSUME NEW f, NEW S, NEW w \in Entries(queue'), w[1] = f,
         \A x \in Entries(queue') : x[1] = f => x[2] \subseteq S
  PROVE  Content(f)' \subseteq S
<1>1. Queued(f)'
  BY DEF Queued, Pending, Entries
<1>2. Content(f)' = UNION {x[2] : x \in {x \in Entries(queue') : x[1] = f}}
  BY <1>1 DEF Content, Pending, Entries
<1> QED BY <1>2

LEMMA ModelWritten ==
  ASSUME NEW p, NEW m, \A f \in SymbolAndParams(p) : <<f, m>> \in Entries(queue'),
         \A w \in Entries(queue') : w[1] \in SymbolAndParams(p) => w[2] \subseteq m
  PROVE  ContentOf(SymbolAndParams(p))' \subseteq m
<1>1. ASSUME NEW f \in SymbolAndParams(p) PROVE Content(f)' \subseteq m
  <2> DEFINE w == <<f, m>>
  <2>1. w \in Entries(queue') /\ w[1] = f
    OBVIOUS
  <2>2. \A x \in Entries(queue') : x[1] = f => x[2] \subseteq m
    OBVIOUS
  <2> HIDE DEF w
  <2> QED BY <2>1, <2>2, WillHold
<1> QED BY <1>1 DEF ContentOf

LEMMA ObjectWritten ==
  ASSUME NEW p \in Prefix, NEW mrt \in Mrt, NEW others,
         Entries(queue') = Entries(MrtSave(p, mrt)) \cup others,
         \A w \in others : w[1] \notin WithExt(p)
  PROVE  /\ ContentOf(WithExt(p))' \subseteq mrt.model \cup SavedExt(mrt)
         /\ Content(<<p, "ext">>)' \subseteq SavedExt(mrt)
<1>1. Entries(MrtSave(p, mrt)) =
        {<<<<p, "ext">>, SavedExt(mrt)>>} \cup {<<f, mrt.model>> : f \in SymbolAndParams(p)}
  BY Saves DEF SavedExt
<1>2. \A f \in SymbolAndParams(p) : f # <<p, "ext">>
  BY DEF SymbolAndParams
<1>3. Content(<<p, "ext">>)' \subseteq SavedExt(mrt)
  <2> DEFINE f == <<p, "ext">>
             w == <<f, SavedExt(mrt)>>
  <2>1. w \in Entries(queue') /\ w[1] = f /\ f \in WithExt(p)
    BY <1>1 DEF WithExt
  <2>2. ASSUME NEW x \in Entries(queue'), x[1] = f PROVE x[2] \subseteq SavedExt(mrt)
    <3>1. x \in Entries(MrtSave(p, mrt))
      BY <2>1, <2>2
    <3>2. x[2] = SavedExt(mrt) \/ x[1] \in SymbolAndParams(p)
      BY <1>1, <3>1
    <3> QED BY <1>2, <2>2, <3>2
  <2> HIDE DEF w, f
  <2>3. Content(f)' \subseteq SavedExt(mrt)
    BY <2>1, <2>2, WillHold
  <2> QED BY <2>3 DEF f
<1>4. ContentOf(SymbolAndParams(p))' \subseteq mrt.model
  <2> DEFINE m == mrt.model
  <2>1. \A f \in SymbolAndParams(p) : <<f, m>> \in Entries(queue')
    BY <1>1
  <2>2. \A w \in Entries(queue') : w[1] \in SymbolAndParams(p) => w[2] \subseteq m
    BY <1>1, <1>2 DEF WithExt
  <2> HIDE DEF m
  <2>3. ContentOf(SymbolAndParams(p))' \subseteq m
    BY <2>1, <2>2, ModelWritten
  <2> QED BY <2>3 DEF m
<1> QED BY <1>3, <1>4 DEF ContentOf, WithExt

\* A checkpoint that is being written fits what its object fits.
LEMMA SavedObjectFits ==
  ASSUME NEW p \in Prefix, NEW mrt \in Mrt, NEW others,
         Entries(queue') = Entries(MrtSave(p, mrt)) \cup others,
         \A w \in others : w[1] \notin WithExt(p),
         Same(mrt.model \cup mrt.ext), Unmerged(mrt.model \cup mrt.ext), mrt.old = "old"
  PROVE  /\ Old(p)'
         /\ Fits(ContentOf(WithExt(p))', {})
         /\ \A U : OneSplit((mrt.model \cup mrt.ext) \cup U) /\ Raw(U)
                  => Fits(ContentOf(WithExt(p))', U)
<1> DEFINE saved == mrt.model \cup SavedExt(mrt)
<1>1. /\ ContentOf(WithExt(p))' \subseteq saved
      /\ Content(<<p, "ext">>)' \subseteq SavedExt(mrt)
  BY ObjectWritten
<1>2. /\ Same(saved) /\ Unmerged(saved) /\ Inherits(saved, mrt.model \cup mrt.ext)
      /\ \A o \in SavedExt(mrt) : o.names = "old"
  BY SavedFits
<1> HIDE DEF saved
<1>3. Old(p)'
  BY <1>1, <1>2 DEF Old
<1>4. Fits(ContentOf(WithExt(p))', {})
  BY <1>1, <1>2, FitsNone, FewerFit
<1>5. ASSUME NEW U, OneSplit((mrt.model \cup mrt.ext) \cup U), Raw(U)
      PROVE  Fits(ContentOf(WithExt(p))', U)
  <2>1. OneSplit(saved \cup U)
    BY <1>2, <1>5, OneSplitFrom
  <2>2. Fits(saved, U)
    BY <1>2, <1>5, <2>1 DEF Fits
  <2> QED BY <1>1, <2>2, FewerFit
<1> QED BY <1>3, <1>4, <1>5

LEMMA SavedFitsTop ==
  ASSUME NEW p \in Prefix, NEW mrt \in Mrt, NEW others,
         Entries(queue') = Entries(MrtSave(p, mrt)) \cup others,
         \A w \in others : w[1] \notin WithExt(p),
         Same(mrt.model \cup mrt.ext), Unmerged(mrt.model \cup mrt.ext), mrt.old = "old",
         (IF chain.driver = "V3" THEN Split(p) ELSE "split" \in Live)' =>
            OneSplit((mrt.model \cup mrt.ext) \cup ContentOf(Top)') /\ Raw(ContentOf(Top)')
  PROVE  FitsTop(p)'
<1>1. /\ Old(p)' /\ Fits(ContentOf(WithExt(p))', {})
      /\ \A U : OneSplit((mrt.model \cup mrt.ext) \cup U) /\ Raw(U) => Fits(ContentOf(WithExt(p))', U)
  BY SavedObjectFits
<1>2. (IF chain.driver = "V3" THEN Split(p) ELSE "split" \in Live)' =>
         Fits(ContentOf(WithExt(p))', ContentOf(Top)')
  BY <1>1
<1> QED BY <1>1, <1>2 DEF FitsTop, Fits, Same, OneSplit, Raw, Unmerged

(***************************************************************************)
(* The checkpoints after a stage                                           *)
(***************************************************************************)
\* Those of the earlier stages are kept, those of the later ones outdated.
LEMMA ScriptStage ==
  ASSUME FilesFit, queue = <<>>, UNCHANGED <<files, chain>>, chain.driver # "V3",
         NEW k \in 1 .. 5, trusted' = trusted \ From(k), dumping' = Stage[k],
         \A w \in Entries(queue') : w[1][1] \in PrefixesOf(Stage[k]),
         k = 1 => \A w \in Entries(queue') : w[1][1] = "prepare",
         queue' # <<>> => /\ k = 1 => PrepareFits'
                          /\ k = 2 => SplitFits'
                          /\ k = 3 => CalibrateFits'
                          /\ k = 4 => QuantizeFits'
                          /\ k = 5 => MergeFits'
  PROVE  FilesFit'
<1>1. /\ Live = trusted /\ Live' \subseteq (trusted \ From(k)) \cup {Stage[k]}
      /\ queue' = <<>> => Live' = trusted \ From(k)
  BY NothingQueued DEF Live
<1>2. \A p : (\A w \in Entries(queue') : w[1][1] # p) => Shrinks(p)
  BY OthersShrink
<1>3. k \in {1, 2, 3, 4, 5}
  OBVIOUS
<1>4. MergeFits /\ PrepareFits /\ SplitFits /\ CalibrateFits /\ QuantizeFits
  BY DEF FilesFit
<1>5. PrepareFits'
  <2>1. CASE k = 1
    <3>1. queue' = <<>> => ("prepare" \notin Live)'
      BY <1>1, <2>1, Stages
    <3> QED BY <2>1, <3>1 DEF PrepareFits
  <2>2. CASE k # 1
    <3>1. \A w \in Entries(queue') : w[1][1] # "prepare"
      BY <1>3, <2>2, Prefixes, Stages
    <3>2. Shrinks("prepare") /\ (("prepare" \in Live)' => "prepare" \in Live)
      BY <1>1, <1>2, <1>3, <2>2, <3>1, Stages
    <3> QED BY <1>4, <3>2, PrepareKept
  <2> QED BY <2>1, <2>2
<1>6. k > 2 => Shrinks("top") /\ Shrinks("base")
  <2> SUFFICES ASSUME k > 2 PROVE Shrinks("top") /\ Shrinks("base")
    OBVIOUS
  <2>1. k \in {3, 4, 5}
    BY <1>3
  <2>2. \A w \in Entries(queue') : w[1][1] \notin {"top", "base"}
    BY <2>1, Prefixes, Stages
  <2> QED BY <1>2, <2>2
<1>7. SplitFits'
  <2>1. CASE k = 1
    <3>1. ("split" \notin Live)'
      BY <1>1, <2>1, Stages
    <3> QED BY <3>1 DEF SplitFits
  <2>2. CASE k = 2
    <3>1. queue' = <<>> => ("split" \notin Live)'
      BY <1>1, <2>2, Stages
    <3> QED BY <2>2, <3>1 DEF SplitFits
  <2>3. CASE k > 2
    <3>1. ("split" \in Live)' => "split" \in Live
      BY <1>1, <1>3, <2>3, Stages
    <3> QED BY <1>4, <1>6, <2>3, <3>1, SplitKept
  <2> QED BY <1>3, <2>1, <2>2, <2>3
<1>8. k > 2 => TopShrinks
  BY <1>1, <1>3, <1>6, Stages DEF TopShrinks
<1>9. CalibrateFits'
  <2>1. CASE k < 3
    <3>1. ("calibrate" \notin Live)'
      BY <1>1, <1>3, <2>1, Stages
    <3> QED BY <3>1 DEF CalibrateFits
  <2>2. CASE k = 3
    <3>1. queue' = <<>> => ("calibrate" \notin Live)'
      BY <1>1, <2>2, Stages
    <3> QED BY <2>2, <3>1 DEF CalibrateFits
  <2>3. CASE k > 3
    <3>1. k \in {4, 5}
      BY <1>3, <2>3
    <3>2. \A w \in Entries(queue') : w[1][1] # "calibrate"
      BY <3>1, Prefixes, Stages
    <3>3. ("calibrate" \in Live)' => "calibrate" \in Live
      BY <1>1, <3>1, Stages
    <3> QED BY <1>2, <1>4, <1>8, <2>3, <3>2, <3>3, LaterKept
  <2> QED BY <1>3, <2>1, <2>2, <2>3
<1>10. QuantizeFits'
  <2>1. CASE k < 4
    <3>1. ("quantize" \notin Live)'
      BY <1>1, <1>3, <2>1, Stages
    <3> QED BY <3>1 DEF QuantizeFits
  <2>2. CASE k = 4
    <3>1. queue' = <<>> => ("quantize" \notin Live)'
      BY <1>1, <2>2, Stages
    <3> QED BY <2>2, <3>1 DEF QuantizeFits
  <2>3. CASE k = 5
    <3>1. \A w \in Entries(queue') : w[1][1] # "quantize"
      BY <2>3, Prefixes, Stages
    <3>2. ("quantize" \in Live)' => "quantize" \in Live
      BY <1>1, <2>3, Stages
    <3> QED BY <1>2, <1>4, <1>8, <2>3, <3>1, <3>2, LaterKept
  <2> QED BY <1>3, <2>1, <2>2, <2>3
<1>11. MergeFits'
  <2>1. CASE k = 5 /\ queue' # <<>>
    BY <2>1
  <2>2. CASE ~ (k = 5 /\ queue' # <<>>)
    <3>1. ("merge" \notin Live)'
      BY <1>1, <1>3, <2>2, Stages
    <3> QED BY <3>1 DEF MergeFits
  <2> QED BY <2>1, <2>2
<1> QED BY <1>5, <1>7, <1>9, <1>10, <1>11 DEF FilesFit

\* A step that writes nothing.
LEMMA Quiet ==
  ASSUME FilesFit, queue = <<>>, queue' = <<>>, UNCHANGED <<files, chain>>, trusted' = trusted
  PROVE  /\ FilesFit' /\ Live' = Live
         /\ ContentOf(Top)' = ContentOf(Top)
<1>1. \A p : Shrinks(p)
  BY OthersShrink, EntriesOf
<1>2. Live' = Live
  BY DEF Live
<1>3. \A f : Content(f)' = Content(f)
  BY EntriesOf DEF Content, Queued, Pending, Entries
<1>4. ContentOf(Top)' = ContentOf(Top)
  BY <1>3 DEF ContentOf, Top, SymbolAndParams
<1> QED BY <1>1, <1>2, <1>4, AllKept

\* What combines fits in every part.
LEMMA StillAgrees ==
  ASSUME ResultsFit'
  PROVE  OutputsAgree'
BY DEF ResultsFit, OutputsAgree, Combined, Agree, Results

\* A process that failed has nothing bound.
LEMMA FailingAgrees ==
  ASSUME AgreeInv, queue = <<>>, NEW why \in {"checkpoint", "config", "unbound", "slice_channel"},
         Fail(why)
  PROVE  AgreeInv'
<1>1. TrustInv'
  BY Failing DEF AgreeInv
<1>2. FilesFit'
  BY Quiet DEF AgreeInv, Fail
<1>3. OutputsAgree'
  BY DEF AgreeInv, Fail, OutputsAgree, Agree
<1> QED BY <1>1, <1>2, <1>3 DEF AgreeInv, Fail

(***************************************************************************)
(* The objects of the scripts                                              *)
(***************************************************************************)
\* What is known when a section is the next to run.
InScript ==
  /\ InSection /\ TrustInv /\ FilesFit /\ MemFits /\ StartTrusted /\ cfg.driver # "V3"
  /\ queue = <<>> /\ status = "running" /\ todo # <<>> /\ Live = trusted

LEMMA ScriptFacts ==
  ASSUME AgreeInv, ConfigsAssumption, NEW stage, Section(stage)
  PROVE  InScript /\ Head(todo) = stage
BY SectionFacts, NothingQueued DEF AgreeInv, Section, InScript, TrustInv

\* The section after.
LEMMA NextSection ==
  ASSUME InScript, Tail(todo) # <<>>
  PROVE  /\ Head(todo) = "prepare" => Head(Tail(todo)) = "split"
         /\ Head(todo) = "split" => Head(Tail(todo)) = "calibrate"
         /\ Head(todo) = "calibrate" => Head(Tail(todo)) = "quantize"
         /\ Head(todo) = "quantize" => Head(Tail(todo)) = "merge"
         /\ Head(todo) = "merge" => Head(Tail(todo)) \in Closing
         /\ Head(todo) = "evaluate" => Head(Tail(todo)) \in Closing
         /\ Head(todo) # "compile"
<1>1. <<Head(todo), Head(Tail(todo))>> \in Follows(cfg.driver)
  BY NextFollows DEF InScript
<1> DEFINE pairs == {<<"prepare", "split">>, <<"split", "calibrate">>, <<"calibrate", "quantize">>,
                     <<"quantize", "merge">>, <<"evaluate", "compile">>}
<1>2. <<Head(todo), Head(Tail(todo))>> \in pairs \cup ({"merge"} \X Closing)
  BY <1>1 DEF Follows, InScript
<1>3. CASE <<Head(todo), Head(Tail(todo))>> \in pairs
  BY <1>3 DEF Closing
<1>4. CASE <<Head(todo), Head(Tail(todo))>> \in {"merge"} \X Closing
  BY <1>4
<1> QED BY <1>2, <1>3, <1>4

\* A section that goes on.
LEMMA ScriptGoesOn ==
  ASSUME TrustInv', FilesFit', MemFits', InScript, UNCHANGED <<cfg, status>>,
         dumping' = Head(todo), todo' = Tail(todo)
  PROVE  AgreeInv'
<1>1. CompiledLast'
  BY NextSection DEF CompiledLast
<1> QED BY <1>1, StillAgrees DEF AgreeInv, MemFits, InScript

\* Before the merge nothing is combined, before the calibration nothing calibrated.
LEMMA NotYet ==
  ASSUME InScript
  PROVE  /\ Head(todo) \in {"prepare", "split", "calibrate"} => mem.mrt = NoMrt
         /\ Head(todo) \in {"prepare", "split", "calibrate", "quantize"} => mem.inputs_ext = {}
         /\ Head(todo) \in From(1) => used = {} /\ mem.qmodel = {} /\ mem.oscales = {}
         /\ Head(todo) = "merge" => mem.inputs_ext \subseteq mem.mrt.ext
         /\ Head(todo) \in From(1) /\ cfg.start = 5 => mem.mrt = NoMrt
BY DEF InScript, MemFits, Unbound, Before

\* Nothing is bound that Unbound speaks of.
LEMMA StillUnbound ==
  ASSUME mem'.mrt = NoMrt, mem'.inputs_ext = {}, used' = {}, mem'.qmodel = {}, mem'.oscales = {}
  PROVE  Unbound' /\ ResultsFit' /\ (HalvesFit' => RanFits')
<1>1. Unbound'
  BY DEF Unbound, Before
<1>2. mem'.mrt.ext = {} /\ mem'.mrt.model = {} /\ mem'.mrt.old = "old"
  BY DEF NoMrt, Nothing
<1>3. ResultsFit'
  BY <1>2 DEF ResultsFit, Results, Combined, Agree
<1>4. ASSUME HalvesFit' PROVE RanFits'
  <2>1. OneSplit(mem'.top) /\ Raw(mem'.top)
    <3>1. OneSplit(mem'.base \cup mem'.top) /\ Raw(mem'.top)
      BY <1>4 DEF HalvesFit, OneSplit, Raw, Unmerged
    <3> QED BY <3>1, Fewer
  <2>2. Fits({}, mem'.top)
    BY <2>1, NothingFits DEF Fits
  <2>3. mem'.mrt.model \cup mem'.mrt.ext = {}
    BY <1>2
  <2>4. Fits(mem'.mrt.model \cup mem'.mrt.ext, mem'.top)
    BY <2>2, <2>3
  <2> QED BY <1>2, <2>4 DEF RanFits, Ran, Fits, Same, OneSplit, Raw, Unmerged
<1> QED BY <1>1, <1>3, <1>4

LEMMA PrepareAgrees ==
  ASSUME AgreeInv, ConfigsAssumption, Section("prepare"), PrepareSection
  PROVE  AgreeInv'
<1>0. InScript /\ Head(todo) = "prepare" /\ TrustInv'
  BY ScriptFacts, PrepareTrust DEF AgreeInv
<1>1. /\ mem.mrt = NoMrt /\ mem.inputs_ext = {} /\ used = {} /\ mem.qmodel = {} /\ mem.oscales = {}
  BY <1>0, NotYet, Stages
<1>2. HalvesFit /\ TopFits /\ FilesFit /\ mem \in Objects /\ queue = <<>> /\ chain.driver # "V3"
      /\ Live = trusted /\ status = "running"
  BY <1>0 DEF InScript, MemFits, InSection
<1>3. ASSUME NEW m, OneSplit(m), Raw(m), mem' = [mem EXCEPT !.model = m], UNCHANGED <<cfg, used>>
      PROVE  HalvesFit' /\ RanFits' /\ ResultsFit' /\ Unbound' /\ Ran' = Ran /\ mem'.base = mem.base
  <2>1. /\ mem'.model = m /\ mem'.base = mem.base /\ mem'.top = mem.top /\ mem'.mrt = mem.mrt
        /\ mem'.qmodel = mem.qmodel /\ mem'.oscales = mem.oscales /\ mem'.inputs_ext = mem.inputs_ext
    BY <1>2, <1>3 DEF Objects
  <2>2. HalvesFit'
    BY <1>2, <1>3, <2>1 DEF HalvesFit, OneSplit, Raw, Unmerged
  <2> QED BY <1>1, <1>3, <2>1, <2>2, StillUnbound DEF Ran
<1>4. ASSUME Tail(todo) # <<>> PROVE Head(Tail(todo)) = "split"
  BY <1>0, <1>4, NextSection
<1>5. CASE cfg.start < 1
  <2> DEFINE m == Prepare(run)
             writes == Dump("prepare", ModelSave("prepare", m))
  <2>1. /\ mem' = [mem EXCEPT !.model = m] /\ queue' = writes /\ dumping' = "prepare"
        /\ todo' = Tail(todo) /\ UNCHANGED <<files, cfg, status, run, deaths, chain, used>>
        /\ trusted' = trusted \ From(1)
    BY <1>0, <1>5 DEF PrepareSection, Anew, Finish, InScript, InSection
  <2>2. OneSplit(m) /\ Raw(m) /\ m \in SUBSET Origin
    BY <1>0, Prepared, Types DEF InScript, InSection
  <2> HIDE DEF m
  <2>3. "prepare" \in Prefix
    BY DEF Prefix
  <2>4. Entries(ModelSave("prepare", m)) = {<<f, m>> : f \in SymbolAndParams("prepare")}
        /\ ModelSave("prepare", m) \in Writes
    BY <2>2, <2>3, Saves, Types
  <2>5. queue' # <<>> => Entries(queue') = {<<f, m>> : f \in SymbolAndParams("prepare")}
    BY <2>1, <2>4 DEF Dump
  <2>6. \A w \in Entries(queue') : w[1][1] = "prepare"
    BY <2>5, EntriesOf DEF SymbolAndParams
  <2>7. queue' # <<>> => PrepareFits'
    <3> SUFFICES ASSUME queue' # <<>> PROVE PrepareFits'
      OBVIOUS
    <3>1. ContentOf(SymbolAndParams("prepare"))' \subseteq m
      BY <2>5, ModelWritten
    <3>2. OneSplit(ContentOf(SymbolAndParams("prepare"))') /\ Raw(ContentOf(SymbolAndParams("prepare"))')
      BY <2>2, <3>1, Fewer
    <3> QED BY <1>2, <2>1, <3>2 DEF PrepareFits, OneSplit, Raw, Unmerged
  <2>8. FilesFit'
    <3>1. \A w \in Entries(queue') : w[1][1] \in PrefixesOf(Stage[1])
      BY <2>6, Stages, Prefixes
    <3> QED BY <1>2, <2>1, <2>6, <2>7, <3>1, ScriptStage, Stages
  <2>9. ("split" \notin Live)'
    BY <2>1, Stages DEF Live
  <2>10. MemFits'
    <3>1. TopFits'
      BY <2>9 DEF TopFits
    <3> QED BY <1>3, <2>1, <2>2, <3>1 DEF MemFits
  <2> QED BY <1>0, <2>1, <2>8, <2>10, ScriptGoesOn
<1>6. ASSUME NEW m, OneSplit(m), Raw(m), mem' = [mem EXCEPT !.model = m],
             todo' = Tail(todo), dumping' = Head(todo), UNCHANGED <<files, queue, cfg, status, chain, trusted, used>>
      PROVE  AgreeInv'
  <2>1. FilesFit' /\ Live' = Live /\ ContentOf(Top)' = ContentOf(Top)
    BY <1>2, <1>6, Quiet
  <2>2. ~ Before({"calibrate"})'
    BY <1>4, <1>6 DEF Before
  <2>3. /\ HalvesFit' /\ RanFits' /\ ResultsFit' /\ Unbound'
        /\ Ran' = Ran /\ mem'.base = mem.base
    BY <1>3, <1>6
  <2>4. TopFits'
    BY <1>2, <2>1, <2>2, <2>3 DEF TopFits, OneSplit
  <2> QED BY <1>0, <1>6, <2>1, <2>3, <2>4, ScriptGoesOn DEF MemFits
<1>7. CASE cfg.start = 1
  <2> DEFINE m == ModelLoad("prepare")
  <2>1. CASE Fail("checkpoint")
    BY <1>2, <2>1, FailingAgrees
  <2>2. CASE Finish([mem EXCEPT !.model = m], <<>>) /\ UNCHANGED <<trusted, used>>
    <3>1. "prepare" \in Live
      BY <1>0, <1>2, <1>7, Stages DEF InScript, InSection, StartTrusted
    <3>2. OneSplit(m) /\ Raw(m)
      BY <1>2, <3>1, NothingQueued DEF FilesFit, PrepareFits
    <3>3. mem' = [mem EXCEPT !.model = m] /\ todo' = Tail(todo)
          /\ dumping' = Head(todo) /\ UNCHANGED <<files, queue, cfg, status, chain, trusted, used>>
      BY <1>2, <2>2 DEF Finish
    <3> HIDE DEF m
    <3> QED BY <1>6, <3>2, <3>3
  <2> QED BY <1>7, <2>1, <2>2 DEF PrepareSection, Checkpoint
<1>8. CASE cfg.start > 1
  <2>1. Skip
    BY <1>0, <1>8 DEF PrepareSection, InScript, InSection
  <2>2. mem' = mem /\ mem = [mem EXCEPT !.model = mem.model] /\ todo' = Tail(todo)
        /\ dumping' = Head(todo) /\ UNCHANGED <<files, queue, cfg, status, chain, trusted, used>>
    BY <1>2, <2>1 DEF Skip, Finish, Objects
  <2>3. OneSplit(mem.model) /\ Raw(mem.model)
    BY <1>2 DEF HalvesFit
  <2> QED BY <1>6, <2>2, <2>3
<1> QED BY <1>0, <1>5, <1>7, <1>8 DEF InScript, InSection

LEMMA SplitAgrees ==
  ASSUME AgreeInv, ConfigsAssumption, Section("split"), SplitSection
  PROVE  AgreeInv'
<1>0. InScript /\ Head(todo) = "split" /\ TrustInv'
  BY ScriptFacts, SplitTrust DEF AgreeInv
<1>1. /\ mem.mrt = NoMrt /\ mem.inputs_ext = {} /\ used = {} /\ mem.qmodel = {} /\ mem.oscales = {}
  BY <1>0, NotYet, Stages
<1>2. HalvesFit /\ TopFits /\ FilesFit /\ mem \in Objects /\ queue = <<>> /\ chain.driver # "V3"
      /\ Live = trusted /\ status = "running" /\ cfg.start \in 0 .. 5 /\ cfg.keys \in BOOLEAN
      /\ mem.model \in SUBSET Origin /\ run \in Nat
  BY <1>0 DEF InScript, MemFits, InSection
<1>3. ASSUME NEW b, NEW t, OneSplit(b \cup t), Raw(b), Raw(t), ~ cfg.keys => t = {},
             mem' = [mem EXCEPT !.base = b, !.top = t], UNCHANGED <<cfg, used>>
      PROVE  HalvesFit' /\ RanFits' /\ ResultsFit' /\ Unbound' /\ Ran' = {} /\ mem'.base = b
  <2>1. /\ mem'.model = mem.model /\ mem'.base = b /\ mem'.top = t /\ mem'.mrt = mem.mrt
        /\ mem'.qmodel = mem.qmodel /\ mem'.oscales = mem.oscales /\ mem'.inputs_ext = mem.inputs_ext
    BY <1>2, <1>3 DEF Objects
  <2>2. HalvesFit'
    BY <1>2, <1>3, <2>1 DEF HalvesFit, OneSplit, Raw, Unmerged
  <2> QED BY <1>1, <1>3, <2>1, <2>2, StillUnbound DEF Ran, NoMrt, Nothing
<1>4. CASE ~ cfg.keys /\ cfg.start = 2
  BY <1>2, <1>4, FailingAgrees DEF SplitSection
<1>5. CASE ~ cfg.keys /\ cfg.start < 2
  <2>1. /\ mem' = mem /\ queue' = <<>> /\ dumping' = "split"
        /\ todo' = Tail(todo) /\ UNCHANGED <<files, cfg, status, run, deaths, chain, used>>
        /\ trusted' = trusted \ From(2)
    BY <1>0, <1>2, <1>5 DEF SplitSection, Anew, Finish
  <2>2. FilesFit'
    BY <1>2, <2>1, EntriesOf, ScriptStage, Stages
  <2>3. mem = [mem EXCEPT !.base = mem.base, !.top = mem.top]
    BY <1>2 DEF Objects
  <2>4. HalvesFit' /\ RanFits' /\ ResultsFit' /\ Unbound'
    BY <1>2, <1>3, <2>1, <2>3 DEF HalvesFit
  <2>5. TopFits'
    BY <2>1, Stages DEF TopFits, Live
  <2> QED BY <1>0, <2>1, <2>2, <2>4, <2>5, ScriptGoesOn DEF MemFits
<1>6. CASE cfg.keys /\ cfg.start < 2
  <2> DEFINE s == split_model(mem.model, run)
             halves == ModelSave("top", s.top) \o ModelSave("base", s.base)
  <2>1. /\ mem' = [mem EXCEPT !.base = s.base, !.top = s.top] /\ queue' = Dump("split", halves)
        /\ dumping' = "split" /\ todo' = Tail(todo)
        /\ UNCHANGED <<files, cfg, status, run, deaths, chain, used>>
        /\ trusted' = trusted \ From(2)
    BY <1>0, <1>2, <1>6 DEF SplitSection, Anew, Finish
  <2> DEFINE base == s.base
             top == s.top
  <2>2. OneSplit(base \cup top) /\ Raw(base) /\ Raw(top)
    BY <1>2, Halved DEF HalvesFit
  <2>3. base \in SUBSET Origin /\ top \in SUBSET Origin /\ "top" \in Prefix /\ "base" \in Prefix
    BY <1>2, Types DEF Prefix
  <2>4. mem' = [mem EXCEPT !.base = base, !.top = top]
        /\ queue' = Dump("split", ModelSave("top", top) \o ModelSave("base", base))
    BY <2>1
  <2> HIDE DEF base, top, s, halves
  <2>5. /\ Entries(ModelSave("top", top)) = {<<f, top>> : f \in SymbolAndParams("top")}
        /\ Entries(ModelSave("base", base)) = {<<f, base>> : f \in SymbolAndParams("base")}
        /\ ModelSave("top", top) \in Writes /\ ModelSave("base", base) \in Writes
    BY <2>3, Saves, Types
  <2>6. queue' # <<>> =>
          Entries(queue') = {<<f, top>> : f \in SymbolAndParams("top")}
                            \cup {<<f, base>> : f \in SymbolAndParams("base")}
    BY <2>4, <2>5, EntriesConcat DEF Dump
  <2>7. \A w \in Entries(queue') : w[1][1] \in {"top", "base"}
    BY <2>6, EntriesOf DEF SymbolAndParams
  <2>8. ASSUME queue' # <<>>
        PROVE  ContentOf(Top)' \subseteq top /\ ContentOf(SymbolAndParams("base"))' \subseteq base
    <3>1. ContentOf(SymbolAndParams("top"))' \subseteq top
      <4>1. \A f \in SymbolAndParams("top") : <<f, top>> \in Entries(queue')
        BY <2>6, <2>8
      <4>2. \A w \in Entries(queue') : w[1] \in SymbolAndParams("top") => w[2] \subseteq top
        BY <2>6, <2>8 DEF SymbolAndParams
      <4> QED BY <4>1, <4>2, ModelWritten
    <3>2. ContentOf(SymbolAndParams("base"))' \subseteq base
      <4>1. \A f \in SymbolAndParams("base") : <<f, base>> \in Entries(queue')
        BY <2>6, <2>8
      <4>2. \A w \in Entries(queue') : w[1] \in SymbolAndParams("base") => w[2] \subseteq base
        BY <2>6, <2>8 DEF SymbolAndParams
      <4> QED BY <4>1, <4>2, ModelWritten
    <3> QED BY <3>1, <3>2 DEF Top
  <2>9. queue' # <<>> => SplitFits'
    <3> SUFFICES ASSUME queue' # <<>> PROVE SplitFits'
      OBVIOUS
    <3>1. ContentOf(Top \cup SymbolAndParams("base"))' \subseteq base \cup top
      BY <2>8 DEF ContentOf
    <3>2. Raw(base \cup top)
      BY <2>2 DEF Raw, Unmerged
    <3>3. OneSplit(ContentOf(Top \cup SymbolAndParams("base"))')
          /\ Raw(ContentOf(Top \cup SymbolAndParams("base"))')
      BY <2>2, <3>1, <3>2, Fewer
    <3> QED BY <3>3 DEF SplitFits, OneSplit, Raw, Unmerged, Top
  <2>10. FilesFit'
    BY <1>2, <2>1, <2>7, <2>9, ScriptStage, Stages, Prefixes
  <2>11. HalvesFit' /\ RanFits' /\ ResultsFit' /\ Unbound' /\ Ran' = {} /\ mem'.base = base
    BY <1>3, <1>6, <2>1, <2>2, <2>4
  <2>12. TopFits'
    <3>1. ("split" \in Live)' => queue' # <<>>
      BY <2>1, Stages DEF Live
    <3>2. ASSUME queue' # <<>>
          PROVE  OneSplit(ContentOf(Top)') /\ OneSplit(base \cup ContentOf(Top)')
      <4>1. ContentOf(Top)' \subseteq base \cup top /\ base \cup ContentOf(Top)' \subseteq base \cup top
        BY <2>8, <3>2
      <4> QED BY <2>2, <4>1, Fewer
    <3>3. Ran' \cup ContentOf(Top)' = ContentOf(Top)' /\ mem'.base \cup ContentOf(Top)' = base \cup ContentOf(Top)'
      BY <2>11
    <3>4. ("split" \in Live)' =>
             OneSplit(Ran' \cup ContentOf(Top)') /\ OneSplit(mem'.base \cup ContentOf(Top)')
      BY <3>1, <3>2, <3>3
    <3> QED BY <1>6, <2>1, <3>4 DEF TopFits, OneSplit
  <2> QED BY <1>0, <2>1, <2>10, <2>11, <2>12, ScriptGoesOn DEF MemFits
<1>7. ASSUME NEW b, NEW t, OneSplit(b \cup t), Raw(b), Raw(t), ~ cfg.keys => t = {},
             mem' = [mem EXCEPT !.base = b, !.top = t],
             "split" \in Live => OneSplit(ContentOf(Top)) /\ OneSplit(b \cup ContentOf(Top)),
             cfg.keys \/ cfg.start > 2,
             todo' = Tail(todo), dumping' = Head(todo), UNCHANGED <<files, queue, cfg, status, chain, trusted, used>>
      PROVE  AgreeInv'
  <2>1. FilesFit' /\ Live' = Live /\ ContentOf(Top)' = ContentOf(Top)
    BY <1>2, <1>7, Quiet
  <2>2. /\ HalvesFit' /\ RanFits' /\ ResultsFit' /\ Unbound'
        /\ Ran' = {} /\ mem'.base = b
    BY <1>3, <1>7
  <2>3. Ran' \cup ContentOf(Top)' = ContentOf(Top) /\ mem'.base \cup ContentOf(Top)' = b \cup ContentOf(Top)
    BY <2>1, <2>2
  <2>4. ("split" \in Live)' =>
           OneSplit(Ran' \cup ContentOf(Top)') /\ OneSplit(mem'.base \cup ContentOf(Top)')
    BY <1>7, <2>1, <2>3
  <2>5. TopFits'
    BY <1>2, <1>7, <2>4 DEF TopFits, OneSplit
  <2> QED BY <1>0, <1>7, <2>1, <2>2, <2>5, ScriptGoesOn DEF MemFits
<1>8. CASE cfg.keys /\ cfg.start = 2
  <2> DEFINE b == ModelLoad("base")
             t == ModelLoad("top")
  <2>1. CASE Fail("checkpoint")
    BY <1>2, <2>1, FailingAgrees
  <2>2. CASE Finish([mem EXCEPT !.top = t, !.base = b], <<>>) /\ UNCHANGED <<trusted, used>>
    <3>1. "split" \in Live
      BY <1>0, <1>2, <1>8, Stages DEF InScript, InSection, StartTrusted
    <3>2. ContentOf(Top \cup SymbolAndParams("base")) = t \cup b /\ ContentOf(Top) = t
      BY <1>2, NothingQueued DEF ContentOf, Top
    <3>3. OneSplit(t \cup b) /\ Raw(t \cup b)
      BY <1>2, <3>1, <3>2 DEF FilesFit, SplitFits
    <3>4. mem' = [mem EXCEPT !.base = b, !.top = t] /\ todo' = Tail(todo)
          /\ dumping' = Head(todo) /\ UNCHANGED <<files, queue, cfg, status, chain, trusted, used>>
      BY <1>2, <2>2 DEF Finish, Objects
    <3> HIDE DEF b, t
    <3>5. OneSplit(b \cup t) /\ Raw(b) /\ Raw(t) /\ OneSplit(t)
      <4>1. b \cup t = t \cup b
        OBVIOUS
      <4> QED BY <3>3, <4>1, Fewer
    <3>6. OneSplit(ContentOf(Top)) /\ OneSplit(b \cup ContentOf(Top))
      BY <3>2, <3>5
    <3> QED BY <1>7, <1>8, <3>4, <3>5, <3>6
  <2> QED BY <1>8, <2>1, <2>2 DEF SplitSection, Checkpoint
<1>9. CASE cfg.start > 2
  <2>1. Skip
    BY <1>2, <1>9 DEF SplitSection
  <2>2. mem' = mem /\ mem = [mem EXCEPT !.base = mem.base, !.top = mem.top] /\ todo' = Tail(todo)
        /\ dumping' = Head(todo) /\ UNCHANGED <<files, queue, cfg, status, chain, trusted, used>>
    BY <1>2, <2>1 DEF Skip, Finish, Objects
  <2>3. OneSplit(mem.base \cup mem.top) /\ Raw(mem.base) /\ Raw(mem.top) /\ (~ cfg.keys => mem.top = {})
    BY <1>2 DEF HalvesFit
  <2>4. "split" \in Live => OneSplit(ContentOf(Top)) /\ OneSplit(mem.base \cup ContentOf(Top))
    BY <1>2, Fewer DEF TopFits
  <2> QED BY <1>7, <1>9, <2>2, <2>3, <2>4
<1> QED BY <1>2, <1>4, <1>5, <1>6, <1>8, <1>9

\* An object is bound, calibrated or quantised anew or loaded.
LEMMA BoundAgrees ==
  ASSUME InScript, ConfigsAssumption, TrustInv', FilesFit', Head(todo) \in {"calibrate", "quantize"},
         cfg.start < 5,
         NEW mrt \in Mrt, NEW t, NEW x,
         Fits(mrt.model \cup mrt.ext, t), mrt.old = "old", OneSplit(mem.base \cup t), ~ cfg.keys => t = {},
         x \subseteq mrt.ext, Head(todo) = "calibrate" => x = {},
         mem' = [mem EXCEPT !.mrt = mrt, !.top = t, !.inputs_ext = x],
         ("split" \in Live)' => /\ OneSplit((mrt.model \cup mrt.ext) \cup ContentOf(Top)')
                                /\ OneSplit(mem.base \cup ContentOf(Top)'),
         todo' = Tail(todo), dumping' = Head(todo), UNCHANGED <<cfg, status, used>>
  PROVE  AgreeInv'
<1>1. /\ used = {} /\ mem.qmodel = {} /\ mem.oscales = {}
  BY NotYet, Stages
<1>2. HalvesFit /\ mem \in Objects
  BY DEF InScript, MemFits, InSection
<1>3. /\ mem'.model = mem.model /\ mem'.base = mem.base /\ mem'.top = t /\ mem'.mrt = mrt
      /\ mem'.qmodel = {} /\ mem'.oscales = {} /\ mem'.inputs_ext = x
  BY <1>1, <1>2 DEF Objects
<1>4. Raw(t) /\ Same(mrt.model \cup mrt.ext) /\ Unmerged(mrt.model \cup mrt.ext)
  BY DEF Fits
<1>5. HalvesFit'
  BY <1>2, <1>3, <1>4 DEF HalvesFit, OneSplit, Raw, Unmerged
<1>6. RanFits'
  BY <1>3 DEF RanFits, Ran, Fits, Same, OneSplit, Raw, Unmerged
<1>7. ResultsFit'
  <2>1. Combined(mrt.ext)
    <3>1. Combined(mrt.model \cup mrt.ext)
      BY <1>4, FitsCombined
    <3> QED BY <3>1, Fewer
  <2>2. (mem'.qmodel \cup mem'.oscales \cup mem'.inputs_ext) \cup mem'.mrt.ext = mrt.ext
    BY <1>3
  <2>3. Combined((mem'.qmodel \cup mem'.oscales \cup mem'.inputs_ext) \cup mem'.mrt.ext)
    BY <2>1, <2>2
  <2> QED BY <1>1, <2>3 DEF ResultsFit, Results, Combined, Agree
<1>8. /\ Head(todo) = "calibrate" => (Tail(todo) # <<>> => Head(Tail(todo)) = "quantize")
      /\ Head(todo) = "quantize" => (Tail(todo) # <<>> => Head(Tail(todo)) = "merge")
  BY NextSection
<1>9. Unbound'
  BY <1>1, <1>3, <1>8 DEF Unbound, Before
<1>10. TopFits'
  <2>1. ~ Before({"calibrate"})'
    BY <1>8 DEF Before
  <2> QED BY <1>3, <2>1 DEF TopFits, Ran, OneSplit
<1> QED BY <1>5, <1>6, <1>7, <1>9, <1>10, ScriptGoesOn DEF MemFits

LEMMA LoadedFits ==
  ASSUME InScript, NEW p \in Prefix, FitsTop(p)
  PROVE  LET m == MrtLoad(p)
         IN  /\ m \in Mrt /\ m.old = "old"
             /\ Fits(m.model \cup m.ext, {})
             /\ "split" \in Live => Fits(m.model \cup m.ext, ContentOf(Top))
<1> DEFINE m == MrtLoad(p)
<1>1. queue = <<>> /\ files \in [File -> SUBSET Origin] /\ chain.driver # "V3"
  BY DEF InScript, InSection
<1>2. m \in Mrt
  BY <1>1, LoadTypes
<1>3. ContentOf(WithExt(p)) = ModelLoad(p) \cup files[<<p, "ext">>] /\ Content(<<p, "ext">>) = files[<<p, "ext">>]
  BY <1>1, NothingQueued
<1>4. m.model = ModelLoad(p) /\ m.ext = files[<<p, "ext">>]
      /\ m.old = (IF \E o \in files[<<p, "ext">>] : o.names = "new" THEN "new" ELSE "old")
  BY DEF MrtLoad, NewMrt
<1>5. m.old = "old"
  BY <1>3, <1>4 DEF FitsTop, Old
<1>6. m.model \cup m.ext = ContentOf(WithExt(p))
  BY <1>3, <1>4
<1> HIDE DEF m
<1>7. Fits(m.model \cup m.ext, {}) /\ ("split" \in Live => Fits(m.model \cup m.ext, ContentOf(Top)))
  BY <1>1, <1>6 DEF FitsTop
<1> QED BY <1>2, <1>5, <1>7 DEF m

\* A checkpoint is loaded, with the top model if there is one.
LEMMA LoadAgrees ==
  ASSUME AgreeInv, ConfigsAssumption, NEW k \in {3, 4}, Section(Stage[k]), cfg.start = k, TrustInv',
         NEW x, x = {} \/ (k = 4 /\ x = MrtLoad(Stage[k]).ext),
         LET objects == [mem EXCEPT !.mrt = MrtLoad(Stage[k]), !.inputs_ext = x]
         IN  Finish(IF cfg.keys THEN [objects EXCEPT !.top = ModelLoad("top")] ELSE objects, <<>>),
         UNCHANGED <<trusted, used>>
  PROVE  AgreeInv'
<1> DEFINE p == Stage[k]
           mrt == MrtLoad(p)
           t == IF cfg.keys THEN ModelLoad("top") ELSE {}
<1>1. InScript /\ Head(todo) = p
  BY ScriptFacts
<1>2. p \in {"calibrate", "quantize"} /\ p \in Prefix /\ (k = 3 <=> p = "calibrate")
  BY Stages DEF Prefix
<1>3. p \in Live /\ (cfg.keys => "split" \in Live)
  <2>1. StartTrusted /\ Live = trusted /\ StartsAt(cfg) = cfg.start /\ cfg.driver # "V3"
    BY <1>1 DEF InScript, InSection
  <2> QED BY <2>1 DEF StartTrusted
<1>4. FitsTop(p)
  BY <1>1, <1>2, <1>3 DEF InScript, FilesFit, CalibrateFits, QuantizeFits
<1>5. /\ mrt \in Mrt /\ mrt.old = "old" /\ Fits(mrt.model \cup mrt.ext, {})
      /\ "split" \in Live => Fits(mrt.model \cup mrt.ext, ContentOf(Top))
  BY <1>1, <1>2, <1>4, LoadedFits
<1>6. mem \in Objects /\ HalvesFit /\ TopFits /\ FilesFit /\ queue = <<>>
  BY <1>1 DEF InScript, InSection, MemFits
<1>7. ContentOf(Top) = ModelLoad("top")
  BY <1>6, NothingQueued DEF Top
<1>8. mem' = [mem EXCEPT !.mrt = mrt, !.top = t, !.inputs_ext = x]
      /\ todo' = Tail(todo) /\ queue' = <<>> /\ dumping' = Head(todo)
      /\ UNCHANGED <<files, cfg, status, chain, used, trusted>>
  BY <1>6 DEF Finish, HalvesFit, Objects
<1>9. FilesFit' /\ Live' = Live /\ ContentOf(Top)' = ContentOf(Top)
  BY <1>6, <1>8, Quiet
<1>10. Fits(mrt.model \cup mrt.ext, t) /\ OneSplit(mem.base \cup t)
  <2>1. CASE cfg.keys
    BY <1>3, <1>5, <1>6, <1>7, <2>1 DEF TopFits
  <2>2. CASE ~ cfg.keys
    <3>1. OneSplit(mem.base)
      BY <1>6, Fewer DEF HalvesFit
    <3> QED BY <1>5, <2>2, <3>1
  <2> QED BY <2>1, <2>2
<1>11. x \subseteq mrt.ext /\ (p = "calibrate" => x = {}) /\ cfg.start < 5 /\ (~ cfg.keys => t = {})
  BY <1>2
<1> HIDE DEF mrt, t, p
<1>12. ("split" \in Live)' => /\ OneSplit((mrt.model \cup mrt.ext) \cup ContentOf(Top)')
                              /\ OneSplit(mem.base \cup ContentOf(Top)')
  BY <1>5, <1>6, <1>9 DEF TopFits, Fits
<1> QED BY <1>1, <1>2, <1>5, <1>8, <1>9, <1>10, <1>11, <1>12, BoundAgrees

LEMMA SkipAgrees ==
  ASSUME InScript, TrustInv', Head(todo) \in {"calibrate", "quantize"}, Skip
  PROVE  AgreeInv'
<1>1. MemFits /\ FilesFit /\ queue = <<>>
  BY DEF InScript
<1>2. mem' = mem /\ queue' = <<>> /\ todo' = Tail(todo) /\ dumping' = Head(todo)
      /\ UNCHANGED <<files, cfg, status, chain, used, trusted>>
  BY DEF Skip, Finish
<1>3. FilesFit' /\ Live' = Live /\ ContentOf(Top)' = ContentOf(Top)
  BY <1>1, <1>2, Quiet
<1>4. /\ Head(todo) = "calibrate" => (Tail(todo) # <<>> => Head(Tail(todo)) = "quantize")
      /\ Head(todo) = "quantize" => (Tail(todo) # <<>> => Head(Tail(todo)) = "merge")
  BY NextSection
<1>5. /\ mem.inputs_ext = {} /\ used = {} /\ mem.qmodel = {} /\ mem.oscales = {}
      /\ cfg.start = 5 => mem.mrt = NoMrt
  BY NotYet, Stages
<1>6. Unbound'
  BY <1>2, <1>4, <1>5 DEF Unbound, Before
<1>7. TopFits'
  <2>1. ~ Before({"calibrate"})'
    BY <1>2, <1>4 DEF Before
  <2> QED BY <1>1, <1>2, <1>3, <2>1 DEF MemFits, TopFits, Ran, OneSplit
<1>8. HalvesFit' /\ RanFits' /\ ResultsFit'
  BY <1>1, <1>2 DEF MemFits, HalvesFit, RanFits, ResultsFit, Ran, Results, Fits, Same, OneSplit,
                    Raw, Unmerged, Combined, Agree
<1> QED BY <1>2, <1>3, <1>6, <1>7, <1>8, ScriptGoesOn DEF MemFits

\* The top model of a split that is still trusted is not written by the later stages.
LEMMA TopStays ==
  ASSUME InScript, UNCHANGED files, NEW k \in {3, 4, 5}, trusted' = trusted \ From(k), dumping' = Stage[k],
         \A w \in Entries(queue') : w[1][1] \in PrefixesOf(Stage[k])
  PROVE  /\ ("split" \in Live)' => "split" \in Live
         /\ ContentOf(Top)' \subseteq ContentOf(Top)
         /\ ("split" \in Live)' => Raw(ContentOf(Top)')
<1>1. \A w \in Entries(queue') : w[1][1] # "top"
  BY Stages, Prefixes
<1>2. ContentOf(Top)' \subseteq ContentOf(Top)
  BY <1>1, OthersShrink, ShrinkingSets DEF InScript, Top
<1>3. ("split" \in Live)' => "split" \in Live
  BY Stages DEF Live
<1>4. ASSUME "split" \in Live PROVE Raw(ContentOf(Top)')
  <2>1. Raw(ContentOf(Top \cup SymbolAndParams("base")))
    BY <1>4 DEF InScript, FilesFit, SplitFits
  <2>2. ContentOf(Top)' \subseteq ContentOf(Top \cup SymbolAndParams("base"))
    BY <1>2 DEF ContentOf
  <2> QED BY <2>1, <2>2, Fewer
<1> QED BY <1>2, <1>3, <1>4

LEMMA CalibrateAgrees ==
  ASSUME AgreeInv, ConfigsAssumption, Section("calibrate"), CalibrateSection
  PROVE  AgreeInv'
<1>0. InScript /\ Head(todo) = "calibrate" /\ TrustInv'
  BY ScriptFacts, CalibrateTrust DEF AgreeInv
<1>1. HalvesFit /\ TopFits /\ FilesFit /\ RanFits /\ mem \in Objects /\ queue = <<>> /\ chain.driver # "V3"
      /\ Live = trusted /\ status = "running" /\ cfg.start \in 0 .. 5 /\ cfg.keys \in BOOLEAN
      /\ mem.model \in SUBSET Origin /\ mem.base \in SUBSET Origin /\ run \in Nat
  BY <1>0 DEF InScript, MemFits, InSection
<1>2. mem.inputs_ext = {}
  BY <1>0, NotYet
<1>3. CASE cfg.start < 3
  <2> DEFINE src == IF cfg.keys THEN mem.base ELSE mem.model
             mrt == Calibrated(NewMrt(src), run)
             writes == MrtSave("calibrate", mrt)
  <2>1. /\ mem' = [mem EXCEPT !.mrt = mrt] /\ queue' = Dump("calibrate", writes)
        /\ dumping' = "calibrate" /\ todo' = Tail(todo)
        /\ UNCHANGED <<files, cfg, status, run, deaths, chain, used>>
        /\ trusted' = trusted \ From(3)
    BY <1>0, <1>1, <1>3 DEF CalibrateSection, Anew, Finish
  <2>2. src \in SUBSET Origin /\ OneSplit(src) /\ Raw(src)
    <3>1. OneSplit(mem.base)
      BY <1>1, Fewer DEF HalvesFit
    <3> QED BY <1>1, <3>1 DEF HalvesFit
  <2>3. \A U : OneSplit(mem.base \cup U) /\ cfg.keys => OneSplit(src \cup U)
    OBVIOUS
  <2> HIDE DEF src
  <2>4. /\ Same(mrt.model \cup mrt.ext) /\ Unmerged(mrt.model \cup mrt.ext)
        /\ Inherits(mrt.model \cup mrt.ext, src) /\ mrt.old = "old" /\ mrt \in Mrt
    BY <1>1, <2>2, CalibratedFits
  <2> HIDE DEF mrt
  <2>5. \A U : OneSplit(src \cup U) => OneSplit((mrt.model \cup mrt.ext) \cup U)
    BY <2>4, OneSplitFrom
  <2>6. "calibrate" \in Prefix
    BY DEF Prefix
  <2>7. \A w \in Entries(queue') : w[1][1] \in PrefixesOf(Stage[3])
    <3>1. \A w \in Entries(writes) : w[1][1] = "calibrate"
      BY <2>4, <2>6, SaveNames, Types
    <3>2. Entries(queue') = {} \/ Entries(queue') = Entries(writes)
      BY <2>1, EntriesOf DEF Dump
    <3> QED BY <3>1, <3>2, Stages, Prefixes
  <2>8. /\ ("split" \in Live)' => "split" \in Live
        /\ ContentOf(Top)' \subseteq ContentOf(Top)
        /\ ("split" \in Live)' => Raw(ContentOf(Top)')
    BY <1>0, <2>1, <2>7, TopStays, Stages
  <2>9. ASSUME ("split" \in Live)'
        PROVE  /\ OneSplit((mrt.model \cup mrt.ext) \cup ContentOf(Top)')
               /\ OneSplit(mem.base \cup ContentOf(Top)')
    <3>1. "split" \in Live
      BY <2>8, <2>9
    <3>2. cfg.keys
      BY <1>0, <1>1, <1>3, <3>1 DEF TopFits, Before, InScript
    <3>3. OneSplit(mem.base \cup ContentOf(Top)) /\ mem.base \cup ContentOf(Top)' \subseteq mem.base \cup ContentOf(Top)
      BY <1>1, <2>8, <3>1 DEF TopFits
    <3>4. OneSplit(mem.base \cup ContentOf(Top)')
      BY <3>3, Fewer
    <3> QED BY <2>3, <2>5, <3>2, <3>4
  <2>10. queue' # <<>> => CalibrateFits'
    <3> SUFFICES ASSUME queue' # <<>> PROVE CalibrateFits'
      OBVIOUS
    <3> DEFINE s == "calibrate"
               others == {}
    <3>1. Entries(queue') = Entries(MrtSave(s, mrt)) \cup others /\ s \in Prefix
      BY <2>1, <2>6 DEF Dump
    <3>2. (IF chain.driver = "V3" THEN Split(s) ELSE "split" \in Live)' =>
            OneSplit((mrt.model \cup mrt.ext) \cup ContentOf(Top)') /\ Raw(ContentOf(Top)')
      BY <1>1, <2>1, <2>8, <2>9
    <3>4. \A w \in others : w[1] \notin WithExt(s)
      OBVIOUS
    <3> HIDE DEF others, s
    <3>5. FitsTop(s)'
      BY <2>4, <3>1, <3>2, <3>4, SavedFitsTop
    <3>3. FitsTop("calibrate")'
      BY <3>5 DEF s
    <3> QED BY <3>3 DEF CalibrateFits
  <2>11. FilesFit'
    BY <1>1, <2>1, <2>7, <2>10, ScriptStage, Stages
  <2> DEFINE t == mem.top
  <2>12. Fits(mrt.model \cup mrt.ext, t) /\ OneSplit(mem.base \cup t) /\ (~ cfg.keys => t = {})
    <3>1. OneSplit(mem.base \cup t) /\ Raw(t) /\ (~ cfg.keys => t = {})
      BY <1>1 DEF HalvesFit
    <3>2. CASE cfg.keys
      BY <2>3, <2>4, <2>5, <3>1, <3>2 DEF Fits
    <3>3. CASE ~ cfg.keys
      BY <2>4, <3>1, <3>3, FitsNone
    <3> QED BY <3>1, <3>2, <3>3
  <2> DEFINE x == {}
  <2>13. mem' = [mem EXCEPT !.mrt = mrt, !.top = t, !.inputs_ext = x]
    BY <1>1, <1>2, <2>1 DEF Objects
  <2>14. x \subseteq mrt.ext /\ (Head(todo) = "calibrate" => x = {}) /\ cfg.start < 5
         /\ todo' = Tail(todo) /\ dumping' = Head(todo) /\ UNCHANGED <<cfg, status, used>>
         /\ Head(todo) \in {"calibrate", "quantize"} /\ Fits(mrt.model \cup mrt.ext, t)
    BY <1>0, <1>1, <1>3, <2>1, <2>12
  <2> HIDE DEF t, x
  <2> QED BY <1>0, <2>4, <2>9, <2>11, <2>12, <2>13, <2>14, BoundAgrees
<1>4. CASE cfg.start = 3
  <2> DEFINE objects == [mem EXCEPT !.mrt = MrtLoad("calibrate")]
  <2>1. CASE Fail("checkpoint")
    BY <1>1, <2>1, FailingAgrees
  <2>2. CASE /\ Finish(IF cfg.keys THEN [objects EXCEPT !.top = ModelLoad("top")] ELSE objects, <<>>)
             /\ UNCHANGED <<trusted, used>>
    <3>1. objects = [mem EXCEPT !.mrt = MrtLoad(Stage[3]), !.inputs_ext = {}]
      BY <1>1, <1>2, Stages DEF Objects
    <3>2. Section(Stage[3])
      BY Stages
    <3> DEFINE x == {}
               loaded == [mem EXCEPT !.mrt = MrtLoad(Stage[3]), !.inputs_ext = x]
    <3>3. /\ Finish(IF cfg.keys THEN [loaded EXCEPT !.top = ModelLoad("top")] ELSE loaded, <<>>)
          /\ UNCHANGED <<trusted, used>>
      BY <2>2, <3>1
    <3> QED BY <1>0, <1>4, <3>2, <3>3, LoadAgrees
  <2> QED BY <1>4, <2>1, <2>2 DEF CalibrateSection, CheckpointWithTop, Checkpoint
<1>5. CASE cfg.start > 3
  BY <1>0, <1>1, <1>5, SkipAgrees DEF CalibrateSection
<1> QED BY <1>1, <1>3, <1>4, <1>5

LEMMA QuantizeAgrees ==
  ASSUME AgreeInv, ConfigsAssumption, Section("quantize"), QuantizeSection
  PROVE  AgreeInv'
<1>0. InScript /\ Head(todo) = "quantize" /\ TrustInv'
  BY ScriptFacts, QuantizeTrust DEF AgreeInv
<1>1. HalvesFit /\ TopFits /\ FilesFit /\ RanFits /\ mem \in Objects /\ queue = <<>> /\ chain.driver # "V3"
      /\ Live = trusted /\ status = "running" /\ cfg.start \in 0 .. 5 /\ cfg.keys \in BOOLEAN
      /\ mem.mrt \in Mrt /\ run \in Nat
  BY <1>0 DEF InScript, MemFits, InSection, Objects
<1>3. CASE cfg.start < 4
  <2> DEFINE mrt == QuantizedMrt(mem.mrt, run)
             writes == MrtSave("quantize", mrt) \o Scales(mrt.ext)
  <2>1. /\ mem' = [mem EXCEPT !.mrt = mrt, !.inputs_ext = mrt.ext] /\ queue' = Dump("quantize", writes)
        /\ dumping' = "quantize" /\ todo' = Tail(todo)
        /\ UNCHANGED <<files, cfg, status, run, deaths, chain, used>>
        /\ trusted' = trusted \ From(4)
    BY <1>0, <1>1, <1>3 DEF QuantizeSection, Anew, Finish, Scales
  <2>2. Same(Ran) /\ Unmerged(Ran) /\ mem.mrt.old = "old" /\ OneSplit(Ran \cup mem.top) /\ Raw(mem.top)
    BY <1>1 DEF RanFits, Fits
  <2>4. /\ Same(mrt.model \cup mrt.ext) /\ Unmerged(mrt.model \cup mrt.ext)
        /\ Inherits(mrt.model \cup mrt.ext, Ran) /\ mrt.old = "old" /\ mrt \in Mrt
    BY <1>1, <2>2, QuantizedFits DEF Ran
  <2> HIDE DEF mrt
  <2>5. \A U : OneSplit(Ran \cup U) => OneSplit((mrt.model \cup mrt.ext) \cup U)
    BY <2>4, OneSplitFrom
  <2>6. "quantize" \in Prefix /\ mrt.ext \in SUBSET Origin
    BY <2>4 DEF Prefix, Mrt
  <2> DEFINE others == {<<<<"all", "ext">>, mrt.ext>>}
  <2>3. Entries(writes) = Entries(MrtSave("quantize", mrt)) \cup others
    <3> DEFINE e == mrt.ext
               more == Scales(e)
               s == "quantize"
    <3>1. more \in Writes /\ Entries(more) = {<<<<"all", "ext">>, e>>}
      BY <2>6, LastWrites
    <3> HIDE DEF more, e
    <3>2. Entries(MrtSave(s, mrt) \o more) = Entries(MrtSave(s, mrt)) \cup Entries(more)
      BY <2>4, <2>6, <3>1, ObjectWrites
    <3> QED BY <3>1, <3>2 DEF more, e
  <2>7. \A w \in Entries(queue') : w[1][1] \in PrefixesOf(Stage[4])
    <3>3. \A w \in Entries(MrtSave("quantize", mrt)) : w[1][1] = "quantize"
      BY <2>4, <2>6, SaveNames
    <3>1. \A w \in Entries(writes) : w[1][1] \in {"quantize", "all"}
      BY <2>3, <3>3
    <3>2. Entries(queue') = {} \/ Entries(queue') = Entries(writes)
      BY <2>1, EntriesOf DEF Dump
    <3> QED BY <3>1, <3>2, Stages, Prefixes
  <2>8. /\ ("split" \in Live)' => "split" \in Live
        /\ ContentOf(Top)' \subseteq ContentOf(Top)
        /\ ("split" \in Live)' => Raw(ContentOf(Top)')
    BY <1>0, <2>1, <2>7, TopStays, Stages
  <2>9. ASSUME ("split" \in Live)'
        PROVE  /\ OneSplit((mrt.model \cup mrt.ext) \cup ContentOf(Top)')
               /\ OneSplit(mem.base \cup ContentOf(Top)')
    <3>1. "split" \in Live
      BY <2>8, <2>9
    <3>3. /\ OneSplit(mem.base \cup ContentOf(Top)) /\ OneSplit(Ran \cup ContentOf(Top))
          /\ mem.base \cup ContentOf(Top)' \subseteq mem.base \cup ContentOf(Top)
          /\ Ran \cup ContentOf(Top)' \subseteq Ran \cup ContentOf(Top)
      BY <1>1, <2>8, <3>1 DEF TopFits
    <3>4. OneSplit(mem.base \cup ContentOf(Top)') /\ OneSplit(Ran \cup ContentOf(Top)')
      BY <3>3, Fewer
    <3> QED BY <2>5, <3>4
  <2>10. queue' # <<>> => QuantizeFits'
    <3> SUFFICES ASSUME queue' # <<>> PROVE QuantizeFits'
      OBVIOUS
    <3> DEFINE s == "quantize"
    <3>1. Entries(queue') = Entries(MrtSave(s, mrt)) \cup others /\ s \in Prefix
      BY <2>1, <2>3, <2>6 DEF Dump
    <3>2. (IF chain.driver = "V3" THEN Split(s) ELSE "split" \in Live)' =>
            OneSplit((mrt.model \cup mrt.ext) \cup ContentOf(Top)') /\ Raw(ContentOf(Top)')
      BY <1>1, <2>1, <2>8, <2>9
    <3>4. \A w \in others : w[1] \notin WithExt(s)
      BY DEF WithExt, SymbolAndParams
    <3> HIDE DEF others, s
    <3>5. FitsTop(s)'
      BY <2>4, <3>1, <3>2, <3>4, SavedFitsTop
    <3>3. FitsTop("quantize")'
      BY <3>5 DEF s
    <3> QED BY <3>3 DEF QuantizeFits
  <2>11. FilesFit'
    BY <1>1, <2>1, <2>7, <2>10, ScriptStage, Stages
  <2> DEFINE t == mem.top
             x == mrt.ext
  <2>12. Fits(mrt.model \cup mrt.ext, t) /\ OneSplit(mem.base \cup t) /\ (~ cfg.keys => t = {})
    <3>1. OneSplit(mem.base \cup t) /\ (~ cfg.keys => t = {})
      BY <1>1 DEF HalvesFit
    <3>2. Fits(mrt.model \cup mrt.ext, t)
      BY <2>2, <2>4, <2>5 DEF Fits
    <3> QED BY <3>1, <3>2
  <2>13. mem' = [mem EXCEPT !.mrt = mrt, !.top = t, !.inputs_ext = x]
    BY <1>1, <2>1 DEF Objects
  <2>14. x \subseteq mrt.ext /\ (Head(todo) = "calibrate" => x = {}) /\ cfg.start < 5
         /\ todo' = Tail(todo) /\ dumping' = Head(todo) /\ UNCHANGED <<cfg, status, used>>
         /\ Head(todo) \in {"calibrate", "quantize"}
    BY <1>0, <1>1, <1>3, <2>1
  <2> HIDE DEF t, x
  <2> QED BY <1>0, <2>4, <2>9, <2>11, <2>12, <2>13, <2>14, BoundAgrees
<1>4. CASE cfg.start = 4
  <2> DEFINE objects == [mem EXCEPT !.mrt = MrtLoad("quantize"), !.inputs_ext = MrtLoad("quantize").ext]
  <2>0. LoadQuantized = objects
    BY DEF LoadQuantized
  <2>1. CASE Fail("checkpoint")
    BY <1>1, <2>1, FailingAgrees
  <2>2. CASE /\ Finish(IF cfg.keys THEN [objects EXCEPT !.top = ModelLoad("top")] ELSE objects, <<>>)
             /\ UNCHANGED <<trusted, used>>
    <3>2. Section(Stage[4])
      BY Stages
    <3> DEFINE x == MrtLoad(Stage[4]).ext
               loaded == [mem EXCEPT !.mrt = MrtLoad(Stage[4]), !.inputs_ext = x]
    <3>3. /\ Finish(IF cfg.keys THEN [loaded EXCEPT !.top = ModelLoad("top")] ELSE loaded, <<>>)
          /\ UNCHANGED <<trusted, used>>
      BY <2>2, Stages
    <3> QED BY <1>0, <1>4, <3>2, <3>3, LoadAgrees
  <2> QED BY <1>4, <2>0, <2>1, <2>2 DEF QuantizeSection, CheckpointWithTop, Checkpoint
<1>5. CASE cfg.start > 4
  BY <1>0, <1>1, <1>5, SkipAgrees DEF QuantizeSection
<1> QED BY <1>1, <1>3, <1>4, <1>5

\* Results are bound that agree with each other and with the object.
LEMMA ConcludedAgrees ==
  ASSUME InScript, TrustInv', FilesFit', Head(todo) \in {"merge", "evaluate", "compile"},
         NEW q, NEW o, NEW x, mem' = [mem EXCEPT !.qmodel = q, !.oscales = o, !.inputs_ext = x],
         Combined((q \cup o \cup x) \cup mem.mrt.ext), used' \subseteq (q \cup o \cup x) \cup mem.mrt.ext,
         ("split" \in Live)' => "split" \in Live, ContentOf(Top)' \subseteq ContentOf(Top),
         todo' = Tail(todo), dumping' = Head(todo), UNCHANGED <<cfg, status>>
  PROVE  AgreeInv'
<1>1. HalvesFit /\ RanFits /\ TopFits /\ mem \in Objects
  BY DEF InScript, MemFits, InSection
<1>2. /\ mem'.model = mem.model /\ mem'.base = mem.base /\ mem'.top = mem.top /\ mem'.mrt = mem.mrt
      /\ mem'.qmodel = q /\ mem'.oscales = o /\ mem'.inputs_ext = x
  BY <1>1 DEF Objects
<1>3. HalvesFit' /\ RanFits'
  BY <1>1, <1>2 DEF HalvesFit, RanFits, Ran, Fits, Same, OneSplit, Raw, Unmerged
<1>4. ResultsFit'
  BY <1>2 DEF ResultsFit, Results, Combined, Agree
<1>5. todo' # <<>> => Head(todo') \in Closing
  BY NextSection
<1>6. todo' # <<>> => Head(todo') \notin From(1)
  BY <1>5, Stages DEF Closing
<1>7. Unbound' /\ ~ Before({"calibrate"})'
  BY <1>6, Stages DEF Unbound, Before
<1>8. TopFits'
  <2>1. ASSUME "split" \in Live
        PROVE  OneSplit(Ran \cup ContentOf(Top)') /\ OneSplit(mem.base \cup ContentOf(Top)')
    <3>1. OneSplit(Ran \cup ContentOf(Top)) /\ OneSplit(mem.base \cup ContentOf(Top))
      BY <1>1, <2>1 DEF TopFits
    <3>2. /\ Ran \cup ContentOf(Top)' \subseteq Ran \cup ContentOf(Top)
          /\ mem.base \cup ContentOf(Top)' \subseteq mem.base \cup ContentOf(Top)
      OBVIOUS
    <3> QED BY <3>1, <3>2, Fewer
  <2>2. Ran' = Ran /\ mem'.base = mem.base
    BY <1>2 DEF Ran
  <2> QED BY <1>7, <2>1, <2>2 DEF TopFits, OneSplit
<1> QED BY <1>3, <1>4, <1>7, <1>8, ScriptGoesOn DEF MemFits

LEMMA MergeAgrees ==
  ASSUME AgreeInv, ConfigsAssumption, Section("merge"), MergeSection
  PROVE  AgreeInv'
<1>0. InScript /\ Head(todo) = "merge" /\ TrustInv'
  BY ScriptFacts, MergeTrust DEF AgreeInv
<1>1. HalvesFit /\ TopFits /\ FilesFit /\ RanFits /\ mem \in Objects /\ queue = <<>> /\ chain.driver # "V3"
      /\ Live = trusted /\ status = "running" /\ cfg.start \in 0 .. 5 /\ cfg.keys \in BOOLEAN
      /\ mem.mrt \in Mrt /\ mem.top \in SUBSET Origin
  BY <1>0 DEF InScript, MemFits, InSection, Objects
<1>2. /\ used = {} /\ mem.qmodel = {} /\ mem.oscales = {} /\ mem.inputs_ext \subseteq mem.mrt.ext
      /\ cfg.start = 5 => mem.mrt = NoMrt
  BY <1>0, NotYet, Stages
<1>3. CASE ~ cfg.keys /\ cfg.start # 5
  <2> DEFINE q == mem.mrt.model
             o == mem.mrt.ext
             x == mem.inputs_ext
  <2>1. /\ mem' = [mem EXCEPT !.qmodel = q, !.oscales = o] /\ queue' = <<>>
        /\ todo' = Tail(todo) /\ dumping' = Head(todo)
        /\ UNCHANGED <<files, cfg, status, chain, used, trusted>>
    BY <1>1, <1>3 DEF MergeSection, Finish
  <2>2. mem' = [mem EXCEPT !.qmodel = q, !.oscales = o, !.inputs_ext = x]
    BY <1>1, <2>1 DEF Objects
  <2>3. Combined((q \cup o \cup x) \cup mem.mrt.ext)
    <3>1. Same(Ran) /\ Unmerged(Ran)
      BY <1>1 DEF RanFits, Fits
    <3>2. Combined(Ran)
      BY <3>1, FitsCombined
    <3>3. (q \cup o \cup x) \cup mem.mrt.ext \subseteq Ran
      BY <1>2 DEF Ran
    <3> QED BY <3>2, <3>3, Fewer
  <2>4. FilesFit' /\ Live' = Live /\ ContentOf(Top)' = ContentOf(Top)
    BY <1>1, <2>1, Quiet
  <2> HIDE DEF q, o, x
  <2> QED BY <1>0, <1>2, <2>1, <2>2, <2>3, <2>4, ConcludedAgrees
<1>4. CASE Fail("config")
  BY <1>1, <1>4, FailingAgrees
<1>5. CASE cfg.keys /\ cfg.start < 5 /\ cfg.deps
  <2> DEFINE q == merge_model(mem.mrt, mem.top)
             o == mem.mrt.ext
             writes == ModelSave("all", q) \o Scales(o)
  <2>1. /\ mem' = [mem EXCEPT !.qmodel = q, !.oscales = o, !.inputs_ext = o]
        /\ queue' = Dump("merge", writes)
        /\ todo' = Tail(todo) /\ dumping' = "merge" /\ used' = q
        /\ UNCHANGED <<files, cfg, status, chain>> /\ trusted' = trusted \ From(5)
    BY <1>0, <1>1, <1>5 DEF MergeSection, Finish, Scales
  <2>2. Combined(q \cup o)
    BY <1>1, MergedFits DEF RanFits, Ran
  <2>3. q \in SUBSET Origin /\ o \in SUBSET Origin
    BY <1>1, Types DEF Mrt
  <2> HIDE DEF q, o
  <2>4. Entries(writes) = {<<f, q>> : f \in SymbolAndParams("all")} \cup {<<<<"all", "ext">>, o>>}
    <3> DEFINE s == "all"
               more == Scales(o)
    <3>1. more \in Writes /\ Entries(more) = {<<<<"all", "ext">>, o>>} /\ s \in Prefix
      BY <2>3, LastWrites DEF Prefix
    <3> HIDE DEF more, s
    <3>2. Entries(ModelSave(s, q) \o more) = Entries(ModelSave(s, q)) \cup Entries(more)
      BY <2>3, <3>1, ObjectWrites, Types
    <3>3. Entries(ModelSave(s, q)) = {<<f, q>> : f \in SymbolAndParams(s)}
      BY <2>3, <3>1, Saves, Types
    <3> QED BY <3>1, <3>2, <3>3 DEF more, s
  <2>5. queue' # <<>> =>
          Entries(queue') = {<<f, q>> : f \in SymbolAndParams("all")} \cup {<<<<"all", "ext">>, o>>}
    BY <2>1, <2>4 DEF Dump
  <2>6. \A w \in Entries(queue') : w[1][1] = "all"
    BY <2>5, EntriesOf DEF SymbolAndParams
  <2> HIDE DEF writes
  <2>7. ASSUME queue' # <<>> PROVE MergeFits'
    <3>1. ContentOf(SymbolAndParams("all"))' \subseteq q
      <4> DEFINE s == "all"
      <4>1. \A f \in SymbolAndParams(s) : <<f, q>> \in Entries(queue')
        BY <2>5, <2>7
      <4>2. \A w \in Entries(queue') : w[1] \in SymbolAndParams(s) => w[2] \subseteq q
        BY <2>5, <2>7 DEF SymbolAndParams
      <4> HIDE DEF s
      <4>3. ContentOf(SymbolAndParams(s))' \subseteq q
        BY <4>1, <4>2, ModelWritten
      <4> QED BY <4>3 DEF s
    <3>2. Content(<<"all", "ext">>)' \subseteq o
      <4> DEFINE f == <<"all", "ext">>
                 w == <<f, o>>
      <4>1. w \in Entries(queue') /\ w[1] = f
        BY <2>5, <2>7
      <4>2. \A y \in Entries(queue') : y[1] = f => y[2] \subseteq o
        BY <2>5, <2>7 DEF SymbolAndParams
      <4> HIDE DEF w, f
      <4>3. Content(f)' \subseteq o
        BY <4>1, <4>2, WillHold
      <4> QED BY <4>3 DEF f
    <3>3. ContentOf(WithExt("all"))' \subseteq q \cup o
      BY <3>1, <3>2 DEF ContentOf, WithExt
    <3>4. Combined(ContentOf(WithExt("all"))')
      BY <2>2, <3>3, Fewer
    <3> QED BY <3>4 DEF MergeFits, Combined, Agree
  <2>8. \A w \in Entries(queue') : w[1][1] \in PrefixesOf(Stage[5])
    BY <2>6, Stages, Prefixes
  <2>9. FilesFit'
    BY <1>1, <2>1, <2>7, <2>8, ScriptStage, Stages
  <2>10. /\ ("split" \in Live)' => "split" \in Live
         /\ ContentOf(Top)' \subseteq ContentOf(Top)
    BY <1>0, <2>1, <2>8, TopStays, Stages
  <2> DEFINE x == o
  <2>11. /\ mem' = [mem EXCEPT !.qmodel = q, !.oscales = o, !.inputs_ext = x]
         /\ (q \cup o \cup x) \cup mem.mrt.ext = q \cup o
    BY <2>1 DEF o
  <2> HIDE DEF x
  <2>12. Combined((q \cup o \cup x) \cup mem.mrt.ext) /\ used' \subseteq (q \cup o \cup x) \cup mem.mrt.ext
         /\ dumping' = Head(todo)
    BY <1>0, <2>1, <2>2, <2>11
  <2> QED BY <1>0, <2>1, <2>9, <2>10, <2>11, <2>12, ConcludedAgrees
<1>6. CASE cfg.keys /\ cfg.start = 5 /\ Finish(LoadMerged, <<>>) /\ UNCHANGED <<trusted, used>>
  <2> DEFINE q == ModelLoad("all")
             o == files[<<"all", "ext">>]
             x == files[<<"all", "ext">>]
  <2>1. /\ mem' = [mem EXCEPT !.qmodel = q, !.oscales = o, !.inputs_ext = x] /\ queue' = <<>>
        /\ todo' = Tail(todo) /\ dumping' = Head(todo)
        /\ UNCHANGED <<files, cfg, status, chain, used, trusted>>
    BY <1>1, <1>6 DEF LoadMerged, Finish
  <2>2. "merge" \in Live
    BY <1>0, <1>1, <1>6, Stages DEF InScript, InSection, StartTrusted
  <2>3. Combined(ContentOf(WithExt("all")))
    BY <1>1, <2>2 DEF FilesFit, MergeFits
  <2>4. ContentOf(WithExt("all")) = q \cup o /\ x = o
    BY <1>1, NothingQueued
  <2>5. mem.mrt.ext = {}
    BY <1>2, <1>6 DEF NoMrt, Nothing
  <2> HIDE DEF q, o, x
  <2>6. (q \cup o \cup x) \cup mem.mrt.ext = q \cup o
    BY <2>4, <2>5
  <2>7. Combined((q \cup o \cup x) \cup mem.mrt.ext)
    BY <2>3, <2>4, <2>6
  <2>8. FilesFit' /\ Live' = Live /\ ContentOf(Top)' = ContentOf(Top)
    BY <1>1, <2>1, Quiet
  <2> QED BY <1>0, <1>2, <2>1, <2>7, <2>8, ConcludedAgrees
<1>7. CASE cfg.keys /\ cfg.start = 5 /\ Fail("checkpoint")
  BY <1>1, <1>7, FailingAgrees
<1> QED BY <1>1, <1>3, <1>4, <1>5, <1>6, <1>7 DEF MergeSection, Checkpoint

\* A step that writes the compiled model only.
LEMMA CompiledKept ==
  ASSUME FilesFit, queue = <<>>, UNCHANGED <<files, chain, trusted>>, dumping' \notin From(1),
         \A w \in Entries(queue') : w[1][1] = "cvm"
  PROVE  /\ FilesFit' /\ ContentOf(Top)' \subseteq ContentOf(Top)
         /\ \A s \in From(1) : (s \in Live)' => s \in Live
<1>1. \A p \in Prefix \ {"cvm"} : Shrinks(p)
  BY OthersShrink
<1>2. \A s \in From(1) : (s \in Live)' => s \in Live
  BY DEF Live
<1>3. Shrinks("top")
  BY <1>1 DEF Prefix
<1> QED BY <1>1, <1>2, <1>3, AllKept, ShrinkingSets DEF Top

LEMMA EvaluateAgrees ==
  ASSUME AgreeInv, ConfigsAssumption, Section("evaluate"), EvaluateSection
  PROVE  AgreeInv'
<1>0. InScript /\ Head(todo) = "evaluate" /\ TrustInv'
  BY ScriptFacts, EvaluateTrust DEF AgreeInv
<1>1. ResultsFit /\ FilesFit /\ mem \in Objects /\ queue = <<>>
  BY <1>0 DEF InScript, MemFits, InSection
<1> DEFINE q == mem.qmodel
           o == mem.oscales
           x == mem.inputs_ext
<1>2. /\ mem' = mem /\ queue' = <<>> /\ todo' = Tail(todo) /\ dumping' = Head(todo)
      /\ used' = q \cup o \cup x /\ UNCHANGED <<files, cfg, status, chain, trusted>>
  BY DEF EvaluateSection, Finish
<1>3. mem' = [mem EXCEPT !.qmodel = q, !.oscales = o, !.inputs_ext = x]
  BY <1>1, <1>2 DEF Objects
<1>4. Combined((q \cup o \cup x) \cup mem.mrt.ext) /\ used' \subseteq (q \cup o \cup x) \cup mem.mrt.ext
  BY <1>1, <1>2 DEF ResultsFit, Results
<1>5. FilesFit' /\ Live' = Live /\ ContentOf(Top)' = ContentOf(Top)
  BY <1>1, <1>2, Quiet
<1> HIDE DEF q, o, x
<1> QED BY <1>0, <1>2, <1>3, <1>4, <1>5, ConcludedAgrees

LEMMA CompileAgrees ==
  ASSUME AgreeInv, ConfigsAssumption, Section("compile"), CompileSection
  PROVE  AgreeInv'
<1>0. InScript /\ Head(todo) = "compile" /\ TrustInv'
  BY ScriptFacts, CompileTrust DEF AgreeInv
<1>1. ResultsFit /\ FilesFit /\ mem \in Objects /\ queue = <<>>
  BY <1>0 DEF InScript, MemFits, InSection
<1> DEFINE q == mem.qmodel
           o == mem.oscales
           x == mem.inputs_ext
<1>2. /\ mem' = mem /\ queue' = ModelSave("cvm", q) /\ todo' = Tail(todo) /\ dumping' = Head(todo)
      /\ used' = q \cup o \cup x /\ UNCHANGED <<files, cfg, status, chain, trusted>>
  BY DEF CompileSection, Finish
<1>3. mem' = [mem EXCEPT !.qmodel = q, !.oscales = o, !.inputs_ext = x]
  BY <1>1, <1>2 DEF Objects
<1>4. Combined((q \cup o \cup x) \cup mem.mrt.ext) /\ used' \subseteq (q \cup o \cup x) \cup mem.mrt.ext
  BY <1>1, <1>2 DEF ResultsFit, Results
<1>5. q \in SUBSET Origin
  BY <1>1 DEF Objects
<1> HIDE DEF q, o, x
<1>6. \A w \in Entries(queue') : w[1][1] = "cvm"
  BY <1>2, <1>5, CompiledWrites, Prefixes
<1>7. dumping' \notin From(1)
  BY <1>0, <1>2, Stages
<1>8. /\ FilesFit' /\ ContentOf(Top)' \subseteq ContentOf(Top)
      /\ ("split" \in Live)' => "split" \in Live
  BY <1>1, <1>2, <1>6, <1>7, CompiledKept, Stages
<1> QED BY <1>0, <1>2, <1>3, <1>4, <1>8, ConcludedAgrees

\* Nothing is left to run when the sample data is written.
LEMMA SampleAgrees ==
  ASSUME AgreeInv, ConfigsAssumption, cfg.driver # "V3", Compiled, SampleSection
  PROVE  AgreeInv'
<1>1. /\ status = "running" /\ queue = <<>> /\ FilesFit /\ MemFits /\ CompiledLast /\ todo = <<>>
  BY DEF AgreeInv, Compiled, CompiledLast
<1>2. TrustInv'
  BY SampleTrust DEF AgreeInv
<1>3. CASE Fail("unbound")
  BY <1>1, <1>3, FailingAgrees
<1>4. CASE /\ used' = used \cup mem.mrt.ext
           /\ queue' = << <<<<"cvm", "ext">>, mem.oscales>> >>
           /\ dumping' = "sample"
           /\ UNCHANGED <<files, mem, cfg, todo, status, run, deaths, trusted, chain>>
  <2>1. \A w \in Entries(queue') : w[1][1] = "cvm"
    BY <1>4, EntriesOf
  <2>2. /\ FilesFit' /\ ContentOf(Top)' \subseteq ContentOf(Top)
        /\ ("split" \in Live)' => "split" \in Live
    BY <1>1, <1>4, <2>1, CompiledKept, Stages
  <2>3. HalvesFit' /\ RanFits'
    BY <1>1, <1>4 DEF MemFits, HalvesFit, RanFits, Ran, Fits, Same, OneSplit, Raw, Unmerged
  <2>4. ResultsFit'
    BY <1>1, <1>4 DEF MemFits, ResultsFit, Results, Combined, Agree
  <2>5. Unbound' /\ CompiledLast' /\ ~ Before({"calibrate"})'
    BY <1>1, <1>4 DEF Unbound, Before, CompiledLast
  <2>6. TopFits'
    <3>1. ASSUME "split" \in Live
          PROVE  OneSplit(Ran \cup ContentOf(Top)') /\ OneSplit(mem.base \cup ContentOf(Top)')
      <4>1. OneSplit(Ran \cup ContentOf(Top)) /\ OneSplit(mem.base \cup ContentOf(Top))
        BY <1>1, <3>1 DEF MemFits, TopFits
      <4>2. /\ Ran \cup ContentOf(Top)' \subseteq Ran \cup ContentOf(Top)
            /\ mem.base \cup ContentOf(Top)' \subseteq mem.base \cup ContentOf(Top)
        BY <2>2
      <4> QED BY <4>1, <4>2, Fewer
    <3>2. Ran' = Ran /\ mem'.base = mem.base
      BY <1>4 DEF Ran
    <3> QED BY <2>2, <2>5, <3>1, <3>2 DEF TopFits, OneSplit
  <2> QED BY <1>2, <1>4, <2>2, <2>3, <2>4, <2>5, <2>6, StillAgrees DEF AgreeInv, MemFits
<1> QED BY <1>3, <1>4 DEF SampleSection

\* The steps of the scripts.
LEMMA ScriptAgrees ==
  ASSUME AgreeInv, ConfigsAssumption,
         \/ PREPARE \/ SPLIT_MODEL \/ CALIBRATION \/ QUANTIZATION \/ MERGE_MODEL
         \/ EVALUATION \/ COMPILATION \/ SAMPLE
         \/ V2_PREPARE \/ V2_SPLIT_MODEL \/ V2_CALIBRATION \/ V2_QUANTIZATION \/ V2_MERGE_MODEL
         \/ V2_EVALUATION \/ V2_COMPILATION \/ V2_SAMPLE
  PROVE  AgreeInv'
<1>0. \A stage : Main(stage) \/ V2(stage) => Section(stage)
  BY DEF Main, V2, Now, Section
<1>1. CASE PREPARE \/ V2_PREPARE
  BY <1>0, <1>1, PrepareAgrees DEF PREPARE, V2_PREPARE
<1>2. CASE SPLIT_MODEL \/ V2_SPLIT_MODEL
  BY <1>0, <1>2, SplitAgrees DEF SPLIT_MODEL, V2_SPLIT_MODEL
<1>3. CASE CALIBRATION
  BY <1>0, <1>3, CalibrateAgrees DEF CALIBRATION
<1>4. CASE V2_CALIBRATION
  <2>1. queue = <<>>
    BY <1>4 DEF V2_CALIBRATION, V2, Now
  <2>2. CASE Fail("slice_channel")
    BY <2>1, <2>2, FailingAgrees
  <2>3. CASE CalibrateSection
    BY <1>0, <1>4, <2>3, CalibrateAgrees DEF V2_CALIBRATION
  <2> QED BY <1>4, <2>2, <2>3 DEF V2_CALIBRATION
<1>5. CASE QUANTIZATION \/ V2_QUANTIZATION
  BY <1>0, <1>5, QuantizeAgrees DEF QUANTIZATION, V2_QUANTIZATION
<1>6. CASE MERGE_MODEL \/ V2_MERGE_MODEL
  BY <1>0, <1>6, MergeAgrees DEF MERGE_MODEL, V2_MERGE_MODEL
<1>7. CASE EVALUATION \/ V2_EVALUATION
  BY <1>0, <1>7, EvaluateAgrees DEF EVALUATION, V2_EVALUATION
<1>8. CASE COMPILATION \/ V2_COMPILATION
  BY <1>0, <1>8, CompileAgrees DEF COMPILATION, V2_COMPILATION
<1>9. CASE SAMPLE \/ V2_SAMPLE
  BY <1>9, SampleAgrees DEF SAMPLE, V2_SAMPLE
<1> QED BY <1>1, <1>2, <1>3, <1>4, <1>5, <1>6, <1>7, <1>8, <1>9

(***************************************************************************)
(* The stages of V3                                                        *)
(***************************************************************************)
\* What is known when a stage is the next to run.
InStages ==
  /\ InStage3 /\ TrustInv /\ FilesFit /\ FilesReady /\ cfg.driver = "V3"
  /\ queue = <<>> /\ status = "running" /\ todo # <<>> /\ Live = trusted
  /\ trusted \cap {"split", "merge"} = {}

LEMMA StageFacts ==
  ASSUME AgreeInv, ConfigsAssumption, NEW stage, Stage3(stage)
  PROVE  InStages /\ Head(todo) = stage
<1>1. InStage3
  BY Stage3Facts DEF AgreeInv
<1> QED BY <1>1, NothingQueued DEF AgreeInv, Stage3, InStages, InStage3, TrustInv

\* The stage after.
LEMMA NextStage ==
  ASSUME InStages, Tail(todo) # <<>>
  PROVE  /\ Head(todo) = "prepare" => Head(Tail(todo)) = "calibrate"
         /\ Head(todo) = "calibrate" => Head(Tail(todo)) = "quantize"
         /\ Head(todo) \in {"quantize", "merge", "evaluate"} => Head(Tail(todo)) \in Closing
         /\ Head(todo) # "compile"
<1>1. <<Head(todo), Head(Tail(todo))>> \in Follows("V3")
  BY NextFollows DEF InStages
<1> DEFINE pairs == {<<"prepare", "calibrate">>, <<"calibrate", "quantize">>, <<"evaluate", "compile">>}
<1>2. <<Head(todo), Head(Tail(todo))>> \in pairs \cup ({"merge"} \X Closing) \cup ({"quantize"} \X Closing)
  BY <1>1 DEF Follows
<1>3. CASE <<Head(todo), Head(Tail(todo))>> \in pairs
  BY <1>3 DEF Closing
<1>4. CASE <<Head(todo), Head(Tail(todo))>> \in {"merge"} \X Closing
  BY <1>4
<1>5. CASE <<Head(todo), Head(Tail(todo))>> \in {"quantize"} \X Closing
  BY <1>5
<1> QED BY <1>2, <1>3, <1>4, <1>5

\* The checkpoints of the earlier stages are kept, those of the later ones outdated.
LEMMA StageKeeps ==
  ASSUME InStages, UNCHANGED <<files, chain>>, NEW k \in {1, 3, 4},
         trusted' = trusted \ From(k), dumping' = Stage[k] \/ (k = 4 /\ dumping' = "unmerged"),
         \A w \in Entries(queue') : w[1][1] \in PrefixesOf(Stage[k]),
         k = 1 => PrepareFits',
         k = 3 => CalibrateFits',
         k = 4 /\ dumping' = "quantize" => QuantizeFits' /\ MergeFits'
  PROVE  FilesFit'
<1>1. /\ Live = trusted /\ Live' \subseteq (trusted \ From(k)) \cup {dumping'}
      /\ trusted \cap {"split", "merge"} = {}
      /\ PrepareFits /\ SplitFits /\ CalibrateFits /\ QuantizeFits /\ MergeFits
      /\ chain.driver = "V3" /\ chain' = chain /\ queue = <<>>
  BY NothingQueued DEF Live, InStages, InStage3, FilesFit
<1>2. \A p : (\A w \in Entries(queue') : w[1][1] # p) => Shrinks(p)
  BY <1>1, OthersShrink
<1>3. k # 1 => Shrinks("prepare") /\ Shrinks("top") /\ Shrinks("base")
  <2> SUFFICES ASSUME k # 1 PROVE Shrinks("prepare") /\ Shrinks("top") /\ Shrinks("base")
    OBVIOUS
  <2>1. \A w \in Entries(queue') : w[1][1] \notin {"prepare", "top", "base"}
    BY Stages, Prefixes
  <2> QED BY <1>2, <2>1
<1>4. PrepareFits'
  <2>1. CASE k # 1
    <3>1. ("prepare" \in Live)' => "prepare" \in Live
      BY <1>1, <2>1, Stages
    <3> QED BY <1>1, <1>3, <2>1, <3>1, PrepareKept
  <2> QED BY <2>1
<1>5. SplitFits'
  <2>1. ("split" \notin Live)'
    BY <1>1, Stages
  <2> QED BY <2>1 DEF SplitFits
<1>6. CalibrateFits'
  <2>1. CASE k = 1
    <3>1. ("calibrate" \notin Live)'
      BY <1>1, <2>1, Stages
    <3> QED BY <3>1 DEF CalibrateFits
  <2>2. CASE k = 4
    <3>1. \A w \in Entries(queue') : w[1][1] # "calibrate"
      BY <2>2, Stages, Prefixes
    <3>2. ("calibrate" \in Live)' => "calibrate" \in Live
      BY <1>1, <2>2, Stages
    <3>3. TopShrinks
      BY <1>1, <1>3, <2>2 DEF TopShrinks
    <3> QED BY <1>1, <1>2, <3>1, <3>2, <3>3, LaterKept
  <2> QED BY <2>1, <2>2
<1>7. QuantizeFits' /\ MergeFits'
  <2>1. CASE ~ (k = 4 /\ dumping' = "quantize")
    <3>1. ("quantize" \notin Live)' /\ ("merge" \notin Live)'
      BY <1>1, <2>1, Stages
    <3> QED BY <3>1 DEF QuantizeFits, MergeFits
  <2> QED BY <2>1
<1> QED BY <1>4, <1>5, <1>6, <1>7 DEF FilesFit

LEMMA StagesGoOn ==
  ASSUME InStages, TrustInv', FilesFit', FilesReady', OutputsAgree', UNCHANGED <<cfg, status>>
  PROVE  AgreeInv'
BY DEF AgreeInv, InStages

LEMMA UsedStill ==
  ASSUME AgreeInv, used' = used
  PROVE  OutputsAgree'
BY DEF AgreeInv, OutputsAgree, Agree

LEMMA prepareAgrees ==
  ASSUME AgreeInv, ConfigsAssumption, prepare
  PROVE  AgreeInv'
<1>0. InStages /\ Head(todo) = "prepare" /\ TrustInv'
  <2>1. Stage3("prepare")
    BY DEF prepare, V3, Now, Stage3
  <2> QED BY <2>1, StageFacts, prepareTrust DEF AgreeInv
<1>1. run \in Nat /\ chain.driver = "V3" /\ cfg.driver = "V3" /\ queue = <<>> /\ cfg.keys \in BOOLEAN
  BY <1>0 DEF InStages, InStage3
<1> DEFINE m == Prepare(run)
           s == split_model(m, run)
           top == s.top
           base == s.base
           whole == WholeWrites(m)
           all == whole \o HalfWrites(top, base)
<1>2. /\ mem' = mem /\ queue' = (IF cfg.keys THEN all ELSE whole) /\ dumping' = "prepare"
      /\ todo' = Tail(todo) /\ trusted' = trusted \ From(1)
      /\ UNCHANGED <<files, cfg, status, chain, used>>
  BY <1>0 DEF prepare, WholeWrites, HalfWrites, Anew, Finish
<1>3. OneSplit(m) /\ Raw(m) /\ m \in SUBSET Origin
  BY <1>1, Prepared, Types
<1>4. ~ HasKeys(m)
  BY DEF Prepare, HasKeys
<1> HIDE DEF m
<1>5. OneSplit(base \cup top) /\ Raw(base) /\ Raw(top) /\ base \in SUBSET Origin /\ top \in SUBSET Origin
  BY <1>1, <1>3, Halved, Types
<1> HIDE DEF s, top, base
<1>6. /\ Entries(whole) =
           {<<f, m>> : f \in SymbolAndParams("fixed")} \cup {<<f, m>> : f \in SymbolAndParams("prepare")}
           \cup {<<<<"prepare", "conf">>, m>>}
      /\ Entries(all) = Entries(whole) \cup
           {<<f, top>> : f \in SymbolAndParams("top")} \cup {<<f, base>> : f \in SymbolAndParams("base")}
           \cup {<<<<"prepare", "conf">>, base>>}
  BY <1>3, <1>5, PrepareWrites
<1> HIDE DEF whole, all
<1>7. \A w \in Entries(queue') : w[1][1] \in PrefixesOf(Stage[1])
  <2>1. \A w \in Entries(queue') : w[1][1] \in {"prepare", "fixed", "top", "base"}
    BY <1>2, <1>6 DEF SymbolAndParams
  <2> QED BY <2>1, Stages, Prefixes
<1>8. ContentOf(SymbolAndParams("prepare"))' \subseteq m
  <2> DEFINE p == "prepare"
  <2>1. \A f \in SymbolAndParams(p) : <<f, m>> \in Entries(queue')
    BY <1>2, <1>6
  <2>2. \A w \in Entries(queue') : w[1] \in SymbolAndParams(p) => w[2] \subseteq m
    BY <1>2, <1>6 DEF SymbolAndParams
  <2> HIDE DEF p
  <2>3. ContentOf(SymbolAndParams(p))' \subseteq m
    BY <2>1, <2>2, ModelWritten
  <2> QED BY <2>3 DEF p
<1>9. ASSUME ~ cfg.keys PROVE ~ Split("prepare")'
  <2> DEFINE f == <<"prepare", "conf">>
             w == <<f, m>>
  <2>1. w \in Entries(queue') /\ w[1] = f
    BY <1>2, <1>6, <1>9
  <2>2. \A y \in Entries(queue') : y[1] = f => y[2] \subseteq m
    BY <1>2, <1>6, <1>9 DEF SymbolAndParams
  <2> HIDE DEF w, f
  <2>3. Content(f)' \subseteq m
    BY <2>1, <2>2, WillHold
  <2> QED BY <1>4, <2>3 DEF f, Split, HasKeys
<1>10. ASSUME cfg.keys
       PROVE  ContentOf(Top \cup SymbolAndParams("base"))' \subseteq base \cup top
  <2>1. ContentOf(SymbolAndParams("top"))' \subseteq top
    <3> DEFINE p == "top"
    <3>1. \A f \in SymbolAndParams(p) : <<f, top>> \in Entries(queue')
      BY <1>2, <1>6, <1>10
    <3>2. \A w \in Entries(queue') : w[1] \in SymbolAndParams(p) => w[2] \subseteq top
      BY <1>2, <1>6, <1>10 DEF SymbolAndParams
    <3> HIDE DEF p
    <3>3. ContentOf(SymbolAndParams(p))' \subseteq top
      BY <3>1, <3>2, ModelWritten
    <3> QED BY <3>3 DEF p
  <2>2. ContentOf(SymbolAndParams("base"))' \subseteq base
    <3> DEFINE p == "base"
    <3>1. \A f \in SymbolAndParams(p) : <<f, base>> \in Entries(queue')
      BY <1>2, <1>6, <1>10
    <3>2. \A w \in Entries(queue') : w[1] \in SymbolAndParams(p) => w[2] \subseteq base
      BY <1>2, <1>6, <1>10 DEF SymbolAndParams
    <3> HIDE DEF p
    <3>3. ContentOf(SymbolAndParams(p))' \subseteq base
      BY <3>1, <3>2, ModelWritten
    <3> QED BY <3>3 DEF p
  <2> QED BY <2>1, <2>2 DEF ContentOf, Top
<1>11. PrepareFits'
  <2>1. OneSplit(ContentOf(SymbolAndParams("prepare"))') /\ Raw(ContentOf(SymbolAndParams("prepare"))')
    BY <1>3, <1>8, Fewer
  <2>2. ASSUME Split("prepare")'
        PROVE  /\ OneSplit(ContentOf(Top \cup SymbolAndParams("base"))')
               /\ Raw(ContentOf(Top \cup SymbolAndParams("base"))')
    <3>1. ContentOf(Top \cup SymbolAndParams("base"))' \subseteq base \cup top
      BY <1>9, <1>10, <2>2
    <3>2. Raw(base \cup top)
      BY <1>5 DEF Raw, Unmerged
    <3> QED BY <1>5, <3>1, <3>2, Fewer
  <2> QED BY <2>1, <2>2 DEF PrepareFits, OneSplit, Raw, Unmerged, Top
<1>12. FilesFit'
  BY <1>0, <1>2, <1>7, <1>11, StageKeeps, Stages
<1>13. FilesReady'
  <2>1. queue' # <<>>
    BY <1>2, <1>6, EntriesOf
  <2>2. ("prepare" \in Live)'
    BY <1>2, <2>1 DEF Live
  <2>3. todo' # <<>> => Head(todo') = "calibrate"
    BY <1>0, <1>2, NextStage
  <2> QED BY <2>2, <2>3 DEF FilesReady, Before, Closing
<1> QED BY <1>0, <1>2, <1>12, <1>13, StagesGoOn, UsedStill

\* The calibration finds a prepared model, split or not, and the top model of the same split.
LEMMA PreparedSource ==
  ASSUME InStages, Head(todo) = "calibrate"
  PROVE  LET conf == files[<<"prepare", "conf">>]
             source == IF HasKeys(conf) THEN "base" ELSE "prepare"
         IN  /\ ModelLoad(source) \in SUBSET Origin
             /\ OneSplit(ModelLoad(source)) /\ Raw(ModelLoad(source))
             /\ HasKeys(conf) => OneSplit(ModelLoad(source) \cup ContentOf(Top)) /\ Raw(ContentOf(Top))
<1> DEFINE conf == files[<<"prepare", "conf">>]
           source == IF HasKeys(conf) THEN "base" ELSE "prepare"
           m == ModelLoad(source)
<1>1. /\ PrepareFits /\ queue = <<>> /\ "prepare" \in Live /\ chain.driver = "V3"
      /\ files \in [File -> SUBSET Origin]
  BY DEF InStages, InStage3, FilesFit, FilesReady, Before
<1>2. Content(<<"prepare", "conf">>) = conf /\ ContentOf(SymbolAndParams(source)) = m
  BY <1>1, NothingQueued
<1>3. m \in SUBSET Origin
  BY <1>1, LoadTypes DEF Prefix
<1>4. CASE HasKeys(conf)
  <2>1. source = "base"
    BY <1>4
  <2>2. /\ OneSplit(ContentOf(Top \cup SymbolAndParams("base")))
        /\ Raw(ContentOf(Top \cup SymbolAndParams("base")))
    BY <1>1, <1>2, <1>4 DEF PrepareFits, Split
  <2>3. ContentOf(Top \cup SymbolAndParams("base")) = m \cup ContentOf(Top)
    BY <1>2, <2>1 DEF ContentOf
  <2> HIDE DEF m
  <2>4. OneSplit(m \cup ContentOf(Top)) /\ Raw(m \cup ContentOf(Top))
    BY <2>2, <2>3
  <2>5. OneSplit(m) /\ Raw(m) /\ Raw(ContentOf(Top))
    BY <2>4, Fewer
  <2> QED BY <1>3, <2>4, <2>5 DEF m
<1>5. CASE ~ HasKeys(conf)
  <2>1. source = "prepare"
    BY <1>5
  <2>2. OneSplit(m) /\ Raw(m)
    BY <1>1, <1>2, <2>1 DEF PrepareFits
  <2> QED BY <1>3, <1>5, <2>2
<1> QED BY <1>4, <1>5

\* A file that is written once.
LEMMA FileWritten ==
  ASSUME NEW f, NEW c, NEW others, Entries(queue') = others \cup {<<f, c>>}, \A w \in others : w[1] # f
  PROVE  Content(f)' \subseteq c
<1> DEFINE w == <<f, c>>
<1>1. w \in Entries(queue') /\ w[1] = f
  OBVIOUS
<1>2. \A y \in Entries(queue') : y[1] = f => y[2] \subseteq c
  OBVIOUS
<1> HIDE DEF w
<1> QED BY <1>1, <1>2, WillHold

LEMMA calibrateAgrees ==
  ASSUME AgreeInv, ConfigsAssumption, calibrate
  PROVE  AgreeInv'
<1>0. InStages /\ Head(todo) = "calibrate" /\ TrustInv'
  <2>1. Stage3("calibrate")
    BY DEF calibrate, V3, Now, Stage3
  <2> QED BY <2>1, StageFacts, calibrateTrust DEF AgreeInv
<1>1. run \in Nat /\ chain.driver = "V3" /\ cfg.driver = "V3" /\ queue = <<>>
      /\ files \in [File -> SUBSET Origin]
  BY <1>0 DEF InStages, InStage3
<1>2. CASE Fail("checkpoint")
  BY <1>1, <1>2, FailingAgrees
<1> DEFINE conf == files[<<"prepare", "conf">>]
           source == IF HasKeys(conf) THEN "base" ELSE "prepare"
           m == ModelLoad(source)
           mrt == Calibrated(NewMrt(m), run)
           last == << <<<<"calibrate", "conf">>, conf>> >>
           writes == MrtSave("calibrate", mrt) \o last
<1>3. CASE Anew(3, mem, writes)
  <2>1. /\ mem' = mem /\ queue' = writes /\ dumping' = "calibrate"
        /\ todo' = Tail(todo) /\ trusted' = trusted \ From(3)
        /\ UNCHANGED <<files, cfg, status, chain, used>>
    BY <1>0, <1>3 DEF Anew, Finish
  <2>2. /\ m \in SUBSET Origin /\ OneSplit(m) /\ Raw(m)
        /\ HasKeys(conf) => OneSplit(m \cup ContentOf(Top)) /\ Raw(ContentOf(Top))
    BY <1>0, PreparedSource
  <2>3. conf \in SUBSET Origin
    BY <1>1, ConfFiles
  <2> HIDE DEF m, conf
  <2>4. /\ Same(mrt.model \cup mrt.ext) /\ Unmerged(mrt.model \cup mrt.ext)
        /\ Inherits(mrt.model \cup mrt.ext, m) /\ mrt.old = "old" /\ mrt \in Mrt
    BY <1>1, <2>2, CalibratedFits
  <2> HIDE DEF mrt
  <2> DEFINE s == "calibrate"
             others == {<<<<"calibrate", "conf">>, conf>>}
  <2>5. last \in Writes /\ Entries(last) = others
    BY <2>3, ConfWrite
  <2>6. s \in Prefix
    BY DEF Prefix
  <2> HIDE DEF last, s
  <2>7. Entries(MrtSave(s, mrt) \o last) = Entries(MrtSave(s, mrt)) \cup others
    BY <2>4, <2>5, <2>6, ObjectWrites
  <2>8. Entries(queue') = Entries(MrtSave(s, mrt)) \cup others
    BY <2>1, <2>7 DEF s
  <2>9. \A w \in Entries(MrtSave(s, mrt)) : w[1][1] = s /\ w[1] \in WithExt(s)
    BY <2>4, <2>6, Saves, Types DEF SymbolAndParams, WithExt
  <2>10. \A w \in others : w[1] \notin WithExt(s)
    BY DEF WithExt, SymbolAndParams
  <2>11. \A w \in Entries(queue') : w[1][1] \in PrefixesOf(Stage[3])
    BY <2>8, <2>9, Stages, Prefixes DEF s
  <2>12. Shrinks("top")
    <3>1. \A w \in Entries(queue') : w[1][1] # "top"
      BY <2>11, Stages, Prefixes
    <3> QED BY <1>1, <2>1, <3>1, OthersShrink
  <2>13. ASSUME Split(s)'
         PROVE  OneSplit((mrt.model \cup mrt.ext) \cup ContentOf(Top)') /\ Raw(ContentOf(Top)')
    <3>1. Content(<<s, "conf">>)' \subseteq conf
      <4> DEFINE f == <<s, "conf">>
                 firsts == Entries(MrtSave(s, mrt))
      <4>1. Entries(queue') = firsts \cup {<<f, conf>>}
        BY <2>8 DEF s
      <4>2. \A w \in firsts : w[1] # f
        BY <2>9 DEF WithExt, SymbolAndParams
      <4> HIDE DEF f, firsts
      <4>3. Content(f)' \subseteq conf
        BY <4>1, <4>2, FileWritten
      <4> QED BY <4>3 DEF f
    <3>2. HasKeys(conf)
      BY <2>13, <3>1 DEF Split, HasKeys
    <3>3. ContentOf(Top)' \subseteq ContentOf(Top)
      BY <2>12, ShrinkingSets DEF Top
    <3>4. m \cup ContentOf(Top)' \subseteq m \cup ContentOf(Top)
      BY <3>3
    <3>5. OneSplit(m \cup ContentOf(Top)') /\ Raw(ContentOf(Top)')
      BY <2>2, <3>2, <3>3, <3>4, Fewer
    <3> QED BY <2>4, <3>5, OneSplitFrom
  <2> HIDE DEF others
  <2>14. FitsTop(s)'
    BY <1>1, <2>1, <2>4, <2>6, <2>8, <2>10, <2>13, SavedFitsTop
  <2>15. CalibrateFits'
    BY <2>14 DEF CalibrateFits, s
  <2>16. FilesFit'
    BY <1>0, <2>1, <2>11, <2>15, StageKeeps, Stages
  <2>17. FilesReady'
    <3>1. queue' # <<>>
      BY <2>5, <2>8, EntriesOf DEF others
    <3>2. ("calibrate" \in Live)'
      BY <2>1, <3>1 DEF Live
    <3>3. todo' # <<>> => Head(todo') = "quantize"
      BY <1>0, <2>1, NextStage
    <3> QED BY <3>2, <3>3 DEF FilesReady, Before, Closing
  <2> QED BY <1>0, <2>1, <2>16, <2>17, StagesGoOn, UsedStill
<1> QED BY <1>2, <1>3 DEF calibrate

LEMMA StageLoads ==
  ASSUME InStages, NEW p \in Prefix, FitsTop(p)
  PROVE  LET m == MrtLoad(p)
         IN  /\ m \in Mrt /\ m.old = "old"
             /\ Fits(m.model \cup m.ext, {})
             /\ HasKeys(files[<<p, "conf">>]) => Fits(m.model \cup m.ext, ContentOf(Top))
             /\ m.model \cup m.ext = ContentOf(WithExt(p))
<1> DEFINE m == MrtLoad(p)
<1>1. queue = <<>> /\ files \in [File -> SUBSET Origin] /\ chain.driver = "V3"
  BY DEF InStages, InStage3
<1>2. m \in Mrt
  BY <1>1, LoadTypes
<1>3. ContentOf(WithExt(p)) = ModelLoad(p) \cup files[<<p, "ext">>] /\ Content(<<p, "ext">>) = files[<<p, "ext">>]
      /\ Content(<<p, "conf">>) = files[<<p, "conf">>]
  BY <1>1, NothingQueued
<1>4. m.model = ModelLoad(p) /\ m.ext = files[<<p, "ext">>]
      /\ m.old = (IF \E o \in files[<<p, "ext">>] : o.names = "new" THEN "new" ELSE "old")
  BY DEF MrtLoad, NewMrt
<1>5. m.old = "old"
  BY <1>3, <1>4 DEF FitsTop, Old
<1>6. m.model \cup m.ext = ContentOf(WithExt(p))
  BY <1>3, <1>4
<1> HIDE DEF m
<1>7. Fits(m.model \cup m.ext, {}) /\ (HasKeys(files[<<p, "conf">>]) => Fits(m.model \cup m.ext, ContentOf(Top)))
  BY <1>1, <1>3, <1>6 DEF FitsTop, Split
<1> QED BY <1>2, <1>5, <1>6, <1>7 DEF m

LEMMA quantizeAgrees ==
  ASSUME AgreeInv, ConfigsAssumption, quantize
  PROVE  AgreeInv'
<1>0. InStages /\ Head(todo) = "quantize" /\ TrustInv'
  <2>1. Stage3("quantize")
    BY DEF quantize, V3, Now, Stage3
  <2> QED BY <2>1, StageFacts, quantizeTrust DEF AgreeInv
<1>1. run \in Nat /\ chain.driver = "V3" /\ cfg.driver = "V3" /\ queue = <<>>
      /\ files \in [File -> SUBSET Origin] /\ "calibrate" \in Live /\ mem \in Objects
  BY <1>0 DEF InStages, InStage3, FilesReady, Before
<1>2. CASE Fail("checkpoint")
  BY <1>1, <1>2, FailingAgrees
<1> DEFINE conf == files[<<"calibrate", "conf">>]
           old == MrtLoad("calibrate")
           mrt == QuantizedMrt(old, run)
           last == LastFiles(mrt.ext, conf)
           writes == MrtSave("quantize", mrt) \o last
           split == HasKeys(conf)
           Goes == /\ mem' = [mem EXCEPT !.mrt = mrt, !.conf = conf] /\ queue' = writes
                   /\ todo' = (IF split THEN <<"merge">> \o Tail(todo) ELSE Tail(todo))
                   /\ dumping' = (IF split THEN "unmerged" ELSE "quantize")
                   /\ trusted' = trusted \ From(4)
                   /\ UNCHANGED <<files, cfg, status, chain, used>>
<1>3. Goes \/ Fail("checkpoint")
  BY DEF quantize, LastFiles
<1>4. CASE Goes
  <2>1. FitsTop("calibrate") /\ "calibrate" \in Prefix
    BY <1>0, <1>1 DEF InStages, FilesFit, CalibrateFits, Prefix
  <2>2. /\ old \in Mrt /\ old.old = "old" /\ Fits(old.model \cup old.ext, {})
        /\ split => Fits(old.model \cup old.ext, ContentOf(Top))
    BY <1>0, <2>1, StageLoads
  <2>3. conf \in SUBSET Origin
    BY <1>1, ConfFiles
  <2> HIDE DEF old
  <2>4. /\ Same(mrt.model \cup mrt.ext) /\ Unmerged(mrt.model \cup mrt.ext)
        /\ Inherits(mrt.model \cup mrt.ext, old.model \cup old.ext) /\ mrt.old = "old" /\ mrt \in Mrt
    BY <1>1, <2>2, QuantizedFits DEF Fits
  <2> HIDE DEF mrt, conf
  <2> DEFINE s == "quantize"
             e == mrt.ext
             others == {<<<<"all", "ext">>, e>>, <<<<"quantize", "conf">>, conf>>}
  <2>5. last \in Writes /\ Entries(last) = others
    BY <2>3, <2>4, LastWrites DEF Mrt
  <2>6. s \in Prefix
    BY DEF Prefix
  <2>10. \A w \in others : w[1] \notin WithExt(s) /\ w[1][1] \in {"all", "quantize"}
    BY DEF WithExt, SymbolAndParams
  <2> HIDE DEF last, s
  <2>7. Entries(MrtSave(s, mrt) \o last) = Entries(MrtSave(s, mrt)) \cup others
    BY <2>4, <2>5, <2>6, ObjectWrites
  <2>8. Entries(queue') = Entries(MrtSave(s, mrt)) \cup others
    BY <1>4, <2>7 DEF s
  <2>9. \A w \in Entries(MrtSave(s, mrt)) : w[1][1] = s /\ w[1] \in WithExt(s)
    BY <2>4, <2>6, Saves, Types DEF SymbolAndParams, WithExt
  <2>11. \A w \in Entries(queue') : w[1][1] \in PrefixesOf(Stage[4])
    <3> HIDE DEF others
    <3> QED BY <2>8, <2>9, <2>10, Stages, Prefixes DEF s
  <2>12. Shrinks("top")
    <3>1. \A w \in Entries(queue') : w[1][1] # "top"
      BY <2>11, Stages, Prefixes
    <3> QED BY <1>1, <1>4, <3>1, OthersShrink
  <2>13. Split(s)' => split
    <3>1. Content(<<s, "conf">>)' \subseteq conf
      <4> DEFINE f == <<s, "conf">>
                 firsts == Entries(MrtSave(s, mrt)) \cup {<<<<"all", "ext">>, e>>}
      <4>1. Entries(queue') = firsts \cup {<<f, conf>>}
        BY <2>8 DEF s
      <4>2. \A w \in firsts : w[1] # f
        BY <2>9 DEF WithExt, SymbolAndParams, s
      <4> HIDE DEF f, firsts
      <4>3. Content(f)' \subseteq conf
        BY <4>1, <4>2, FileWritten
      <4> QED BY <4>3 DEF f
    <3> QED BY <3>1 DEF Split, HasKeys
  <2> HIDE DEF others
  <2>14. split => OneSplit((mrt.model \cup mrt.ext) \cup ContentOf(Top)') /\ Raw(ContentOf(Top)')
    <3> SUFFICES ASSUME split
                 PROVE  OneSplit((mrt.model \cup mrt.ext) \cup ContentOf(Top)') /\ Raw(ContentOf(Top)')
      OBVIOUS
    <3>1. ContentOf(Top)' \subseteq ContentOf(Top)
      BY <2>12, ShrinkingSets DEF Top
    <3>2. Fits(old.model \cup old.ext, ContentOf(Top)')
      BY <2>2, <3>1, FewerFit
    <3> QED BY <2>4, <3>2, OneSplitFrom DEF Fits
  <2>15. /\ Old(s)' /\ Fits(ContentOf(WithExt(s))', {})
         /\ split => Fits(ContentOf(WithExt(s))', ContentOf(Top)')
    <3>1. \A w \in others : w[1] \notin WithExt(s)
      BY <2>10
    <3>2. /\ Old(s)' /\ Fits(ContentOf(WithExt(s))', {})
          /\ \A U : OneSplit((mrt.model \cup mrt.ext) \cup U) /\ Raw(U) => Fits(ContentOf(WithExt(s))', U)
      BY <2>4, <2>6, <2>8, <3>1, SavedObjectFits
    <3> QED BY <2>14, <3>2
  <2>16. ~ split => QuantizeFits' /\ MergeFits'
    <3> SUFFICES ASSUME ~ split PROVE QuantizeFits' /\ MergeFits'
      OBVIOUS
    <3>1. ~ Split(s)' /\ chain'.driver = "V3" /\ dumping' = "quantize"
      BY <1>1, <1>4, <2>13
    <3>2. FitsTop(s)'
      BY <2>15, <3>1 DEF FitsTop, Fits, Same, OneSplit, Raw, Unmerged
    <3>3. ("merge" \notin Live)'
      BY <1>4, <3>1, Stages DEF Live
    <3> QED BY <3>1, <3>2, <3>3 DEF QuantizeFits, MergeFits, s
  <2>17. FilesFit'
    <3>1. dumping' = "quantize" => QuantizeFits' /\ MergeFits'
      BY <1>4, <2>16
    <3> QED BY <1>0, <1>4, <2>11, <3>1, StageKeeps, Stages
  <2>18. FilesReady'
    <3>1. queue' # <<>>
      BY <2>5, <2>8, EntriesOf DEF others
    <3>2. CASE split
      <4>1. Head(todo') = "merge"
        <5>1. Tail(todo) \in Seq(Steps)
          BY <1>0, Rest1 DEF InStages, TrustInv, TypeOK
        <5> QED BY <1>4, <3>2, <5>1
      <4>2. /\ Fits(mrt.model \cup mrt.ext, ContentOf(Top)') /\ mrt.old = "old"
            /\ Fits(ContentOf(WithExt("quantize"))', ContentOf(Top)') /\ Old("quantize")'
        BY <2>4, <2>14, <2>15, <3>2 DEF Fits, s
      <4>3. mem'.mrt = mrt
        BY <1>1, <1>4 DEF Objects
      <4> QED BY <4>1, <4>2, <4>3 DEF FilesReady, Before, Closing, Ran, Fits, Same, OneSplit, Raw, Unmerged
    <3>3. CASE ~ split
      <4>1. ("quantize" \in Live)'
        BY <1>4, <3>1, <3>3 DEF Live
      <4>2. todo' # <<>> => Head(todo') \in Closing
        BY <1>0, <1>4, <3>3, NextStage
      <4> QED BY <4>1, <4>2 DEF FilesReady, Before, Closing
    <3> QED BY <3>2, <3>3
  <2> QED BY <1>0, <1>4, <2>17, <2>18, StagesGoOn, UsedStill
<1> QED BY <1>2, <1>3, <1>4

LEMMA mergeAgrees ==
  ASSUME AgreeInv, ConfigsAssumption, merge
  PROVE  AgreeInv'
<1>0. InStages /\ Head(todo) = "merge" /\ TrustInv'
  <2>1. Stage3("merge")
    BY DEF merge, V3, Now, Stage3
  <2> QED BY <2>1, StageFacts, mergeTrust DEF AgreeInv
<1>1. /\ chain.driver = "V3" /\ cfg.driver = "V3" /\ queue = <<>>
      /\ files \in [File -> SUBSET Origin] /\ mem \in Objects /\ mem.mrt \in Mrt /\ mem.conf \in SUBSET Origin
      /\ Fits(Ran, ContentOf(Top)) /\ mem.mrt.old = "old"
      /\ Fits(ContentOf(WithExt("quantize")), ContentOf(Top)) /\ Old("quantize")
      /\ trusted = trusted \ From(4)
  <2>1. Merging
    BY <1>0 DEF InStages, InStage3, Merging
  <2>2. "quantize" \notin trusted /\ "merge" \notin trusted
    BY <1>0, <2>1 DEF InStages, TrustInv, MergeUntrusted
  <2> QED BY <1>0, <2>2, Stages DEF InStages, InStage3, FilesReady, Before, Objects
<1> DEFINE top == ModelLoad("top")
           q == merge_model(mem.mrt, top)
           o == mem.mrt.ext
           last == LastFiles(o, mem.conf)
           writes == ModelSave("all", q) \o last
           Goes == /\ used' = q /\ queue' = writes /\ dumping' = "quantize" /\ todo' = Tail(todo)
                   /\ UNCHANGED <<files, mem, cfg, status, chain, trusted>>
<1>2. Goes \/ Fail("config") \/ Fail("checkpoint")
  BY DEF merge, LastFiles
<1>3. CASE Goes
  <2>1. top \in SUBSET Origin /\ ContentOf(Top) = top
    BY <1>1, LoadTypes, NothingQueued DEF Prefix, Top
  <2> HIDE DEF top
  <2>2. Combined(q \cup o) /\ q \in SUBSET Origin /\ o \in SUBSET Origin
    BY <1>1, <2>1, MergedFits, Types DEF Ran, Mrt
  <2> HIDE DEF q, o
  <2> DEFINE c == mem.conf
             s == "all"
             firsts == {<<f, q>> : f \in SymbolAndParams("all")}
             others == {<<<<"all", "ext">>, o>>, <<<<"quantize", "conf">>, c>>}
  <2>3. last \in Writes /\ Entries(last) = others
    BY <1>1, <2>2, LastWrites
  <2>4. s \in Prefix
    BY DEF Prefix
  <2>5. Entries(ModelSave(s, q)) = firsts
    BY <1>1, <2>2, <2>4, Saves
  <2> HIDE DEF last, s
  <2>6. Entries(ModelSave(s, q) \o last) = Entries(ModelSave(s, q)) \cup Entries(last)
    BY <1>1, <2>2, <2>3, <2>4, ObjectWrites
  <2>7. Entries(queue') = firsts \cup others
    BY <1>3, <2>3, <2>5, <2>6 DEF s
  <2>8. \A w \in Entries(queue') : w[1][1] \in PrefixesOf(Stage[4])
    <3>1. \A w \in Entries(queue') : w[1][1] \in {"all", "quantize"}
      BY <2>7 DEF SymbolAndParams
    <3> QED BY <3>1, Stages, Prefixes
  <2>9. ContentOf(Top)' \subseteq ContentOf(Top)
    <3>1. \A w \in Entries(queue') : w[1][1] # "top"
      BY <2>8, Stages, Prefixes
    <3> QED BY <1>1, <1>3, <3>1, OthersShrink, ShrinkingSets DEF Top
  <2>10. /\ ContentOf(WithExt("quantize"))' \subseteq ContentOf(WithExt("quantize"))
         /\ Content(<<"quantize", "ext">>)' \subseteq Content(<<"quantize", "ext">>)
    <3>1. \A f \in WithExt("quantize") : \A w \in Entries(queue') : w[1] # f
      BY <2>7 DEF WithExt, SymbolAndParams
    <3>2. \A f \in WithExt("quantize") : Content(f)' = Content(f)
      BY <1>1, <1>3, <3>1, NothingQueued DEF Content, Queued, Pending, Entries
    <3> QED BY <3>2 DEF ContentOf, WithExt
  <2>11. QuantizeFits'
    <3>1. Fits(ContentOf(WithExt("quantize"))', ContentOf(Top)')
      BY <1>1, <2>9, <2>10, FewerFit
    <3>2. Fits(ContentOf(WithExt("quantize"))', {})
      BY <3>1, FitsNone DEF Fits
    <3>3. Old("quantize")'
      BY <1>1, <2>10 DEF Old
    <3> QED BY <3>1, <3>2, <3>3 DEF QuantizeFits, FitsTop, Fits, Same, OneSplit, Raw, Unmerged
  <2>12. MergeFits'
    <3>1. ContentOf(SymbolAndParams("all"))' \subseteq q
      <4> DEFINE p == "all"
      <4>1. \A f \in SymbolAndParams(p) : <<f, q>> \in Entries(queue')
        BY <2>7
      <4>2. \A w \in Entries(queue') : w[1] \in SymbolAndParams(p) => w[2] \subseteq q
        BY <2>7 DEF SymbolAndParams
      <4> HIDE DEF p
      <4>3. ContentOf(SymbolAndParams(p))' \subseteq q
        BY <4>1, <4>2, ModelWritten
      <4> QED BY <4>3 DEF p
    <3>2. Content(<<"all", "ext">>)' \subseteq o
      <4> DEFINE f == <<"all", "ext">>
                 rest == firsts \cup {<<<<"quantize", "conf">>, c>>}
      <4>1. Entries(queue') = rest \cup {<<f, o>>}
        BY <2>7
      <4>2. \A w \in rest : w[1] # f
        BY DEF SymbolAndParams
      <4> HIDE DEF f, rest
      <4>3. Content(f)' \subseteq o
        BY <4>1, <4>2, FileWritten
      <4> QED BY <4>3 DEF f
    <3>3. ContentOf(WithExt("all"))' \subseteq q \cup o
      BY <3>1, <3>2 DEF ContentOf, WithExt
    <3>4. Combined(ContentOf(WithExt("all"))')
      BY <2>2, <3>3, Fewer
    <3> QED BY <3>4 DEF MergeFits, Combined, Agree
  <2>13. FilesFit'
    BY <1>0, <1>1, <1>3, <2>8, <2>11, <2>12, StageKeeps, Stages
  <2>14. FilesReady'
    <3>1. queue' # <<>>
      BY <2>7, EntriesOf
    <3>2. ("quantize" \in Live)'
      BY <1>3, <3>1 DEF Live
    <3>3. todo' # <<>> => Head(todo') \in Closing
      BY <1>0, <1>3, NextStage
    <3> QED BY <3>2, <3>3 DEF FilesReady, Before, Closing
  <2>15. OutputsAgree'
    <3>1. Combined(q)
      BY <2>2, Fewer
    <3> QED BY <1>3, <3>1 DEF OutputsAgree, Combined, Agree
  <2> QED BY <1>0, <1>3, <2>13, <2>14, <2>15, StagesGoOn
<1>4. CASE Fail("config")
  BY <1>1, <1>4, FailingAgrees
<1>5. CASE Fail("checkpoint")
  BY <1>1, <1>5, FailingAgrees
<1> QED BY <1>2, <1>3, <1>4, <1>5

\* The files of the result, merged or not, agree.
LEMMA ResultAgrees ==
  ASSUME InStages, Head(todo) \in Closing
  PROVE  Combined(ResultUsed) /\ "quantize" \in Live
<1>1. "quantize" \in Live /\ queue = <<>> /\ chain.driver = "V3" /\ MergeFits /\ QuantizeFits
  BY DEF InStages, InStage3, FilesReady, Before, FilesFit
<1>2. ResultUsed = ContentOf(WithExt(Result)) /\ Content(<<"quantize", "conf">>) = files[<<"quantize", "conf">>]
  BY <1>1, NothingQueued DEF ResultUsed
<1>3. CASE HasKeys(files[<<"quantize", "conf">>])
  BY <1>1, <1>2, <1>3 DEF MergeFits, Split, Result
<1>4. CASE ~ HasKeys(files[<<"quantize", "conf">>])
  <2>1. Fits(ContentOf(WithExt("quantize")), {})
    BY <1>1 DEF QuantizeFits, FitsTop
  <2>2. Combined(ContentOf(WithExt("quantize")))
    BY <2>1, FitsCombined DEF Fits
  <2> QED BY <1>1, <1>2, <1>4, <2>2 DEF Result
<1> QED BY <1>1, <1>3, <1>4

\* A result is used, and written at most as the compiled model.
LEMMA ResultUsedAgrees ==
  ASSUME InStages, TrustInv', Head(todo) \in Closing, used' = ResultUsed, todo' = Tail(todo),
         dumping' = Head(todo), UNCHANGED <<files, cfg, status, chain, trusted>>,
         \A w \in Entries(queue') : w[1][1] = "cvm"
  PROVE  AgreeInv'
<1>1. Combined(ResultUsed) /\ "quantize" \in trusted /\ queue = <<>> /\ FilesFit
  BY ResultAgrees DEF InStages
<1>2. OutputsAgree'
  BY <1>1 DEF OutputsAgree, Combined, Agree
<1>3. dumping' \notin From(1)
  BY Stages DEF Closing
<1>4. FilesFit'
  BY <1>1, <1>3, CompiledKept
<1>5. ("quantize" \in Live)'
  BY <1>1 DEF Live
<1>6. todo' # <<>> => Head(todo') \in Closing
  BY NextStage DEF Closing
<1>7. FilesReady'
  BY <1>5, <1>6 DEF FilesReady, Before, Closing
<1> QED BY <1>2, <1>4, <1>7, StagesGoOn

LEMMA evaluateAgrees ==
  ASSUME AgreeInv, ConfigsAssumption, evaluate
  PROVE  AgreeInv'
<1>0. InStages /\ Head(todo) = "evaluate" /\ TrustInv'
  <2>1. Stage3("evaluate")
    BY DEF evaluate, V3, Now, Stage3
  <2> QED BY <2>1, StageFacts, evaluateTrust DEF AgreeInv
<1>1. CASE Fail("checkpoint")
  BY <1>0, <1>1, FailingAgrees DEF InStages
<1>2. CASE used' = ResultUsed /\ Finish(mem, <<>>) /\ UNCHANGED trusted
  BY <1>0, <1>2, ResultUsedAgrees, EntriesOf DEF Finish, Closing
<1> QED BY <1>1, <1>2 DEF evaluate

LEMMA compileAgrees ==
  ASSUME AgreeInv, ConfigsAssumption, mrt_compile
  PROVE  AgreeInv'
<1>0. InStages /\ InStage3 /\ Head(todo) = "compile" /\ TrustInv'
  <2>1. Stage3("compile")
    BY DEF mrt_compile, V3, Now, Stage3
  <2> QED BY <2>1, StageFacts, compileTrust DEF AgreeInv, InStages
<1> DEFINE m == ModelLoad(Result)
           e == files[<<Result, "ext">>]
           last == << <<<<"cvm", "ext">>, e>> >>
           writes == ModelSave("cvm", m) \o last
<1>1. CASE Fail("checkpoint")
  BY <1>0, <1>1, FailingAgrees DEF InStages
<1>2. CASE used' = ResultUsed /\ Finish(mem, writes) /\ UNCHANGED trusted
  <2>1. m \in SUBSET Origin /\ e \in SUBSET Origin
    BY <1>0, LoadTypes, FileNames DEF InStage3, Result, Prefix
  <2> HIDE DEF m, e
  <2>2. ModelSave("cvm", m) \in Writes /\ \A w \in Entries(ModelSave("cvm", m)) : w[1][1] = "cvm"
    BY <2>1, CompiledWrites, Prefixes
  <2>3. last \in Writes /\ \A w \in Entries(last) : w[1][1] = "cvm"
    BY <2>1, ExtWrite DEF Prefix
  <2> HIDE DEF last
  <2>4. \A w \in Entries(writes) : w[1][1] = "cvm"
    BY <2>2, <2>3, EntriesConcat
  <2> QED BY <1>0, <1>2, <2>4, ResultUsedAgrees DEF Finish, Closing
<1> QED BY <1>1, <1>2 DEF mrt_compile

(***************************************************************************)
(* Invocations, writes and deaths                                          *)
(***************************************************************************)
LEMMA FirstStage ==
  ASSUME ConfigsAssumption, NEW c \in Configs, StagesOf(c) # <<>>
  PROVE  /\ c.driver # "V3" => Head(StagesOf(c)) = "prepare"
         /\ c.driver = "V3" =>
              /\ c.start = 0 => Head(StagesOf(c)) = "prepare"
              /\ c.start = 1 => Head(StagesOf(c)) = "calibrate"
              /\ c.start = 2 => Head(StagesOf(c)) = "quantize"
              /\ c.start = 3 => Head(StagesOf(c)) \in Closing
<1> DEFINE t == c.tail
           s == StagesOf(c)
<1>1. c \in Config /\ t \in Seq(Steps) /\ (\A i \in 1 .. Len(t) : t[i] \in Closing) /\ s \in Seq(Steps)
  <2>1. c \in Config
    BY DEF ConfigsAssumption
  <2>2. t \in {<<>>, <<"evaluate">>, <<"compile">>, <<"evaluate", "compile">>}
    BY <2>1 DEF Config
  <2>3. t \in Seq(Steps) /\ \A i \in 1 .. Len(t) : t[i] \in Closing
    <3> HIDE DEF t
    <3> QED BY <2>2, TailPlans
  <2>4. s \in Seq(Steps)
    BY PlanInOrder
  <2> HIDE DEF t, s
  <2> QED BY <2>1, <2>3, <2>4
<1>2. Head(s) = s[1] /\ Len(s) > 0 /\ Len(s) \in Nat
  BY <1>1, Rest1
<1> DEFINE a == IF c.driver = "V3" THEN SubSeq(Stages3, c.start + 1, 3) ELSE Stage
<1>3. s = a \o t
  BY DEF StagesOf, Stages3
<1>4. CASE c.driver = "V3"
  <2>1. c.start \in 0 .. 3
    BY <1>4 DEF ConfigsAssumption
  <2>2. a \in Seq(Steps) /\ Len(a) = 3 - c.start /\ \A i \in 1 .. Len(a) : a[i] = Stages3[c.start + i]
    BY <1>4, <2>1, Plan3
  <2> HIDE DEF a, t, s
  <2>3. /\ Len(s) = Len(a) + Len(t) /\ Len(t) \in Nat
        /\ \A i \in 1 .. Len(a) : s[i] = a[i]
        /\ \A i \in 1 .. Len(t) : s[Len(a) + i] = t[i]
    <3>1. a \in Seq(Steps) /\ t \in Seq(Steps)
      BY <1>1, <2>2
    <3>2. /\ Len(a \o t) = Len(a) + Len(t) /\ Len(t) \in Nat
          /\ \A i \in 1 .. Len(a) : (a \o t)[i] = a[i]
          /\ \A i \in 1 .. Len(t) : (a \o t)[Len(a) + i] = t[i]
      BY <3>1, Joined
    <3> QED BY <1>3, <3>2
  <2>4. CASE c.start < 3
    <3>1. 1 \in 1 .. Len(a) /\ s[1] = Stages3[c.start + 1]
      BY <2>1, <2>2, <2>3, <2>4
    <3>2. Stages3[1] = "prepare" /\ Stages3[2] = "calibrate" /\ Stages3[3] = "quantize"
      BY DEF Stages3
    <3> QED BY <1>2, <1>4, <2>1, <2>4, <3>1, <3>2 DEF s
  <2>5. CASE c.start = 3
    <3>1. Len(a) = 0 /\ 1 \in 1 .. Len(t) /\ s[1] = t[1]
      BY <1>2, <2>2, <2>3, <2>5
    <3> QED BY <1>1, <1>2, <1>4, <2>5, <3>1 DEF s
  <2> QED BY <2>1, <2>4, <2>5
<1>5. CASE c.driver # "V3"
  <2>1. a = Stage /\ Stage \in Seq(Steps) /\ Len(Stage) = 5
    BY <1>5, StepNames DEF Stage
  <2> HIDE DEF a, t, s
  <2>2. s[1] = "prepare"
    <3>1. \A i \in 1 .. Len(a) : s[i] = a[i]
      <4>1. a \in Seq(Steps) /\ t \in Seq(Steps)
        BY <1>1, <2>1
      <4>2. \A i \in 1 .. Len(a) : (a \o t)[i] = a[i]
        BY <4>1, Joined
      <4> QED BY <1>3, <4>2
    <3> QED BY <2>1, <3>1, Stages
  <2> QED BY <1>2, <1>5, <2>2 DEF s
<1> QED BY <1>4, <1>5

LEMMA StartAgrees ==
  ASSUME AgreeInv, ConfigsAssumption, Start
  PROVE  AgreeInv'
<1>1. PICK c \in Configs :
        /\ Careful(c) /\ cfg' = c /\ todo' = StagesOf(c)
        /\ chain' = [driver |-> c.driver, keys |-> c.keys]
        /\ trusted' = IF c.driver = chain.driver THEN trusted ELSE {}
  BY DEF Start
<1>2. /\ queue = <<>> /\ queue' = <<>> /\ status' = "running" /\ mem' = NoObjects
      /\ dumping' = "none" /\ used' = {} /\ files' = files
  BY DEF Start
<1>3. TrustInv' /\ FilesFit
  BY StartTrust DEF AgreeInv
<1>4. Live' = trusted' /\ Live = trusted
  BY <1>2 DEF Live
<1>5. \A p : Shrinks(p)
  <2>1. \A f : Content(f)' = Content(f)
    BY <1>2, EntriesOf DEF Content, Queued, Pending, Entries
  <2> QED BY <2>1 DEF Shrinks
<1>6. FilesFit'
  <2>1. CASE c.driver = chain.driver
    <3>1. chain'.driver = chain.driver /\ trusted' = trusted
      BY <1>1, <2>1
    <3> QED BY <1>3, <1>4, <1>5, <3>1, AllKept
  <2>2. CASE c.driver # chain.driver
    <3>1. Live' = {}
      BY <1>1, <1>4, <2>2
    <3> QED BY <3>1 DEF FilesFit, PrepareFits, SplitFits, CalibrateFits, QuantizeFits, MergeFits
  <2> QED BY <2>1, <2>2
<1>7. OutputsAgree'
  BY <1>2 DEF OutputsAgree, Agree
<1>8. todo' # <<>> =>
        /\ c.driver # "V3" => Head(todo') = "prepare"
        /\ c.driver = "V3" =>
             /\ c.start = 0 => Head(todo') = "prepare"
             /\ c.start = 1 => Head(todo') = "calibrate"
             /\ c.start = 2 => Head(todo') = "quantize"
             /\ c.start = 3 => Head(todo') \in Closing
  BY <1>1, FirstStage
<1>9. ASSUME c.driver # "V3" PROVE MemFits' /\ CompiledLast'
  <2>1. /\ mem'.model = {} /\ mem'.base = {} /\ mem'.top = {} /\ mem'.mrt = NoMrt
        /\ mem'.qmodel = {} /\ mem'.oscales = {} /\ mem'.inputs_ext = {}
    BY <1>2 DEF NoObjects, Nothing
  <2>2. HalvesFit'
    BY <2>1 DEF HalvesFit, OneSplit, Raw, Unmerged
  <2>3. Unbound' /\ ResultsFit' /\ RanFits'
    BY <1>2, <2>1, <2>2, StillUnbound
  <2>4. TopFits'
    <3>1. ~ Before({"calibrate"})'
      BY <1>8, <1>9 DEF Before
    <3>2. Ran' = {}
      BY <2>1 DEF Ran, NoMrt, Nothing
    <3>3. ASSUME ("split" \in Live)' PROVE OneSplit(ContentOf(Top)')
      <4>1. OneSplit(ContentOf(Top \cup SymbolAndParams("base"))')
        BY <1>6, <3>3 DEF FilesFit, SplitFits, OneSplit, Top
      <4>2. ContentOf(Top)' \subseteq ContentOf(Top \cup SymbolAndParams("base"))'
        BY DEF ContentOf
      <4> QED BY <4>1, <4>2, Fewer
    <3> QED BY <2>1, <3>1, <3>2, <3>3 DEF TopFits, OneSplit
  <2>5. CompiledLast'
    BY <1>2 DEF CompiledLast
  <2> QED BY <2>2, <2>3, <2>4, <2>5 DEF MemFits
<1>10. ASSUME c.driver = "V3" PROVE FilesReady'
  <2>1. c.start \in 0 .. 3 /\ (StartsAt(c) > 0 => Stage[StartsAt(c)] \in trusted /\ c.driver = chain.driver)
    BY <1>1, <1>10 DEF ConfigsAssumption, Careful
  <2>2. StartsAt(c) > 0 => Stage[StartsAt(c)] \in Live'
    BY <1>1, <1>4, <2>1
  <2>3. CASE c.start = 0
    BY <1>8, <1>10, <2>3 DEF FilesReady, Before, Closing
  <2>4. CASE c.start = 1
    <3>1. StartsAt(c) = 1
      BY <1>10, <2>4 DEF StartsAt
    <3> QED BY <1>8, <1>10, <2>2, <2>4, <3>1, Stages DEF FilesReady, Before, Closing
  <2>5. CASE c.start = 2
    <3>1. StartsAt(c) = 3
      BY <1>10, <2>5 DEF StartsAt
    <3> QED BY <1>8, <1>10, <2>2, <2>5, <3>1, Stages DEF FilesReady, Before, Closing
  <2>6. CASE c.start = 3
    <3>1. StartsAt(c) = 4
      BY <1>10, <2>6 DEF StartsAt
    <3> QED BY <1>8, <1>10, <2>2, <2>6, <3>1, Stages DEF FilesReady, Before, Closing
  <2> QED BY <2>1, <2>3, <2>4, <2>5, <2>6
<1> QED BY <1>1, <1>3, <1>6, <1>7, <1>9, <1>10 DEF AgreeInv

LEMMA FilesNamed == \A p \in Prefix : FilesOf(p) \subseteq File
BY FileNames, ConfFiles DEF FilesOf, WithExt, SymbolAndParams, Told

\* The next file holds what it was to hold at the end, or less.
LEMMA WriteShrinks ==
  ASSUME AgreeInv, Write
  PROVE  /\ \A p \in Prefix : Shrinks(p)
         /\ \A s \in From(1) : (s \in Live)' <=> s \in Live
<1>1. /\ queue # <<>> /\ files' = [files EXCEPT ![queue[1][1]] = queue[1][2]]
      /\ queue' = Tail(queue)
      /\ trusted' = IF Len(queue) = 1 /\ dumping \in From(1) THEN trusted \cup {dumping} ELSE trusted
      /\ UNCHANGED <<mem, cfg, todo, status, run, deaths, dumping, chain, used>>
  BY DEF Write, WriteFile
<1>2. queue \in Writes /\ files \in [File -> SUBSET Origin] /\ Tail(queue) \in Writes
      /\ (Tail(queue) # <<>> => Len(queue) # 1)
  BY <1>1, PendingFacts DEF AgreeInv, TrustInv, TypeOK
<1> DEFINE w == queue[1]
           rest == Entries(Tail(queue))
<1>3. Pending = {w} \cup rest /\ w \in File \X SUBSET Origin /\ Pending' = rest
  BY <1>1, <1>2, EntriesTail DEF Pending, Entries
<1> HIDE DEF w, rest
<1>4. ASSUME NEW f \in File PROVE Content(f)' \subseteq Content(f)
  <2>1. CASE \E y \in rest : y[1] = f
    <3>1. Content(f)' = UNION {y[2] : y \in {y \in rest : y[1] = f}}
      BY <1>3, <2>1 DEF Content, Queued
    <3>2. Content(f) = UNION {y[2] : y \in {y \in Pending : y[1] = f}}
      BY <1>3, <2>1 DEF Content, Queued
    <3> QED BY <1>3, <3>1, <3>2
  <2>2. CASE ~ (\E y \in rest : y[1] = f)
    <3>1. Content(f)' = files'[f]
      BY <1>3, <2>2 DEF Content, Queued
    <3>2. CASE f = w[1]
      <4>1. files'[f] = w[2]
        BY <1>1, <1>2, <3>2 DEF w
      <4>2. Content(f) = UNION {y[2] : y \in {y \in Pending : y[1] = f}}
        BY <1>3, <3>2 DEF Content, Queued
      <4> QED BY <1>3, <3>1, <3>2, <4>1, <4>2
    <3>3. CASE f # w[1]
      <4>1. files'[f] = files[f]
        BY <1>1, <1>2, <3>3 DEF w
      <4>2. Content(f) = files[f]
        BY <1>3, <2>2, <3>3 DEF Content, Queued
      <4> QED BY <3>1, <4>1, <4>2
    <3> QED BY <3>2, <3>3
  <2> QED BY <2>1, <2>2
<1>6. \A p \in Prefix : Shrinks(p)
  BY <1>4, FilesNamed DEF Shrinks
<1>7. ASSUME NEW s \in From(1) PROVE (s \in Live)' <=> s \in Live
  <2>1. CASE Tail(queue) # <<>>
    BY <1>1, <1>2, <2>1 DEF Live
  <2>2. CASE Tail(queue) = <<>>
    <3>1. Len(queue) = 1
      <4>1. Len(Tail(queue)) = Len(queue) - 1 /\ Len(queue) \in Nat
        BY <1>1, <1>2, HeadTailProperties, LenProperties DEF Writes
      <4>2. Len(Tail(queue)) = 0
        BY <1>2, <2>2, EmptySeq DEF Writes
      <4> QED BY <4>1, <4>2
    <3> QED BY <1>1, <2>2, <3>1 DEF Live
  <2> QED BY <2>1, <2>2
<1> QED BY <1>6, <1>7

LEMMA WriteAgrees ==
  ASSUME AgreeInv, ConfigsAssumption, Write
  PROVE  AgreeInv'
<1>1. UNCHANGED <<mem, cfg, todo, status, dumping, chain, used>>
  BY DEF Write, WriteFile
<1>2. TrustInv' /\ FilesFit
  BY WriteTrust DEF AgreeInv
<1>3. /\ \A p \in Prefix : Shrinks(p)
      /\ \A s \in From(1) : (s \in Live)' <=> s \in Live
  BY WriteShrinks
<1>4. FilesFit'
  BY <1>1, <1>2, <1>3, AllKept
<1>5. OutputsAgree'
  BY <1>1, UsedStill
<1>6. /\ ContentOf(Top)' \subseteq ContentOf(Top)
      /\ ContentOf(WithExt("quantize"))' \subseteq ContentOf(WithExt("quantize"))
      /\ Old("quantize") => Old("quantize")'
  BY <1>3, ShrinkingSets DEF Prefix, Top
<1>7. Ran' = Ran /\ (\A stages : Before(stages)' <=> Before(stages))
  BY <1>1 DEF Ran, Before
<1>8. ASSUME MemFits, CompiledLast PROVE MemFits' /\ CompiledLast'
  <2>1. HalvesFit' /\ RanFits' /\ ResultsFit'
    BY <1>1, <1>8 DEF MemFits, HalvesFit, RanFits, ResultsFit, Ran, Results, Fits, Same, OneSplit,
                      Raw, Unmerged, Combined, Agree
  <2>2. Unbound' /\ CompiledLast'
    BY <1>1, <1>8 DEF MemFits, Unbound, Before, CompiledLast
  <2>3. TopFits'
    <3>1. ("split" \in Live)' <=> "split" \in Live
      BY <1>3, Stages
    <3>2. ASSUME "split" \in Live
          PROVE  OneSplit(Ran \cup ContentOf(Top)') /\ OneSplit(mem.base \cup ContentOf(Top)')
      <4>1. OneSplit(Ran \cup ContentOf(Top)) /\ OneSplit(mem.base \cup ContentOf(Top))
        BY <1>8, <3>2 DEF MemFits, TopFits
      <4>2. /\ Ran \cup ContentOf(Top)' \subseteq Ran \cup ContentOf(Top)
            /\ mem.base \cup ContentOf(Top)' \subseteq mem.base \cup ContentOf(Top)
        BY <1>6
      <4> QED BY <4>1, <4>2, Fewer
    <3>3. Before({"calibrate"})' /\ cfg.start < 3 /\ ~ cfg.keys => "split" \notin Live
      BY <1>7, <1>8 DEF MemFits, TopFits
    <3> QED BY <1>1, <1>7, <3>1, <3>2, <3>3 DEF TopFits, OneSplit
  <2> QED BY <2>1, <2>2, <2>3 DEF MemFits
<1>9. ASSUME FilesReady PROVE FilesReady'
  <2>1. /\ Before({"calibrate"})' => ("prepare" \in Live)'
        /\ Before({"quantize"})' => ("calibrate" \in Live)'
        /\ Before(Closing)' => ("quantize" \in Live)'
    <3>1. Before(Closing)' => Before(Closing)
      BY <1>1 DEF Before, Closing
    <3> QED BY <1>3, <1>7, <1>9, <3>1, Stages DEF FilesReady
  <2>2. ASSUME Before({"merge"})
        PROVE  /\ Fits(Ran, ContentOf(Top)') /\ mem.mrt.old = "old"
               /\ Fits(ContentOf(WithExt("quantize"))', ContentOf(Top)') /\ Old("quantize")'
    <3>1. /\ Fits(Ran, ContentOf(Top)) /\ mem.mrt.old = "old"
          /\ Fits(ContentOf(WithExt("quantize")), ContentOf(Top)) /\ Old("quantize")
      BY <1>9, <2>2 DEF FilesReady
    <3>2. Fits(Ran, ContentOf(Top)')
      BY <1>6, <3>1, FewerFit
    <3>3. Fits(ContentOf(WithExt("quantize"))', ContentOf(Top)')
      BY <1>6, <3>1, FewerFit
    <3> QED BY <1>6, <3>1, <3>2, <3>3
  <2> QED BY <1>1, <1>7, <2>1, <2>2 DEF FilesReady, Fits, Same, OneSplit, Raw, Unmerged
<1> QED BY <1>1, <1>2, <1>4, <1>5, <1>8, <1>9 DEF AgreeInv

LEMMA WhoWrites ==
  ASSUME NEW d \in Steps \cup {"none", "unmerged", "sample"}
  PROVE  /\ "prepare" \in PrefixesOf(d) => d = "prepare"
         /\ "top" \in PrefixesOf(d) \/ "base" \in PrefixesOf(d) => d \in {"prepare", "split"}
         /\ "calibrate" \in PrefixesOf(d) => d = "calibrate"
         /\ "quantize" \in PrefixesOf(d) => d \in {"quantize", "unmerged"}
         /\ "all" \in PrefixesOf(d) => d \in {"quantize", "unmerged", "merge"}
<1>1. CASE d \in {"evaluate", "compile", "none", "sample"}
  BY <1>1 DEF PrefixesOf
<1>2. CASE d \in {"prepare", "split", "calibrate", "quantize", "unmerged", "merge"}
  BY <1>2, Prefixes
<1> QED BY <1>1, <1>2, StepNames

\* The writer of a trusted checkpoint is not the one that dies.
LEMMA KillAgrees ==
  ASSUME AgreeInv, Kill
  PROVE  AgreeInv'
<1>1. /\ files' = IF queue = <<>> THEN files ELSE [files EXCEPT ![queue[1][1]] = Torn]
      /\ queue' = <<>> /\ status' = "killed"
      /\ UNCHANGED <<cfg, run, dumping, trusted, chain, used>>
  BY DEF Kill, Die
<1>2. TrustInv' /\ OutputsAgree' /\ FilesFit
  BY <1>1, KillTrust, UsedStill DEF AgreeInv
<1>3. CASE queue = <<>>
  <2>1. FilesFit'
    BY <1>1, <1>2, <1>3, Quiet
  <2> QED BY <1>1, <1>2, <2>1 DEF AgreeInv
<1>4. CASE queue # <<>>
  <2>1. /\ queue[1] \in Pending /\ queue[1][1][1] \in PrefixesOf(dumping)
        /\ trusted \cap Outdates(dumping) = {}
        /\ \A w \in Pending : w[1][1] \in PrefixesOf(dumping)
        /\ chain.driver = "V3" => dumping \notin {"split", "merge"}
        /\ dumping \in Steps \cup {"none", "unmerged", "sample"}
        /\ trusted \subseteq From(1) /\ files \in [File -> SUBSET Origin] /\ queue[1] \in File \X SUBSET Origin
        /\ chain.driver = "V3" => trusted \cap {"split", "merge"} = {}
    BY <1>4, PendingFacts DEF AgreeInv, TrustInv, TypeOK, WritesOwn
  <2>2. Live' = trusted /\ trusted \subseteq Live
    BY <1>1 DEF Live
  <2>3. ASSUME NEW p \in Prefix, p \notin PrefixesOf(dumping) PROVE Shrinks(p)
    <3> SUFFICES ASSUME NEW f \in FilesOf(p) PROVE Content(f)' \subseteq Content(f)
      BY DEF Shrinks
    <3>1. f[1] = p /\ f \in File
      <4>1. f[1] = p
        BY DEF FilesOf, WithExt, SymbolAndParams
      <4> QED BY <4>1, FilesNamed
    <3>2. ~ Queued(f) /\ f # queue[1][1]
      BY <2>1, <2>3, <3>1 DEF Queued
    <3>3. Content(f) = files[f]
      BY <3>2 DEF Content
    <3>4. Content(f)' = files'[f]
      BY <1>1, EntriesOf DEF Content, Queued, Pending, Entries
    <3>5. files'[f] = files[f]
      BY <1>1, <1>4, <2>1, <3>1, <3>2
    <3> QED BY <3>3, <3>4, <3>5
  <2>4. /\ dumping # "prepare" => Shrinks("prepare")
        /\ dumping \notin {"prepare", "split"} => Shrinks("top") /\ Shrinks("base")
        /\ dumping # "calibrate" => Shrinks("calibrate")
        /\ dumping \notin {"quantize", "unmerged"} => Shrinks("quantize")
        /\ dumping \notin {"quantize", "unmerged", "merge"} => Shrinks("all")
    BY <2>1, <2>3, WhoWrites DEF Prefix
  <2>5. FilesFit'
    <3>1. CASE dumping = "prepare"
      <4>1. Live' = {}
        BY <2>1, <2>2, <3>1, OutdatesTable
      <4> QED BY <4>1 DEF FilesFit, PrepareFits, SplitFits, CalibrateFits, QuantizeFits, MergeFits
    <3>2. CASE dumping # "prepare"
      <4>1. /\ "split" \in trusted => dumping # "split"
            /\ "calibrate" \in trusted => dumping \notin {"split", "calibrate"}
            /\ "quantize" \in trusted => dumping \notin {"split", "calibrate", "quantize", "unmerged"}
            /\ "merge" \in trusted => dumping \notin {"split", "calibrate", "quantize", "unmerged", "merge"}
        BY <2>1, OutdatesTable, Stages
      <4>2. PrepareFits'
        BY <1>1, <1>2, <2>1, <2>2, <2>4, <3>2, PrepareKept DEF FilesFit
      <4>3. SplitFits'
        BY <1>2, <2>2, <2>4, <3>2, <4>1, SplitKept DEF FilesFit
      <4>4. TopShrinks
        BY <2>1, <2>2, <2>4, <3>2, <4>1 DEF TopShrinks
      <4>5. CalibrateFits' /\ QuantizeFits'
        BY <1>1, <1>2, <2>2, <2>4, <4>1, <4>4, LaterKept DEF FilesFit
      <4>6. MergeFits'
        BY <1>1, <1>2, <2>1, <2>2, <2>4, <4>1, MergeKept DEF FilesFit
      <4> QED BY <4>2, <4>3, <4>5, <4>6 DEF FilesFit
    <3> QED BY <3>1, <3>2
  <2> QED BY <1>1, <1>2, <2>5 DEF AgreeInv
<1> QED BY <1>3, <1>4

LEMMA EndAgrees ==
  ASSUME AgreeInv, End
  PROVE  AgreeInv'
<1>1. /\ queue = <<>> /\ status' = "idle"
      /\ UNCHANGED <<files, queue, trusted, chain, used>>
  BY DEF End
<1>2. FilesFit'
  BY <1>1, Quiet DEF AgreeInv
<1> QED BY <1>1, <1>2, EndTrust, UsedStill DEF AgreeInv

LEMMA StutterAgrees ==
  ASSUME AgreeInv, UNCHANGED vars
  PROVE  AgreeInv'
<1>1. UNCHANGED <<files, queue, mem, cfg, todo, status, run, deaths, dumping, trusted, chain, used>>
  BY DEF vars
<1>2. TrustInv' /\ OutputsAgree' /\ FilesFit
  BY <1>1, StutterTrust, UsedStill DEF AgreeInv
<1>3. (\A f : Content(f)' = Content(f)) /\ Live' = Live
  BY <1>1 DEF Content, Queued, Pending, Live, Entries
<1>4. \A fs : ContentOf(fs)' = ContentOf(fs)
  BY <1>3 DEF ContentOf
<1>5. FilesFit'
  <2>1. \A p : Shrinks(p)
    BY <1>3 DEF Shrinks
  <2> QED BY <1>1, <1>2, <1>3, <2>1, AllKept
<1>6. MemFits => MemFits'
  BY <1>1, <1>3, <1>4 DEF MemFits, HalvesFit, RanFits, ResultsFit, Unbound, TopFits, Ran, Results, Before,
                          Fits, Same, OneSplit, Raw, Unmerged, Combined, Agree, Top
<1>7. FilesReady => FilesReady'
  BY <1>1, <1>3, <1>4 DEF FilesReady, Before, Ran, Fits, Same, OneSplit, Raw, Unmerged, Old, Top
<1>8. CompiledLast => CompiledLast'
  BY <1>1 DEF CompiledLast
<1> QED BY <1>1, <1>2, <1>5, <1>6, <1>7, <1>8 DEF AgreeInv

LEMMA NextAgrees ==
  ASSUME AgreeInv, ConfigsAssumption, [Next]_vars
  PROVE  AgreeInv'
<1>1. CASE prepare \/ calibrate \/ quantize \/ merge \/ evaluate \/ mrt_compile
  BY <1>1, prepareAgrees, calibrateAgrees, quantizeAgrees, mergeAgrees, evaluateAgrees, compileAgrees
<1>2. CASE Start \/ Write \/ Kill \/ End
  BY <1>2, StartAgrees, WriteAgrees, KillAgrees, EndAgrees
<1>3. CASE Rest \/ UNCHANGED vars
  BY <1>3, StutterAgrees DEF Rest
<1> QED BY <1>1, <1>2, <1>3, ScriptAgrees DEF Next

LEMMA InitAgrees ==
  ASSUME Init
  PROVE  AgreeInv
<1>1. Live = {} /\ used = {} /\ status = "idle"
  BY DEF Init, FilesInit, Live
<1>2. FilesFit
  BY <1>1 DEF FilesFit, PrepareFits, SplitFits, CalibrateFits, QuantizeFits, MergeFits
<1>3. OutputsAgree
  BY <1>1 DEF OutputsAgree, Agree
<1> QED BY <1>1, <1>2, <1>3, InitTrust DEF AgreeInv

(***************************************************************************)
(* Whatever was killed, refused or restarted before, the models and scales *)
(* that a merge, an evaluation or a compilation of main2.py, V2/main.py or *)
(* V3 combines come from one preparation, one split, one calibration and   *)
(* one quantisation, and what was merged was merged under the old names,   *)
(* for every set of configurations and any number of runs and deaths.      *)
(***************************************************************************)
THEOREM OutputsComeFromOneChain == Spec => []OutputsAgree
<1>1. Init => AgreeInv
  BY InitAgrees
<1>2. AgreeInv /\ [Next]_vars => AgreeInv'
  BY NextAgrees, ConfigsAssumption
<1>3. AgreeInv => OutputsAgree
  BY DEF AgreeInv
<1> QED BY <1>1, <1>2, <1>3, PTL DEF Spec

(***************************************************************************)
(* Whole objects                                                           *)
(***************************************************************************)
LEMMA WholeModels ==
  ASSUME NEW r \in Nat, NEW m \in SUBSET Origin, Whole(m)
  PROVE  /\ Whole(split_model(m, r).base) /\ Whole(split_model(m, r).top)
         /\ Whole(Calibrated(NewMrt(m), r).model) /\ Whole(Calibrated(NewMrt(m), r).ext)
         /\ Whole(Prepare(r))
<1>1. PICK x \in m : x \in Origin
  BY DEF Whole, Missing
<1>2. \A o \in m : o \in Origin /\ o.part # "torn"
  BY DEF Whole
<1>3. \A o \in Origin : /\ [o EXCEPT !.part = "base", !.split = r].part = "base"
                        /\ [o EXCEPT !.part = "top", !.split = r].part = "top"
                        /\ [o EXCEPT !.calib = r].part = o.part
  BY DEF Origin
<1> DEFINE base == {[o EXCEPT !.part = "base", !.split = r] : o \in m}
           top == {[o EXCEPT !.part = "top", !.split = r] : o \in m}
           calibrated == {[o EXCEPT !.calib = r] : o \in m}
<1>4. Whole(base)
  <2>1. base # {} /\ \A y \in base : \E o \in m : y = [o EXCEPT !.part = "base", !.split = r]
    BY <1>1
  <2> HIDE DEF base
  <2> QED BY <2>1, <1>2, <1>3 DEF Whole, Missing
<1>5. Whole(top)
  <2>1. top # {} /\ \A y \in top : \E o \in m : y = [o EXCEPT !.part = "top", !.split = r]
    BY <1>1
  <2> HIDE DEF top
  <2> QED BY <2>1, <1>2, <1>3 DEF Whole, Missing
<1>6. Whole(calibrated)
  <2>1. calibrated # {} /\ \A y \in calibrated : \E o \in m : y = [o EXCEPT !.calib = r]
    BY <1>1
  <2> HIDE DEF calibrated
  <2>3. ASSUME NEW y \in calibrated PROVE y.part # "torn"
    <3>1. PICK o \in m : y = [o EXCEPT !.calib = r]
      BY <2>1
    <3>2. o \in Origin /\ o.part # "torn"
      BY <1>2
    <3> QED BY <3>1, <3>2 DEF Origin
  <2> QED BY <2>1, <2>3 DEF Whole, Missing
<1>7. Whole(Prepare(r))
  BY DEF Whole, Missing, Prepare
<1>8. /\ split_model(m, r).base = {[o EXCEPT !.part = "base", !.split = r] : o \in m}
      /\ split_model(m, r).top = {[o EXCEPT !.part = "top", !.split = r] : o \in m}
  BY DEF split_model
<1>9. /\ Calibrated(NewMrt(m), r).model = {[o EXCEPT !.calib = r] : o \in m}
      /\ Calibrated(NewMrt(m), r).ext = {[o EXCEPT !.calib = r] : o \in m}
  BY DEF Calibrated, NewMrt
<1> QED BY <1>4, <1>5, <1>6, <1>7, <1>8, <1>9

LEMMA WholeMrt ==
  ASSUME NEW r \in Nat, NEW mrt \in Mrt, Whole(mrt.model), Whole(mrt.ext)
  PROVE  /\ Whole(QuantizedMrt(mrt, r).model) /\ Whole(QuantizedMrt(mrt, r).ext)
         /\ Whole(SavedExt(mrt))
         /\ \A t \in SUBSET Origin : Whole(merge_model(mrt, t))
         /\ mrt # NoMrt
<1>1. mrt.model \subseteq Origin /\ mrt.ext \subseteq Origin /\ mrt.model # {} /\ mrt.ext # {}
      /\ (\A o \in mrt.model \cup mrt.ext : o.part # "torn")
  BY DEF Whole, Missing, Mrt
<1>2. \A o \in Origin : \A n : [o EXCEPT !.part = "merged", !.names = n].part = "merged"
  BY DEF Origin
<1> DEFINE model == {[o EXCEPT !.quant = r, !.names = "new"] : o \in mrt.model}
           ext == {[o EXCEPT !.quant = r] : o \in mrt.ext}
<1>3. Whole(model)
  <2>1. model # {} /\ \A y \in model : \E o \in mrt.model : y = [o EXCEPT !.quant = r, !.names = "new"]
    BY <1>1
  <2> HIDE DEF model
  <2>3. ASSUME NEW y \in model PROVE y.part # "torn"
    <3>1. PICK o \in mrt.model : y = [o EXCEPT !.quant = r, !.names = "new"]
      BY <2>1
    <3>2. o \in Origin /\ o.part # "torn"
      BY <1>1
    <3> QED BY <3>1, <3>2 DEF Origin
  <2> QED BY <2>1, <2>3 DEF Whole, Missing
<1>4. Whole(ext)
  <2>1. ext # {} /\ \A y \in ext : \E o \in mrt.ext : y = [o EXCEPT !.quant = r]
    BY <1>1
  <2> HIDE DEF ext
  <2>3. ASSUME NEW y \in ext PROVE y.part # "torn"
    <3>1. PICK o \in mrt.ext : y = [o EXCEPT !.quant = r]
      BY <2>1
    <3>2. o \in Origin /\ o.part # "torn"
      BY <1>1
    <3> QED BY <3>1, <3>2 DEF Origin
  <2> QED BY <2>1, <2>3 DEF Whole, Missing
<1>5. Whole(SavedExt(mrt))
  <2>1. SavedExt(mrt) # {} /\ \A y \in SavedExt(mrt) : \E o \in mrt.ext : y = [o EXCEPT !.names = mrt.old]
    BY <1>1 DEF SavedExt
  <2>3. ASSUME NEW y \in SavedExt(mrt) PROVE y.part # "torn"
    <3>1. PICK o \in mrt.ext : y = [o EXCEPT !.names = mrt.old]
      BY <2>1
    <3>2. o \in Origin /\ o.part # "torn"
      BY <1>1
    <3> QED BY <3>1, <3>2 DEF Origin
  <2> QED BY <2>1, <2>3 DEF Whole, Missing
<1>6. ASSUME NEW t \in SUBSET Origin PROVE Whole(merge_model(mrt, t))
  <2> DEFINE q == merge_model(mrt, t)
  <2>1. q # {} /\ \A y \in q : \E o \in mrt.model \cup t : y = [o EXCEPT !.part = "merged", !.names = mrt.old]
    BY <1>1 DEF merge_model
  <2> HIDE DEF q
  <2>2. mrt.model \cup t \subseteq Origin
    BY <1>1
  <2>3. Whole(q)
    BY <2>1, <2>2, <1>2 DEF Whole, Missing
  <2> QED BY <2>3 DEF q
<1>7. /\ QuantizedMrt(mrt, r).model = {[o EXCEPT !.quant = r, !.names = "new"] : o \in mrt.model}
      /\ QuantizedMrt(mrt, r).ext = {[o EXCEPT !.quant = r] : o \in mrt.ext}
  BY DEF QuantizedMrt, Mrt
<1>8. mrt # NoMrt
  BY <1>1 DEF NoMrt, Nothing
<1> QED BY <1>3, <1>4, <1>5, <1>6, <1>7, <1>8

(***************************************************************************)
(* Files that can be loaded                                                *)
(***************************************************************************)
\* A queue whose models are whole.
AllWhole(writes) == \A w \in writes : w[1][1] # "cvm" => Whole(w[2])
Covers(writes, fs) == \A f \in fs : \E w \in writes : w[1] = f

LEMMA SavesWhole ==
  ASSUME NEW p \in Prefix, NEW m \in SUBSET Origin, NEW mrt \in Mrt
  PROVE  /\ Whole(m) => AllWhole(Entries(ModelSave(p, m)))
         /\ Covers(Entries(ModelSave(p, m)), SymbolAndParams(p))
         /\ Whole(mrt.model) /\ Whole(mrt.ext) => AllWhole(Entries(MrtSave(p, mrt)))
         /\ Covers(Entries(MrtSave(p, mrt)), WithExt(p))
<1>1. Entries(ModelSave(p, m)) = {<<f, m>> : f \in SymbolAndParams(p)}
      /\ Entries(MrtSave(p, mrt)) = {<<<<p, "ext">>, SavedExt(mrt)>>}
                                     \cup {<<f, mrt.model>> : f \in SymbolAndParams(p)}
  BY Saves DEF SavedExt
<1>2. Whole(m) => AllWhole(Entries(ModelSave(p, m)))
  <2>1. \A w \in Entries(ModelSave(p, m)) : w[2] = m
    BY <1>1
  <2> QED BY <2>1 DEF AllWhole
<1>3. Covers(Entries(ModelSave(p, m)), SymbolAndParams(p))
  <2>1. \A f \in SymbolAndParams(p) : <<f, m>> \in Entries(ModelSave(p, m)) /\ <<f, m>>[1] = f
    BY <1>1
  <2> QED BY <2>1 DEF Covers
<1>4. ASSUME Whole(mrt.model), Whole(mrt.ext) PROVE AllWhole(Entries(MrtSave(p, mrt)))
  <2>1. Whole(SavedExt(mrt))
    <3>1. 0 \in Nat
      OBVIOUS
    <3> QED BY <1>4, <3>1, WholeMrt
  <2>2. \A w \in Entries(MrtSave(p, mrt)) : w[2] \in {SavedExt(mrt), mrt.model}
    BY <1>1
  <2> QED BY <1>4, <2>1, <2>2 DEF AllWhole
<1>5. Covers(Entries(MrtSave(p, mrt)), WithExt(p))
  <2>1. \A f \in WithExt(p) : \E c : <<f, c>> \in Entries(MrtSave(p, mrt)) /\ <<f, c>>[1] = f
    BY <1>1 DEF WithExt
  <2> QED BY <2>1 DEF Covers
<1> QED BY <1>2, <1>3, <1>4, <1>5

LEMMA StillLoads ==
  ASSUME queue = <<>>, UNCHANGED files
  PROVE  /\ \A f : Loads(f) => Loads(f)'
         /\ \A fs : Sound(fs) => Sound(fs)'
<1>1. \A f : Loads(f) => Loads(f)'
  BY EntriesOf DEF Loads, Queued, Pending, Whole
<1> QED BY <1>1 DEF Sound

LEMMA WillLoad ==
  ASSUME NEW fs, Covers(Entries(queue'), fs)
  PROVE  Sound(fs)' /\ \A f \in fs : Loads(f)'
<1>1. \A f \in fs : Queued(f)'
  BY DEF Covers, Queued, Pending, Entries
<1> QED BY <1>1 DEF Sound, Loads

LEMMA CanLoad ==
  ASSUME queue = <<>>, NEW fs, Sound(fs)
  PROVE  Readable(fs) /\ \A f \in fs : Whole(files[f])
<1>1. \A f \in fs : Whole(files[f])
  BY EntriesOf DEF Sound, Loads, Queued, Pending
<1>2. \A S : Whole(S) => S # Missing /\ S # Torn
  BY DEF Whole, Missing, Torn
<1> QED BY <1>1, <1>2 DEF Readable

LEMMA WholeLoads ==
  ASSUME queue = <<>>, NEW p
  PROVE  /\ Sound(SymbolAndParams(p)) => Whole(ModelLoad(p))
         /\ Sound(WithExt(p)) => Whole(MrtLoad(p).model) /\ Whole(MrtLoad(p).ext)
<1>1. ASSUME Sound(SymbolAndParams(p)) PROVE Whole(ModelLoad(p))
  <2>1. Whole(files[<<p, "symbol">>]) /\ Whole(files[<<p, "params">>])
    BY <1>1, CanLoad DEF SymbolAndParams
  <2> QED BY <2>1 DEF Whole, ModelLoad, Missing
<1>2. ASSUME Sound(WithExt(p)) PROVE Whole(MrtLoad(p).model) /\ Whole(MrtLoad(p).ext)
  <2>1. Sound(SymbolAndParams(p)) /\ Whole(files[<<p, "ext">>])
    BY <1>2, CanLoad DEF WithExt, Sound
  <2>2. MrtLoad(p).model = ModelLoad(p) /\ MrtLoad(p).ext = files[<<p, "ext">>]
    BY DEF MrtLoad, NewMrt
  <2> QED BY <1>1, <2>1, <2>2
<1> QED BY <1>1, <1>2

(***************************************************************************)
(* Steps of a script                                                       *)
(***************************************************************************)
\* The files after a step that ran a stage.
LEMMA StagesStillSound ==
  ASSUME Ready, queue = <<>>, UNCHANGED files, trusted' \subseteq trusted,
         queue' # <<>> => \A s \in From(1) : s = dumping' => Sound(StageFiles(s))'
  PROVE  StagesSound'
<1> SUFFICES ASSUME NEW s \in From(1), (s \in Live)' PROVE Sound(StageFiles(s))'
  BY DEF StagesSound
<1>1. CASE s \in trusted'
  <2>1. s \in Live
    BY <1>1 DEF Live
  <2>2. Sound(StageFiles(s))
    BY <2>1 DEF Ready, StagesSound
  <2> QED BY <2>2, StillLoads
<1>2. CASE s \notin trusted'
  <2>1. queue' # <<>> /\ s = dumping'
    BY <1>2 DEF Live
  <2> QED BY <2>1
<1> QED BY <1>1, <1>2

LEMMA StagesLeft ==
  ASSUME TrustInv, todo # <<>>
  PROVE  /\ \A i \in DOMAIN Tail(todo) : i + 1 \in DOMAIN todo /\ Tail(todo)[i] = todo[i + 1]
         /\ Head(todo) = todo[1] /\ 1 \in DOMAIN todo
         /\ Compiles(Tail(todo)) \/ Head(todo) = "compile" => Compiles(todo)
<1>1. todo \in Seq(Steps)
  BY DEF TrustInv, TypeOK
<1>2. Tail(todo) \in Seq(Steps) /\ Len(Tail(todo)) = Len(todo) - 1 /\ Len(todo) \in Nat /\ Len(todo) > 0
      /\ (\A i \in 1 .. Len(todo) - 1 : Tail(todo)[i] = todo[i + 1]) /\ Head(todo) = todo[1]
  BY <1>1, Rest1
<1>3. DOMAIN todo = 1 .. Len(todo) /\ DOMAIN Tail(todo) = 1 .. Len(Tail(todo))
  BY <1>1, <1>2
<1>4. /\ \A i \in DOMAIN Tail(todo) : i + 1 \in DOMAIN todo /\ Tail(todo)[i] = todo[i + 1]
      /\ Head(todo) = todo[1] /\ 1 \in DOMAIN todo
  BY <1>2, <1>3
<1> QED BY <1>4 DEF Compiles

\* A section that goes on.
LEMMA SectionReady ==
  ASSUME ReadyInv, AgreeInv', InScript, UNCHANGED <<files, cfg, status, chain>>,
         trusted' \subseteq trusted, todo' = Tail(todo), dumping' = Head(todo),
         AllWhole(Entries(queue')),
         queue' # <<>> /\ dumping' \in From(1) => Covers(Entries(queue'), StageFiles(dumping')),
         Bound'
  PROVE  ReadyInv'
<1>1. queue = <<>> /\ status = "running" /\ cfg.driver # "V3" /\ chain.driver # "V3" /\ todo # <<>>
      /\ TrustInv /\ TrustInv'
  BY DEF InScript, InSection, AgreeInv
<1>2. StagesSound'
  <2>1. queue' # <<>> => \A s \in From(1) : s = dumping' => Sound(StageFiles(s))'
    BY WillLoad
  <2> QED BY <1>1, <2>1, StagesStillSound DEF ReadyInv
<1>3. WritesWhole'
  BY DEF WritesWhole, AllWhole, Pending, Entries, Whole
<1>4. FailsOnlyThere'
  BY <1>1 DEF FailsOnlyThere
<1>5. CompilesAsked'
  <2>1. CompilesAsked
    BY <1>1 DEF ReadyInv, Ready
  <2>2. Compiles(todo') \/ dumping' = "compile" => Compiles(todo)
    BY <1>1, StagesLeft
  <2> QED BY <2>1, <2>2 DEF CompilesAsked, Compiles
<1> QED BY <1>1, <1>2, <1>3, <1>4, <1>5 DEF ReadyInv, Ready

\* Nothing is written.
LEMMA QuietSection ==
  ASSUME ReadyInv, AgreeInv', InScript, UNCHANGED <<files, cfg, status, chain>>,
         trusted' \subseteq trusted, todo' = Tail(todo), dumping' = Head(todo), queue' = <<>>, Bound'
  PROVE  ReadyInv'
<1>1. AllWhole(Entries(queue'))
  BY EntriesOf DEF AllWhole
<1> QED BY <1>1, SectionReady

\* An invocation is refused.
LEMMA FailingReady ==
  ASSUME ReadyInv, AgreeInv', queue = <<>>, NEW why, Fail(why), why \notin {"checkpoint", "running"},
         why \in {"unbound", "slice_channel"} => cfg \in Configs /\ Unsupported(cfg)
  PROVE  ReadyInv'
<1>1. /\ queue' = <<>> /\ status' = why /\ UNCHANGED <<files, cfg, trusted, chain, dumping>>
      /\ TrustInv'
  BY DEF Fail, AgreeInv
<1>2. StagesSound'
  BY <1>1, StagesStillSound DEF ReadyInv
<1>3. WritesWhole'
  BY <1>1, EntriesOf DEF WritesWhole, Pending, Entries
<1>4. FailsOnlyThere'
  BY <1>1 DEF FailsOnlyThere
<1>5. chain'.driver = "V3" => ConfsSound'
  <2> SUFFICES ASSUME chain.driver = "V3" PROVE ConfsSound'
    BY <1>1
  <2>1. ConfsSound
    BY DEF ReadyInv, Ready
  <2>2. Live' = Live /\ (\A p : Split(p)' = Split(p)) /\ trusted' = trusted
    BY <1>1, EntriesOf DEF Live, Split, Content, Queued, Pending, HasKeys
  <2> QED BY <1>1, <2>1, <2>2, StillLoads DEF ConfsSound, Top
<1> QED BY <1>1, <1>2, <1>3, <1>4, <1>5 DEF ReadyInv, Ready

\* The checkpoint an invocation starts from can be loaded.
LEMMA StartLoads ==
  ASSUME ReadyInv, ConfigsAssumption, InScript
  PROVE  /\ cfg.start > 0 => Sound(StageFiles(Stage[cfg.start]))
         /\ cfg.keys /\ cfg.start \in {3, 4} => Sound(SymbolAndParams("top"))
<1>1. StartTrusted /\ Live = trusted /\ StartsAt(cfg) = cfg.start /\ cfg.driver # "V3" /\ cfg.start \in 0 .. 5
      /\ StagesSound /\ queue = <<>>
  BY DEF InScript, InSection, ReadyInv, Ready
<1>2. \A s \in From(1) : s \in Live => Sound(StageFiles(s))
  BY <1>1 DEF StagesSound
<1>3. cfg.start > 0 => Stage[cfg.start] \in From(1) /\ Stage[cfg.start] \in Live
  <2>1. cfg.start > 0 => cfg.start \in {1, 2, 3, 4, 5}
    BY <1>1
  <2>2. cfg.start > 0 => Stage[cfg.start] \in Live
    BY <1>1 DEF StartTrusted
  <2> QED BY <2>1, <2>2, Stages
<1>4. cfg.keys /\ cfg.start \in {3, 4} => "split" \in Live
  BY <1>1 DEF StartTrusted
<1>5. Sound(StageFiles("split")) => Sound(SymbolAndParams("top"))
  BY DEF StageFiles, Sound
<1> QED BY <1>2, <1>3, <1>4, <1>5, Stages

LEMMA FilesOfStages ==
  /\ StageFiles("prepare") = SymbolAndParams("prepare")
  /\ StageFiles("split") = SymbolAndParams("top") \cup SymbolAndParams("base")
  /\ StageFiles("calibrate") = WithExt("calibrate")
  /\ StageFiles("quantize") = WithExt("quantize")
  /\ StageFiles("merge") = WithExt("all")
BY DEF StageFiles

\* A checkpoint that can be loaded is loaded.
LEMMA CheckpointLoaded ==
  ASSUME queue = <<>>, NEW fs, NEW objects, Sound(fs), Checkpoint(fs, objects)
  PROVE  Finish(objects, <<>>) /\ UNCHANGED <<trusted, used>>
BY CanLoad DEF Checkpoint

LEMMA PrepareReady ==
  ASSUME ReadyInv, AgreeInv', ConfigsAssumption, Section("prepare"), PrepareSection
  PROVE  ReadyInv'
<1>0. InScript /\ Head(todo) = "prepare"
  BY ScriptFacts DEF ReadyInv
<1>1. queue = <<>> /\ mem \in Objects /\ run \in Nat /\ cfg.start \in 0 .. 5 /\ todo # <<>>
  BY <1>0 DEF InScript, InSection
<1>2. ASSUME todo' = Tail(todo), dumping' = "prepare", UNCHANGED cfg, cfg.start < 2 => Whole(mem'.model)
      PROVE  Bound'
  <2>1. todo' # <<>> => Head(todo') = "split"
    BY <1>0, <1>2, NextSection
  <2> QED BY <1>2, <2>1 DEF Bound, Before, Closing, Whole
<1>3. CASE cfg.start < 1
  <2> DEFINE m == Prepare(run)
             save == ModelSave("prepare", m)
  <2>1. Anew(1, [mem EXCEPT !.model = m], Dump("prepare", save))
    BY <1>1, <1>3 DEF PrepareSection
  <2>2. /\ mem'.model = m /\ queue' = Dump("prepare", save) /\ dumping' = "prepare" /\ todo' = Tail(todo)
        /\ trusted' \subseteq trusted /\ UNCHANGED <<files, cfg, status, chain>>
    BY <1>0, <1>1, <2>1 DEF Anew, Finish, Objects
  <2>3. m \in SUBSET Origin /\ Whole(m)
    <3>1. m # {} /\ Whole(m)
      BY DEF Prepare, Whole, Missing
    <3> QED BY <1>1, <3>1, Types
  <2> HIDE DEF m
  <2>4. /\ save \in Writes /\ AllWhole(Entries(save)) /\ Covers(Entries(save), StageFiles("prepare"))
    <3>1. "prepare" \in Prefix
      BY DEF Prefix
    <3> QED BY <2>3, <3>1, Saves, SavesWhole, Types, FilesOfStages
  <2> HIDE DEF save
  <2>5. AllWhole(Entries(queue')) /\ (queue' # <<>> => Covers(Entries(queue'), StageFiles("prepare")))
    BY <2>2, <2>4, EntriesOf DEF Dump, AllWhole
  <2>6. Bound'
    BY <1>2, <2>2, <2>3
  <2> QED BY <1>0, <2>2, <2>5, <2>6, SectionReady
<1>4. CASE cfg.start = 1
  <2>1. Sound(SymbolAndParams("prepare"))
    BY <1>0, <1>4, StartLoads, FilesOfStages, Stages
  <2>2. Finish([mem EXCEPT !.model = ModelLoad("prepare")], <<>>) /\ UNCHANGED <<trusted, used>>
    BY <1>1, <1>4, <2>1, CheckpointLoaded DEF PrepareSection
  <2>3. /\ mem'.model = ModelLoad("prepare") /\ queue' = <<>> /\ dumping' = "prepare" /\ todo' = Tail(todo)
        /\ UNCHANGED <<files, cfg, status, chain, trusted>>
    BY <1>0, <1>1, <2>2 DEF Finish, Objects
  <2>4. Bound'
    BY <1>1, <1>2, <2>1, <2>3, WholeLoads
  <2> QED BY <1>0, <2>3, <2>4, QuietSection
<1>5. CASE cfg.start > 1
  <2>1. /\ queue' = <<>> /\ dumping' = "prepare" /\ todo' = Tail(todo)
        /\ UNCHANGED <<files, cfg, status, chain, trusted>>
    BY <1>0, <1>1, <1>5 DEF PrepareSection, Skip, Finish
  <2>2. Bound'
    BY <1>1, <1>2, <1>5, <2>1
  <2> QED BY <1>0, <2>1, <2>2, QuietSection
<1> QED BY <1>1, <1>3, <1>4, <1>5

LEMMA SplitReady ==
  ASSUME ReadyInv, AgreeInv', ConfigsAssumption, Section("split"), SplitSection
  PROVE  ReadyInv'
<1>0. InScript /\ Head(todo) = "split"
  BY ScriptFacts DEF ReadyInv
<1>1. queue = <<>> /\ mem \in Objects /\ run \in Nat /\ cfg.start \in 0 .. 5 /\ todo # <<>>
      /\ mem.model \in SUBSET Origin /\ cfg.keys \in BOOLEAN
  BY <1>0 DEF InScript, InSection
<1>2. cfg.start < 2 => Whole(mem.model)
  <2>1. Bound
    BY <1>0 DEF ReadyInv, Ready, InScript
  <2> QED BY <1>0, <1>1, <2>1 DEF Bound, Before
<1>3. ASSUME todo' = Tail(todo), dumping' = "split", UNCHANGED cfg,
             cfg.start < 3 => Whole(IF cfg.keys THEN mem'.base ELSE mem'.model)
      PROVE  Bound'
  <2>1. todo' # <<>> => Head(todo') = "calibrate"
    BY <1>0, <1>3, NextSection
  <2> QED BY <1>3, <2>1 DEF Bound, Before, Closing, Whole
<1>4. CASE ~ cfg.keys /\ cfg.start = 2
  BY <1>1, <1>4, FailingReady DEF SplitSection
<1>5. CASE ~ cfg.keys /\ cfg.start < 2
  <2>1. /\ mem' = mem /\ queue' = <<>> /\ dumping' = "split" /\ todo' = Tail(todo)
        /\ trusted' \subseteq trusted /\ UNCHANGED <<files, cfg, status, chain>>
    BY <1>0, <1>1, <1>5 DEF SplitSection, Anew, Finish
  <2>2. Bound'
    BY <1>2, <1>3, <1>5, <2>1
  <2> QED BY <1>0, <2>1, <2>2, QuietSection
<1>6. CASE cfg.keys /\ cfg.start < 2
  <2> DEFINE s == split_model(mem.model, run)
             top == s.top
             base == s.base
             save == ModelSave("top", top) \o ModelSave("base", base)
  <2>1. Anew(2, [mem EXCEPT !.base = base, !.top = top], Dump("split", save))
    BY <1>1, <1>6 DEF SplitSection
  <2>2. /\ mem'.base = base /\ queue' = Dump("split", save) /\ dumping' = "split" /\ todo' = Tail(todo)
        /\ trusted' \subseteq trusted /\ UNCHANGED <<files, cfg, status, chain>>
    BY <1>0, <1>1, <2>1 DEF Anew, Finish, Objects
  <2>3. /\ Whole(top) /\ Whole(base) /\ top \in SUBSET Origin /\ base \in SUBSET Origin
        /\ "top" \in Prefix /\ "base" \in Prefix
    BY <1>1, <1>2, <1>6, WholeModels, Types DEF Prefix
  <2> HIDE DEF top, base, s
  <2> DEFINE saveTop == ModelSave("top", top)
             saveBase == ModelSave("base", base)
  <2>4. /\ saveTop \in Writes /\ AllWhole(Entries(saveTop)) /\ Covers(Entries(saveTop), SymbolAndParams("top"))
        /\ saveBase \in Writes /\ AllWhole(Entries(saveBase)) /\ Covers(Entries(saveBase), SymbolAndParams("base"))
    BY <2>3, Saves, SavesWhole, Types
  <2> HIDE DEF saveTop, saveBase
  <2>5. save = saveTop \o saveBase
    BY DEF saveTop, saveBase
  <2>6. Entries(save) = Entries(saveTop) \cup Entries(saveBase)
    BY <2>4, <2>5, EntriesConcat
  <2> HIDE DEF save
  <2>7. AllWhole(Entries(save)) /\ Covers(Entries(save), StageFiles("split"))
    BY <2>4, <2>6, FilesOfStages DEF AllWhole, Covers
  <2>8. AllWhole(Entries(queue')) /\ (queue' # <<>> => Covers(Entries(queue'), StageFiles("split")))
    BY <2>2, <2>7, EntriesOf DEF Dump, AllWhole
  <2>9. Bound'
    BY <1>3, <1>6, <2>2, <2>3
  <2> QED BY <1>0, <2>2, <2>8, <2>9, SectionReady
<1>7. CASE cfg.keys /\ cfg.start = 2
  <2>1. Sound(SymbolAndParams("top") \cup SymbolAndParams("base")) /\ Sound(SymbolAndParams("base"))
    BY <1>0, <1>7, StartLoads, FilesOfStages, Stages DEF Sound
  <2>2. Finish([mem EXCEPT !.top = ModelLoad("top"), !.base = ModelLoad("base")], <<>>)
        /\ UNCHANGED <<trusted, used>>
    BY <1>1, <1>7, <2>1, CheckpointLoaded DEF SplitSection
  <2>3. /\ mem'.base = ModelLoad("base") /\ queue' = <<>> /\ dumping' = "split" /\ todo' = Tail(todo)
        /\ UNCHANGED <<files, cfg, status, chain, trusted>>
    BY <1>0, <1>1, <2>2 DEF Finish, Objects
  <2>4. Bound'
    BY <1>1, <1>3, <1>7, <2>1, <2>3, WholeLoads
  <2> QED BY <1>0, <2>3, <2>4, QuietSection
<1>8. CASE cfg.start > 2
  <2>1. /\ queue' = <<>> /\ dumping' = "split" /\ todo' = Tail(todo)
        /\ UNCHANGED <<files, cfg, status, chain, trusted>>
    BY <1>0, <1>1, <1>8 DEF SplitSection, Skip, Finish
  <2>2. Bound'
    BY <1>1, <1>3, <1>8, <2>1
  <2> QED BY <1>0, <2>1, <2>2, QuietSection
<1> QED BY <1>1, <1>4, <1>5, <1>6, <1>7, <1>8

\* A later checkpoint is loaded with the top model.
LEMMA LoadReady ==
  ASSUME ReadyInv, ConfigsAssumption, InScript, NEW k \in {3, 4}, cfg.start = k,
         NEW objects \in Objects, CheckpointWithTop(WithExt(Stage[k]), objects)
  PROVE  /\ queue' = <<>> /\ dumping' = Head(todo) /\ todo' = Tail(todo) /\ mem'.mrt = objects.mrt
         /\ UNCHANGED <<files, cfg, status, chain, trusted>>
         /\ Whole(MrtLoad(Stage[k]).model) /\ Whole(MrtLoad(Stage[k]).ext)
<1>1. queue = <<>>
  BY DEF InScript
<1>2. Sound(WithExt(Stage[k])) /\ (cfg.keys => Sound(SymbolAndParams("top")))
  BY StartLoads, FilesOfStages, Stages
<1>3. CASE cfg.keys
  <2> DEFINE loaded == [objects EXCEPT !.top = ModelLoad("top")]
  <2>1. Sound(WithExt(Stage[k]) \cup SymbolAndParams("top"))
    BY <1>2, <1>3 DEF Sound
  <2>2. Checkpoint(WithExt(Stage[k]) \cup SymbolAndParams("top"), loaded)
    BY <1>3 DEF CheckpointWithTop
  <2>3. loaded.mrt = objects.mrt
    BY DEF Objects
  <2> HIDE DEF loaded
  <2>4. Finish(loaded, <<>>) /\ UNCHANGED <<trusted, used>>
    BY <1>1, <2>1, <2>2, CheckpointLoaded
  <2> QED BY <1>1, <1>2, <2>3, <2>4, WholeLoads DEF Finish
<1>4. CASE ~ cfg.keys
  <2>1. Checkpoint(WithExt(Stage[k]), objects)
    BY <1>4 DEF CheckpointWithTop
  <2>2. Finish(objects, <<>>) /\ UNCHANGED <<trusted, used>>
    BY <1>1, <1>2, <2>1, CheckpointLoaded
  <2> QED BY <1>1, <1>2, <2>2, WholeLoads DEF Finish
<1> QED BY <1>3, <1>4

LEMMA CalibrateReady ==
  ASSUME ReadyInv, AgreeInv', ConfigsAssumption, Section("calibrate"), CalibrateSection
  PROVE  ReadyInv'
<1>0. InScript /\ Head(todo) = "calibrate"
  BY ScriptFacts DEF ReadyInv
<1>1. queue = <<>> /\ mem \in Objects /\ run \in Nat /\ cfg.start \in 0 .. 5 /\ todo # <<>>
      /\ mem.model \in SUBSET Origin /\ mem.base \in SUBSET Origin /\ files \in [File -> SUBSET Origin]
  BY <1>0 DEF InScript, InSection
<1>2. cfg.start < 3 => Whole(IF cfg.keys THEN mem.base ELSE mem.model)
  <2>1. Bound
    BY <1>0 DEF ReadyInv, Ready, InScript
  <2> QED BY <1>0, <1>1, <2>1 DEF Bound, Before
<1>3. ASSUME todo' = Tail(todo), dumping' = "calibrate", UNCHANGED cfg,
             cfg.start < 4 => Whole(mem'.mrt.model) /\ Whole(mem'.mrt.ext)
      PROVE  Bound'
  <2>1. todo' # <<>> => Head(todo') = "quantize"
    BY <1>0, <1>3, NextSection
  <2> QED BY <1>3, <2>1 DEF Bound, Before, Closing, MrtWhole, Whole
<1>4. CASE cfg.start < 3
  <2> DEFINE source == IF cfg.keys THEN mem.base ELSE mem.model
             mrt == Calibrated(NewMrt(source), run)
             save == MrtSave("calibrate", mrt)
  <2>1. Anew(3, [mem EXCEPT !.mrt = mrt], Dump("calibrate", save))
    BY <1>1, <1>4 DEF CalibrateSection
  <2>2. source \in SUBSET Origin /\ Whole(source)
    BY <1>1, <1>2, <1>4
  <2> HIDE DEF source
  <2>3. mrt \in Mrt /\ Whole(mrt.model) /\ Whole(mrt.ext)
    BY <1>1, <2>2, Types, WholeModels
  <2> HIDE DEF mrt
  <2>4. /\ mem'.mrt = mrt /\ queue' = Dump("calibrate", save) /\ dumping' = "calibrate" /\ todo' = Tail(todo)
        /\ trusted' \subseteq trusted /\ UNCHANGED <<files, cfg, status, chain>>
    BY <1>0, <1>1, <2>1 DEF Anew, Finish, Objects
  <2>5. AllWhole(Entries(save)) /\ Covers(Entries(save), StageFiles("calibrate"))
    <3>1. "calibrate" \in Prefix /\ {} \in SUBSET Origin
      BY DEF Prefix
    <3> QED BY <2>3, <3>1, SavesWhole, FilesOfStages
  <2> HIDE DEF save
  <2>6. AllWhole(Entries(queue')) /\ (queue' # <<>> => Covers(Entries(queue'), StageFiles("calibrate")))
    BY <2>4, <2>5, EntriesOf DEF Dump, AllWhole
  <2>7. Bound'
    BY <1>3, <2>3, <2>4
  <2> QED BY <1>0, <2>4, <2>6, <2>7, SectionReady
<1>5. CASE cfg.start = 3
  <2> DEFINE objects == [mem EXCEPT !.mrt = MrtLoad("calibrate")]
  <2>1. CheckpointWithTop(WithExt("calibrate"), objects)
    BY <1>1, <1>5 DEF CalibrateSection
  <2>2. objects \in Objects /\ objects.mrt = MrtLoad("calibrate")
    <3>1. MrtLoad("calibrate") \in Mrt
      BY <1>1, LoadTypes DEF Prefix
    <3> QED BY <1>1, <3>1 DEF Objects
  <2> HIDE DEF objects
  <2>3. /\ queue' = <<>> /\ dumping' = Head(todo) /\ todo' = Tail(todo) /\ mem'.mrt = MrtLoad("calibrate")
        /\ UNCHANGED <<files, cfg, status, chain, trusted>>
        /\ Whole(MrtLoad("calibrate").model) /\ Whole(MrtLoad("calibrate").ext)
    BY <1>0, <1>5, <2>1, <2>2, LoadReady, Stages
  <2>4. Bound'
    BY <1>0, <1>3, <2>3
  <2> QED BY <1>0, <2>3, <2>4, QuietSection
<1>6. CASE cfg.start > 3
  <2>1. /\ queue' = <<>> /\ dumping' = "calibrate" /\ todo' = Tail(todo) /\ mem' = mem
        /\ UNCHANGED <<files, cfg, status, chain, trusted>>
    BY <1>0, <1>1, <1>6 DEF CalibrateSection, Skip, Finish
  <2>2. Bound'
    BY <1>1, <1>3, <1>6, <2>1
  <2> QED BY <1>0, <2>1, <2>2, QuietSection
<1> QED BY <1>1, <1>4, <1>5, <1>6

LEMMA QuantizeReady ==
  ASSUME ReadyInv, AgreeInv', ConfigsAssumption, Section("quantize"), QuantizeSection
  PROVE  ReadyInv'
<1>0. InScript /\ Head(todo) = "quantize"
  BY ScriptFacts DEF ReadyInv
<1>1. queue = <<>> /\ mem \in Objects /\ run \in Nat /\ cfg.start \in 0 .. 5 /\ todo # <<>>
      /\ mem.mrt \in Mrt /\ files \in [File -> SUBSET Origin]
  BY <1>0 DEF InScript, InSection
<1>2. cfg.start < 4 => Whole(mem.mrt.model) /\ Whole(mem.mrt.ext)
  <2>1. Bound
    BY <1>0 DEF ReadyInv, Ready, InScript
  <2> QED BY <1>0, <1>1, <2>1 DEF Bound, Before, MrtWhole
<1>3. ASSUME todo' = Tail(todo), dumping' = "quantize", UNCHANGED cfg,
             cfg.start < 5 => Whole(mem'.mrt.model) /\ Whole(mem'.mrt.ext)
      PROVE  Bound'
  <2>1. todo' # <<>> => Head(todo') = "merge"
    BY <1>0, <1>3, NextSection
  <2> QED BY <1>3, <2>1 DEF Bound, Before, Closing, MrtWhole, Whole
<1>4. CASE cfg.start < 4
  <2> DEFINE mrt == QuantizedMrt(mem.mrt, run)
             scales == Scales(mrt.ext)
             object == MrtSave("quantize", mrt)
             save == object \o scales
  <2>1. Anew(4, [mem EXCEPT !.mrt = mrt, !.inputs_ext = mrt.ext], Dump("quantize", save))
    BY <1>1, <1>4 DEF QuantizeSection, Scales
  <2>2. mrt \in Mrt /\ Whole(mrt.model) /\ Whole(mrt.ext)
    BY <1>1, <1>2, <1>4, Types, WholeMrt
  <2> HIDE DEF mrt
  <2>3. /\ mem'.mrt = mrt /\ queue' = Dump("quantize", save) /\ dumping' = "quantize" /\ todo' = Tail(todo)
        /\ trusted' \subseteq trusted /\ UNCHANGED <<files, cfg, status, chain>>
    BY <1>0, <1>1, <2>1 DEF Anew, Finish, Objects
  <2>4. "quantize" \in Prefix /\ {} \in SUBSET Origin /\ mrt.ext \in SUBSET Origin
    BY <2>2 DEF Prefix, Mrt
  <2>5. AllWhole(Entries(object)) /\ Covers(Entries(object), StageFiles("quantize"))
    BY <2>2, <2>4, SavesWhole, FilesOfStages
  <2>6. scales \in Writes /\ Entries(scales) = {<<<<"all", "ext">>, mrt.ext>>}
    BY <2>4, LastWrites
  <2>7. Entries(save) = Entries(object) \cup Entries(scales)
    BY <2>2, <2>4, <2>6, ObjectWrites
  <2> HIDE DEF save, object, scales
  <2>8. AllWhole(Entries(save)) /\ Covers(Entries(save), StageFiles("quantize"))
    BY <2>2, <2>5, <2>6, <2>7 DEF AllWhole, Covers
  <2>9. AllWhole(Entries(queue')) /\ (queue' # <<>> => Covers(Entries(queue'), StageFiles("quantize")))
    BY <2>3, <2>8, EntriesOf DEF Dump, AllWhole
  <2>10. Bound'
    BY <1>3, <2>2, <2>3
  <2> QED BY <1>0, <2>3, <2>9, <2>10, SectionReady
<1>5. CASE cfg.start = 4
  <2> DEFINE objects == LoadQuantized
  <2>1. CheckpointWithTop(WithExt("quantize"), objects)
    BY <1>1, <1>5 DEF QuantizeSection
  <2>2. objects \in Objects /\ objects.mrt = MrtLoad("quantize")
    <3>1. MrtLoad("quantize") \in Mrt /\ MrtLoad("quantize").ext \in SUBSET Origin
      <4>1. MrtLoad("quantize") \in Mrt
        BY <1>1, LoadTypes DEF Prefix
      <4> QED BY <4>1 DEF Mrt
    <3> QED BY <1>1, <3>1 DEF Objects, LoadQuantized
  <2> HIDE DEF objects
  <2>3. /\ queue' = <<>> /\ dumping' = Head(todo) /\ todo' = Tail(todo) /\ mem'.mrt = MrtLoad("quantize")
        /\ UNCHANGED <<files, cfg, status, chain, trusted>>
        /\ Whole(MrtLoad("quantize").model) /\ Whole(MrtLoad("quantize").ext)
    BY <1>0, <1>5, <2>1, <2>2, LoadReady, Stages
  <2>4. Bound'
    BY <1>0, <1>3, <2>3
  <2> QED BY <1>0, <2>3, <2>4, QuietSection
<1>6. CASE cfg.start > 4
  <2>1. /\ queue' = <<>> /\ dumping' = "quantize" /\ todo' = Tail(todo) /\ mem' = mem
        /\ UNCHANGED <<files, cfg, status, chain, trusted>>
    BY <1>0, <1>1, <1>6 DEF QuantizeSection, Skip, Finish
  <2>2. Bound'
    BY <1>1, <1>3, <1>6, <2>1
  <2> QED BY <1>0, <2>1, <2>2, QuietSection
<1> QED BY <1>1, <1>4, <1>5, <1>6

\* What is left to do once the models are merged.
LEMMA StillBound ==
  ASSUME InScript, Ready, Head(todo) \in {"merge", "evaluate", "compile"},
         todo' = Tail(todo), dumping' = Head(todo), UNCHANGED cfg, mem'.mrt = mem.mrt
  PROVE  Bound'
<1>1. Bound /\ todo # <<>>
  BY DEF Ready, InScript
<1>2. cfg.start < 5 => MrtWhole
  BY <1>1 DEF Bound, Before, Closing
<1>3. todo' # <<>> => Head(todo') \in Closing
  BY NextSection
<1> QED BY <1>2, <1>3 DEF Bound, Before, Closing, MrtWhole, Whole

LEMMA MergeSectionReady ==
  ASSUME ReadyInv, AgreeInv', ConfigsAssumption, Section("merge"), MergeSection
  PROVE  ReadyInv'
<1>0. InScript /\ Head(todo) = "merge"
  BY ScriptFacts DEF ReadyInv
<1>1. queue = <<>> /\ mem \in Objects /\ run \in Nat /\ cfg.start \in 0 .. 5 /\ todo # <<>>
      /\ mem.mrt \in Mrt /\ mem.top \in SUBSET Origin /\ cfg.keys \in BOOLEAN
  BY <1>0 DEF InScript, InSection
<1>2. cfg.start < 5 => Whole(mem.mrt.model) /\ Whole(mem.mrt.ext)
  <2>1. Bound
    BY <1>0 DEF ReadyInv, Ready, InScript
  <2> QED BY <1>0, <1>1, <2>1 DEF Bound, Before, MrtWhole
<1>3. ASSUME todo' = Tail(todo), dumping' = "merge", UNCHANGED cfg, mem'.mrt = mem.mrt
      PROVE  Bound'
  BY <1>0, <1>3, StillBound DEF ReadyInv
<1>4. CASE ~ cfg.keys /\ cfg.start # 5
  <2>1. /\ queue' = <<>> /\ dumping' = "merge" /\ todo' = Tail(todo) /\ mem'.mrt = mem.mrt
        /\ UNCHANGED <<files, cfg, status, chain, trusted>>
    BY <1>0, <1>1, <1>4 DEF MergeSection, Finish, Objects
  <2> QED BY <1>0, <1>3, <2>1, QuietSection
<1>5. CASE (~ cfg.keys /\ cfg.start = 5) \/ (cfg.keys /\ cfg.start < 5 /\ ~ cfg.deps)
  <2>1. Fail("config")
    BY <1>1, <1>5 DEF MergeSection
  <2> QED BY <1>1, <2>1, FailingReady
<1>6. CASE cfg.keys /\ cfg.start < 5 /\ cfg.deps
  <2> DEFINE q == merge_model(mem.mrt, mem.top)
             e == mem.mrt.ext
             model == ModelSave("all", q)
             scales == Scales(e)
             save == model \o scales
  <2>1. /\ Finish([mem EXCEPT !.qmodel = q, !.oscales = e, !.inputs_ext = e], Dump("merge", save))
        /\ trusted' = trusted \ From(5)
    BY <1>1, <1>6 DEF MergeSection, Scales
  <2>2. /\ mem'.mrt = mem.mrt /\ queue' = Dump("merge", save) /\ dumping' = "merge" /\ todo' = Tail(todo)
        /\ trusted' \subseteq trusted /\ UNCHANGED <<files, cfg, status, chain>>
    BY <1>0, <1>1, <2>1 DEF Finish, Objects
  <2>3. q \in SUBSET Origin /\ Whole(q) /\ e \in SUBSET Origin /\ Whole(e) /\ "all" \in Prefix
    <3>1. q \in SUBSET Origin
      BY <1>1, Types
    <3>2. Whole(q)
      BY <1>1, <1>2, <1>6, WholeMrt
    <3> QED BY <1>1, <1>2, <1>6, <3>1, <3>2 DEF Prefix, Mrt
  <2> HIDE DEF q, e
  <2>4. /\ AllWhole(Entries(model)) /\ Covers(Entries(model), SymbolAndParams("all")) /\ model \in Writes
        /\ scales \in Writes /\ Entries(scales) = {<<<<"all", "ext">>, e>>}
    <3>1. NoMrt \in Mrt
      BY Types, <1>1
    <3> QED BY <2>3, <3>1, SavesWhole, Saves, LastWrites
  <2>5. Entries(save) = Entries(model) \cup Entries(scales)
    BY <2>4, EntriesConcat
  <2> HIDE DEF save, model, scales
  <2>6. AllWhole(Entries(save)) /\ Covers(Entries(save), StageFiles("merge"))
    <3>1. AllWhole(Entries(save))
      BY <2>3, <2>4, <2>5 DEF AllWhole
    <3>2. \A f \in SymbolAndParams("all") : \E w \in Entries(save) : w[1] = f
      BY <2>4, <2>5 DEF Covers
    <3>3. \E w \in Entries(save) : w[1] = <<"all", "ext">>
      <4>1. <<<<"all", "ext">>, e>> \in Entries(save) /\ <<<<"all", "ext">>, e>>[1] = <<"all", "ext">>
        BY <2>4, <2>5
      <4> QED BY <4>1
    <3> QED BY <3>1, <3>2, <3>3, FilesOfStages DEF Covers, WithExt
  <2>7. AllWhole(Entries(queue')) /\ (queue' # <<>> => Covers(Entries(queue'), StageFiles("merge")))
    BY <2>2, <2>6, EntriesOf DEF Dump, AllWhole
  <2> QED BY <1>0, <1>3, <2>2, <2>7, SectionReady
<1>7. CASE cfg.keys /\ cfg.start = 5
  <2>1. Sound(WithExt("all"))
    BY <1>0, <1>7, StartLoads, FilesOfStages, Stages
  <2>2. Finish(LoadMerged, <<>>) /\ UNCHANGED <<trusted, used>>
    BY <1>1, <1>7, <2>1, CheckpointLoaded DEF MergeSection
  <2>3. /\ queue' = <<>> /\ dumping' = "merge" /\ todo' = Tail(todo) /\ mem'.mrt = mem.mrt
        /\ UNCHANGED <<files, cfg, status, chain, trusted>>
    BY <1>0, <1>1, <2>2 DEF Finish, LoadMerged, Objects
  <2> QED BY <1>0, <1>3, <2>3, QuietSection
<1> QED BY <1>1, <1>4, <1>5, <1>6, <1>7

LEMMA EvaluateReady ==
  ASSUME ReadyInv, AgreeInv', ConfigsAssumption, Section("evaluate"), EvaluateSection
  PROVE  ReadyInv'
<1>0. InScript /\ Head(todo) = "evaluate"
  BY ScriptFacts DEF ReadyInv
<1>1. /\ queue' = <<>> /\ dumping' = "evaluate" /\ todo' = Tail(todo) /\ mem' = mem
      /\ UNCHANGED <<files, cfg, status, chain, trusted>>
  BY <1>0 DEF EvaluateSection, Finish
<1>2. Bound'
  BY <1>0, <1>1, StillBound DEF ReadyInv
<1> QED BY <1>0, <1>1, <1>2, QuietSection

LEMMA CompileReady ==
  ASSUME ReadyInv, AgreeInv', ConfigsAssumption, Section("compile"), CompileSection
  PROVE  ReadyInv'
<1>0. InScript /\ Head(todo) = "compile"
  BY ScriptFacts DEF ReadyInv
<1>1. /\ queue' = ModelSave("cvm", mem.qmodel) /\ dumping' = "compile" /\ todo' = Tail(todo) /\ mem' = mem
      /\ UNCHANGED <<files, cfg, status, chain, trusted>>
  BY <1>0 DEF CompileSection, Finish
<1>2. Bound'
  BY <1>0, <1>1, StillBound DEF ReadyInv
<1>3. AllWhole(Entries(queue'))
  <2>1. \A w \in Entries(queue') : w[1][1] = "cvm"
    <3>1. "cvm" \in Prefix /\ mem.qmodel \in SUBSET Origin /\ run \in Nat
      BY <1>0 DEF InScript, InSection, Prefix
    <3>2. NoMrt \in Mrt
      BY <3>1, Types
    <3> QED BY <1>1, <3>1, <3>2, SaveNames
  <2> QED BY <2>1 DEF AllWhole
<1>4. dumping' \notin From(1)
  BY <1>1, Stages
<1> QED BY <1>0, <1>1, <1>2, <1>3, <1>4, SectionReady

\* The object that says how inputs are scaled is bound, unless the merged
\* model was loaded.
LEMMA SampleReady ==
  ASSUME ReadyInv, AgreeInv', ConfigsAssumption, cfg.driver # "V3", Compiled, SampleSection
  PROVE  ReadyInv'
<1>1. /\ status = "running" /\ queue = <<>> /\ dumping = "compile" /\ TrustInv /\ cfg \in Configs
      /\ Bound /\ CompilesAsked /\ chain.driver = cfg.driver /\ cfg.start \in 0 .. 5
  <2>1. status = "running" /\ queue = <<>> /\ dumping = "compile" /\ TrustInv /\ Bound /\ CompilesAsked
    BY DEF Compiled, ReadyInv, AgreeInv, Ready
  <2>2. cfg \in Configs /\ chain.driver = cfg.driver
    BY <2>1 DEF TrustInv, TypeOK, StartTrusted
  <2> QED BY <2>1, <2>2, StartIndex
<1>2. CASE mem.mrt = NoMrt
  <2>1. Fail("unbound")
    BY <1>2 DEF SampleSection
  <2>2. ~ MrtWhole
    BY <1>2 DEF MrtWhole, Whole, NoMrt, Nothing, Missing
  <2>3. ~ (cfg.start < 5)
    BY <1>1, <2>2 DEF Bound
  <2>4. cfg.start = 5 /\ Compiles(cfg.tail)
    BY <1>1, <2>3 DEF CompilesAsked
  <2> QED BY <1>1, <2>1, <2>4, FailingReady DEF Unsupported
<1>3. CASE mem.mrt # NoMrt
  <2>1. /\ queue' = << <<<<"cvm", "ext">>, mem.oscales>> >> /\ dumping' = "sample"
        /\ UNCHANGED <<files, mem, cfg, todo, status, trusted, chain>>
    BY <1>3 DEF SampleSection
  <2>2. /\ Entries(queue') = {<<<<"cvm", "ext">>, mem.oscales>>} /\ dumping' \notin From(1)
        /\ TrustInv' /\ chain'.driver # "V3"
    BY <1>1, <2>1, EntriesOf, Stages DEF AgreeInv
  <2>3. StagesSound'
    BY <1>1, <2>1, <2>2, StagesStillSound DEF ReadyInv
  <2>4. WritesWhole'
    <3>1. \A w \in Entries(queue') : w[1][1] = "cvm"
      BY <2>2
    <3> QED BY <3>1 DEF WritesWhole, Pending, Entries
  <2>5. Bound' /\ CompilesAsked' /\ FailsOnlyThere'
    BY <1>1, <2>1 DEF Bound, Before, Closing, CompilesAsked, Compiles, FailsOnlyThere, MrtWhole, Whole, ReadyInv, Ready
  <2> QED BY <2>1, <2>2, <2>3, <2>4, <2>5 DEF ReadyInv, Ready
<1> QED BY <1>2, <1>3

LEMMA ScriptReady ==
  ASSUME ReadyInv, AgreeInv', ConfigsAssumption,
         \/ PREPARE \/ SPLIT_MODEL \/ CALIBRATION \/ QUANTIZATION \/ MERGE_MODEL
         \/ EVALUATION \/ COMPILATION \/ SAMPLE
         \/ V2_PREPARE \/ V2_SPLIT_MODEL \/ V2_CALIBRATION \/ V2_QUANTIZATION \/ V2_MERGE_MODEL
         \/ V2_EVALUATION \/ V2_COMPILATION \/ V2_SAMPLE
  PROVE  ReadyInv'
<1>1. CASE PREPARE \/ V2_PREPARE
  BY <1>1, PrepareReady DEF PREPARE, V2_PREPARE, Main, V2, Now, Section
<1>2. CASE SPLIT_MODEL \/ V2_SPLIT_MODEL
  BY <1>2, SplitReady DEF SPLIT_MODEL, V2_SPLIT_MODEL, Main, V2, Now, Section
<1>3. CASE CALIBRATION
  BY <1>3, CalibrateReady DEF CALIBRATION, Main, Now, Section
<1>4. CASE V2_CALIBRATION
  <2>1. CASE SliceTwice
    <3>1. Fail("slice_channel") /\ queue = <<>> /\ cfg.driver = "V2" /\ status = "running"
      BY <1>4, <2>1 DEF V2_CALIBRATION, V2, Now
    <3>2. cfg \in Configs /\ Unsupported(cfg)
      BY <2>1, <3>1 DEF SliceTwice, Unsupported, ReadyInv, AgreeInv, TrustInv, TypeOK
    <3> QED BY <3>1, <3>2, FailingReady
  <2>2. CASE ~ SliceTwice
    BY <1>4, <2>2, CalibrateReady DEF V2_CALIBRATION, V2, Now, Section
  <2> QED BY <2>1, <2>2
<1>5. CASE QUANTIZATION \/ V2_QUANTIZATION
  BY <1>5, QuantizeReady DEF QUANTIZATION, V2_QUANTIZATION, Main, V2, Now, Section
<1>6. CASE MERGE_MODEL \/ V2_MERGE_MODEL
  BY <1>6, MergeSectionReady DEF MERGE_MODEL, V2_MERGE_MODEL, Main, V2, Now, Section
<1>7. CASE EVALUATION \/ V2_EVALUATION
  BY <1>7, EvaluateReady DEF EVALUATION, V2_EVALUATION, Main, V2, Now, Section
<1>8. CASE COMPILATION \/ V2_COMPILATION
  BY <1>8, CompileReady DEF COMPILATION, V2_COMPILATION, Main, V2, Now, Section
<1>9. CASE SAMPLE \/ V2_SAMPLE
  BY <1>9, SampleReady DEF SAMPLE, V2_SAMPLE
<1> QED BY <1>1, <1>2, <1>3, <1>4, <1>5, <1>6, <1>7, <1>8, <1>9

(***************************************************************************)
(* Stages of V3                                                            *)
(***************************************************************************)
KeepLoads(p) == \A f \in File : f[1] = p /\ Loads(f) => Loads(f)'

LEMMA KeepSound ==
  ASSUME NEW p \in Prefix, KeepLoads(p)
  PROVE  /\ Sound(SymbolAndParams(p)) => Sound(SymbolAndParams(p))'
         /\ Sound(WithExt(p)) => Sound(WithExt(p))'
<1>1. \A f \in WithExt(p) : f \in File /\ f[1] = p
  <2> SUFFICES ASSUME NEW f \in WithExt(p) PROVE f \in File /\ f[1] = p
    OBVIOUS
  <2>1. f = <<p, "symbol">> \/ f = <<p, "params">> \/ f = <<p, "ext">>
    BY DEF WithExt, SymbolAndParams
  <2>2. f[1] = p
    BY <2>1
  <2>3. f \in File
    BY <2>1, FileNames
  <2> QED BY <2>2, <2>3
<1> QED BY <1>1 DEF Sound, KeepLoads, WithExt

\* A step after which the checkpoints of V3 are as they were, or fewer.
LEMMA ConfsStill ==
  ASSUME ConfsSound,
         \A s \in Told : (s \in Live)' => s \in Live /\ KeepLoads(s) /\ (Split(s)' => Split(s)),
         ("prepare" \in Live)' => KeepLoads("fixed") /\ KeepLoads("top") /\ KeepLoads("base"),
         ("calibrate" \in Live)' => KeepLoads("top") /\ ("prepare" \in trusted => "prepare" \in trusted'),
         ("quantize" \in Live)' => KeepLoads("all") /\ ("calibrate" \in trusted => "calibrate" \in trusted')
  PROVE  ConfsSound'
<1> DEFINE Keeps(p) == /\ Sound(SymbolAndParams(p)) => Sound(SymbolAndParams(p))'
                       /\ Sound(WithExt(p)) => Sound(WithExt(p))'
<1>1. \A p \in Prefix : KeepLoads(p) => Keeps(p)
  BY KeepSound
<1> HIDE DEF Keeps
<1>2. /\ {"prepare", "top", "base", "fixed", "all"} \subseteq Prefix
      /\ Told = {"prepare", "calibrate", "quantize"}
  BY DEF Prefix, Told
<1>3. \A s \in Told : (s \in Live)' => Loads(<<s, "conf">>)'
  <2> SUFFICES ASSUME NEW s \in Told, (s \in Live)' PROVE Loads(<<s, "conf">>)'
    OBVIOUS
  <2>1. <<s, "conf">> \in File /\ Loads(<<s, "conf">>) /\ KeepLoads(s)
    BY <1>2, ConfFiles DEF ConfsSound
  <2> QED BY <2>1 DEF KeepLoads
<1>4. ASSUME ("prepare" \in Live)'
      PROVE  /\ Sound(SymbolAndParams("fixed"))'
             /\ Split("prepare")' => Sound(Top \cup SymbolAndParams("base"))'
  <2>1. Keeps("fixed") /\ Keeps("top") /\ Keeps("base") /\ "prepare" \in Live
        /\ (Split("prepare")' => Split("prepare"))
    BY <1>1, <1>2, <1>4
  <2>2. Sound(SymbolAndParams("fixed"))
    BY <2>1 DEF ConfsSound
  <2>3. ASSUME Split("prepare")' PROVE Sound(Top)' /\ Sound(SymbolAndParams("base"))'
    <3>1. Sound(Top \cup SymbolAndParams("base"))
      BY <2>1, <2>3 DEF ConfsSound
    <3>2. Sound(Top) /\ Sound(SymbolAndParams("base"))
      BY <3>1 DEF Sound
    <3> QED BY <2>1, <3>2 DEF Keeps, Top
  <2> QED BY <2>1, <2>2, <2>3 DEF Sound, Keeps
<1>5. ASSUME ("calibrate" \in Live)' PROVE "prepare" \in trusted' /\ (Split("calibrate")' => Sound(Top)')
  <2>1. Keeps("top") /\ "calibrate" \in Live /\ (Split("calibrate")' => Split("calibrate"))
    BY <1>1, <1>2, <1>5
  <2>2. "prepare" \in trusted'
    BY <1>5, <2>1 DEF ConfsSound
  <2> QED BY <2>1, <2>2 DEF ConfsSound, Keeps, Top
<1>6. ASSUME ("quantize" \in Live)' PROVE "calibrate" \in trusted' /\ (Split("quantize")' => Sound(WithExt("all"))')
  <2>1. Keeps("all") /\ "quantize" \in Live /\ (Split("quantize")' => Split("quantize"))
    BY <1>1, <1>2, <1>6
  <2>2. "calibrate" \in trusted'
    BY <1>6, <2>1 DEF ConfsSound
  <2> QED BY <2>1, <2>2 DEF ConfsSound, Keeps
<1>7. \A s \in {"prepare", "calibrate", "quantize"} : (s \in Live)' => Loads(<<s, "conf">>)'
  BY <1>2, <1>3
<1> QED BY <1>4, <1>5, <1>6, <1>7 DEF ConfsSound

\* Nothing that the checkpoints depend on is written.
LEMMA ConfsLeft ==
  ASSUME ConfsSound, queue = <<>>, UNCHANGED <<files, trusted>>,
         queue' # <<>> => dumping' \notin From(1), \A w \in Entries(queue') : w[1][1] = "cvm"
  PROVE  ConfsSound'
<1>1. \A p : KeepLoads(p)
  BY StillLoads DEF KeepLoads
<1>2. \A s \in Told : Split(s)' => Split(s)
  <2> SUFFICES ASSUME NEW s \in Told PROVE Split(s)' => Split(s)
    OBVIOUS
  <2>1. s # "cvm"
    BY DEF Told
  <2>2. Shrinks(s)
    BY <2>1, OthersShrink
  <2> QED BY <2>2, ShrinkingSets
<1>3. \A s \in Told : (s \in Live)' => s \in Live
  BY Stages DEF Live, Told
<1> QED BY <1>1, <1>2, <1>3, ConfsStill

\* A stage that goes on.
LEMMA StageReady ==
  ASSUME ReadyInv, AgreeInv', InStages, UNCHANGED <<files, cfg, status, chain>>,
         trusted' \subseteq trusted, AllWhole(Entries(queue')),
         queue' # <<>> => \A s \in From(1) : s = dumping' => Sound(StageFiles(s))',
         ConfsSound', MergeReady'
  PROVE  ReadyInv'
<1>1. queue = <<>> /\ status = "running" /\ cfg.driver = "V3" /\ chain.driver = "V3"
  BY DEF InStages, InStage3
<1>2. StagesSound'
  BY <1>1, StagesStillSound DEF ReadyInv
<1>3. WritesWhole'
  BY DEF WritesWhole, AllWhole, Pending, Entries, Whole
<1>4. FailsOnlyThere'
  BY <1>1 DEF FailsOnlyThere
<1> QED BY <1>1, <1>2, <1>3, <1>4 DEF ReadyInv, Ready

\* The checkpoints before the stage that runs.
LEMMA ConfsBefore ==
  ASSUME ConfsSound, queue = <<>>, UNCHANGED files, NEW s \in Told, s \in trusted,
         \A w \in Entries(queue') : w[1][1] # s
  PROVE  /\ Loads(<<s, "conf">>)'
         /\ s = "prepare" => /\ Sound(SymbolAndParams("fixed"))'
                             /\ Split("prepare")' => Sound(Top \cup SymbolAndParams("base"))'
         /\ s = "calibrate" => "prepare" \in trusted /\ (Split("calibrate")' => Sound(Top)')
<1>1. s \in Live /\ Shrinks(s)
  BY OthersShrink DEF Live
<1>2. Split(s)' => Split(s)
  BY <1>1, ShrinkingSets
<1>3. /\ Loads(<<s, "conf">>)
      /\ s = "prepare" => /\ Sound(SymbolAndParams("fixed"))
                          /\ Split("prepare") => Sound(Top \cup SymbolAndParams("base"))
      /\ s = "calibrate" => "prepare" \in trusted /\ (Split("calibrate") => Sound(Top))
  BY <1>1 DEF ConfsSound, Told
<1>4. Loads(<<s, "conf">>)'
  BY <1>3, StillLoads
<1>5. /\ Sound(SymbolAndParams("fixed")) => Sound(SymbolAndParams("fixed"))'
      /\ Sound(Top \cup SymbolAndParams("base")) => Sound(Top \cup SymbolAndParams("base"))'
      /\ Sound(Top) => Sound(Top)'
  BY StillLoads DEF Top
<1> QED BY <1>2, <1>3, <1>4, <1>5

LEMMA prepareReady ==
  ASSUME ReadyInv, AgreeInv', ConfigsAssumption, prepare
  PROVE  ReadyInv'
<1>0. InStages /\ Head(todo) = "prepare"
  <2>1. Stage3("prepare")
    BY DEF prepare, V3, Now, Stage3
  <2> QED BY <2>1, StageFacts DEF ReadyInv
<1>1. run \in Nat /\ queue = <<>> /\ cfg.keys \in BOOLEAN /\ trusted \subseteq From(1)
  BY <1>0 DEF InStages, InStage3, TrustInv, TypeOK
<1> DEFINE m == Prepare(run)
           s == split_model(m, run)
           top == s.top
           base == s.base
           whole == WholeWrites(m)
           all == whole \o HalfWrites(top, base)
<1>2. /\ queue' = (IF cfg.keys THEN all ELSE whole) /\ dumping' = "prepare"
      /\ todo' = Tail(todo) /\ trusted' = {}
      /\ UNCHANGED <<files, cfg, status, chain>>
  BY <1>0, <1>1 DEF prepare, WholeWrites, HalfWrites, Anew, Finish
<1>3. Whole(m) /\ m \in SUBSET Origin /\ ~ HasKeys(m)
  <2>1. Whole(m) /\ ~ HasKeys(m)
    BY DEF Prepare, HasKeys, Whole, Missing
  <2> QED BY <1>1, <2>1, Types
<1> HIDE DEF m
<1>4. Whole(base) /\ Whole(top) /\ base \in SUBSET Origin /\ top \in SUBSET Origin
  BY <1>1, <1>3, WholeModels, Types
<1> HIDE DEF s, top, base
<1>5. /\ Entries(whole) =
           {<<f, m>> : f \in SymbolAndParams("fixed")} \cup {<<f, m>> : f \in SymbolAndParams("prepare")}
           \cup {<<<<"prepare", "conf">>, m>>}
      /\ Entries(all) = Entries(whole) \cup
           {<<f, top>> : f \in SymbolAndParams("top")} \cup {<<f, base>> : f \in SymbolAndParams("base")}
           \cup {<<<<"prepare", "conf">>, base>>}
  BY <1>3, <1>4, PrepareWrites
<1> HIDE DEF whole, all
<1>6. AllWhole(Entries(queue'))
  <2>1. \A w \in Entries(queue') : w[2] \in {m, top, base}
    BY <1>2, <1>5
  <2> QED BY <1>3, <1>4, <2>1 DEF AllWhole
<1>7. /\ \A f \in SymbolAndParams("fixed") : <<f, m>> \in Entries(queue')
      /\ \A f \in SymbolAndParams("prepare") : <<f, m>> \in Entries(queue')
      /\ <<<<"prepare", "conf">>, m>> \in Entries(queue')
      /\ cfg.keys => /\ \A f \in SymbolAndParams("top") : <<f, top>> \in Entries(queue')
                     /\ \A f \in SymbolAndParams("base") : <<f, base>> \in Entries(queue')
  BY <1>2, <1>5
<1>8. /\ Covers(Entries(queue'), SymbolAndParams("fixed"))
      /\ Covers(Entries(queue'), SymbolAndParams("prepare"))
      /\ Covers(Entries(queue'), {<<"prepare", "conf">>})
      /\ cfg.keys => Covers(Entries(queue'), SymbolAndParams("top") \cup SymbolAndParams("base"))
  <2>1. \A f, c : <<f, c>>[1] = f
    OBVIOUS
  <2> QED BY <1>7, <2>1 DEF Covers
<1>9. /\ Sound(SymbolAndParams("fixed"))' /\ Sound(SymbolAndParams("prepare"))'
      /\ Loads(<<"prepare", "conf">>)'
      /\ cfg.keys => Sound(SymbolAndParams("top") \cup SymbolAndParams("base"))'
  BY <1>8, WillLoad
<1>10. ~ cfg.keys => ~ Split("prepare")'
  <2> SUFFICES ASSUME ~ cfg.keys PROVE ~ Split("prepare")'
    OBVIOUS
  <2> DEFINE f == <<"prepare", "conf">>
             w == <<f, m>>
  <2>1. w \in Entries(queue') /\ w[1] = f
    BY <1>7
  <2>2. \A y \in Entries(queue') : y[1] = f => y[2] \subseteq m
    BY <1>2, <1>5 DEF SymbolAndParams
  <2> HIDE DEF w, f
  <2>3. Content(f)' \subseteq m
    BY <2>1, <2>2, WillHold
  <2> QED BY <1>3, <2>3 DEF f, Split, HasKeys
<1>11. ConfsSound'
  <2>1. Live' \subseteq {"prepare"}
    BY <1>2 DEF Live
  <2> QED BY <1>9, <1>10, <2>1 DEF ConfsSound, Top
<1>12. MergeReady'
  <2>1. todo' # <<>> => Head(todo') = "calibrate"
    BY <1>0, <1>2, NextStage
  <2> QED BY <2>1 DEF MergeReady, Before
<1>13. queue' # <<>> => \A x \in From(1) : x = dumping' => Sound(StageFiles(x))'
  BY <1>2, <1>9, FilesOfStages
<1> QED BY <1>0, <1>2, <1>6, <1>11, <1>12, <1>13, StageReady

\* An object, the file that tells whether the model was split, and more.
LEMMA calibrateReady ==
  ASSUME ReadyInv, AgreeInv', ConfigsAssumption, calibrate
  PROVE  ReadyInv'
<1>0. InStages /\ Head(todo) = "calibrate"
  <2>1. Stage3("calibrate")
    BY DEF calibrate, V3, Now, Stage3
  <2> QED BY <2>1, StageFacts DEF ReadyInv
<1>1. /\ run \in Nat /\ queue = <<>> /\ files \in [File -> SUBSET Origin] /\ "prepare" \in trusted
      /\ ConfsSound /\ StagesSound
  <2>1. run \in Nat /\ queue = <<>> /\ files \in [File -> SUBSET Origin] /\ "prepare" \in trusted
        /\ chain.driver = "V3"
    BY <1>0 DEF InStages, InStage3, FilesReady, Before
  <2> QED BY <2>1 DEF ReadyInv, Ready
<1> DEFINE conf == files[<<"prepare", "conf">>]
           source == IF HasKeys(conf) THEN "base" ELSE "prepare"
           m == ModelLoad(source)
           mrt == Calibrated(NewMrt(m), run)
           last == << <<<<"calibrate", "conf">>, conf>> >>
           writes == MrtSave("calibrate", mrt) \o last
<1>2. HasKeys(conf) <=> Split("prepare")
  BY <1>1, NothingQueued DEF Split
<1>3. Loads(<<"prepare", "conf">>) /\ Sound(SymbolAndParams(source)) /\ (HasKeys(conf) => Sound(Top))
  <2>1. "prepare" \in Live
    BY <1>1 DEF Live
  <2>2. CASE HasKeys(conf)
    BY <1>1, <1>2, <2>1, <2>2 DEF ConfsSound, Sound
  <2>3. CASE ~ HasKeys(conf)
    BY <1>1, <2>1, <2>3, FilesOfStages, Stages DEF ConfsSound, StagesSound
  <2> QED BY <2>2, <2>3
<1>4. Readable({<<"prepare", "conf">>} \cup SymbolAndParams(source)) /\ Whole(conf) /\ Whole(m)
  <2>1. Sound({<<"prepare", "conf">>} \cup SymbolAndParams(source))
    BY <1>3 DEF Sound
  <2> QED BY <1>1, <1>3, <2>1, CanLoad, WholeLoads
<1>5. /\ queue' = writes /\ dumping' = "calibrate"
      /\ todo' = Tail(todo) /\ trusted' = trusted \ From(3)
      /\ UNCHANGED <<files, cfg, status, chain>>
  BY <1>0, <1>4 DEF calibrate, Anew, Finish
<1>6. m \in SUBSET Origin /\ conf \in SUBSET Origin
  BY <1>0, <1>1, PreparedSource, ConfFiles
<1> HIDE DEF m, conf
<1>7. mrt \in Mrt /\ Whole(mrt.model) /\ Whole(mrt.ext)
  BY <1>1, <1>4, <1>6, Types, WholeModels
<1> HIDE DEF mrt
<1> DEFINE s == "calibrate"
           object == Entries(MrtSave(s, mrt))
           others == {<<<<"calibrate", "conf">>, conf>>}
<1>8. last \in Writes /\ Entries(last) = others
  BY <1>6, ConfWrite
<1>9. s \in Prefix /\ {} \in SUBSET Origin
  BY DEF Prefix
<1> HIDE DEF last, s
<1>10. Entries(MrtSave(s, mrt) \o last) = object \cup others
  BY <1>7, <1>8, <1>9, ObjectWrites
<1>11. AllWhole(object) /\ Covers(object, WithExt(s))
  BY <1>7, <1>9, SavesWhole
<1>12. \A w \in object : w[1][1] = s /\ w[1] \in WithExt(s)
  BY <1>7, <1>9, Saves, Types DEF SymbolAndParams, WithExt
<1> HIDE DEF object
<1>13. Entries(queue') = object \cup others
  BY <1>5, <1>10 DEF s
<1>14. AllWhole(Entries(queue')) /\ Covers(Entries(queue'), WithExt(s))
       /\ Covers(Entries(queue'), {<<s, "conf">>})
  <2>1. <<<<s, "conf">>, conf>> \in Entries(queue') /\ <<<<s, "conf">>, conf>>[1] = <<s, "conf">>
    BY <1>13 DEF s
  <2>2. \A w \in others : w[2] = conf
    OBVIOUS
  <2>3. AllWhole(Entries(queue'))
    BY <1>4, <1>11, <1>13, <2>2 DEF AllWhole
  <2>4. Covers(Entries(queue'), WithExt(s))
    BY <1>11, <1>13 DEF Covers
  <2> QED BY <2>1, <2>3, <2>4 DEF Covers
<1>15. Sound(WithExt("calibrate"))' /\ Loads(<<"calibrate", "conf">>)'
  BY <1>14, WillLoad DEF s
<1>16. \A w \in Entries(queue') : w[1][1] = "calibrate"
  BY <1>12, <1>13 DEF s
<1>17. Split("calibrate")' => Sound(Top)'
  <2> SUFFICES ASSUME Split("calibrate")' PROVE Sound(Top)'
    OBVIOUS
  <2>1. Content(<<s, "conf">>)' \subseteq conf
    <3> DEFINE f == <<s, "conf">>
    <3>1. Entries(queue') = object \cup {<<f, conf>>}
      BY <1>13 DEF s
    <3>2. \A w \in object : w[1] # f
      BY <1>12 DEF WithExt, SymbolAndParams
    <3> HIDE DEF f
    <3>3. Content(f)' \subseteq conf
      BY <3>1, <3>2, FileWritten
    <3> QED BY <3>3 DEF f
  <2>2. HasKeys(conf)
    BY <2>1 DEF Split, HasKeys, s
  <2> QED BY <1>1, <1>3, <1>5, <2>2, StillLoads DEF Top
<1>18. ConfsSound'
  <2>1. "prepare" \in trusted' /\ Live' \subseteq (trusted \ From(3)) \cup {"calibrate"} /\ "quantize" \notin Live'
    BY <1>1, <1>5, Stages DEF Live
  <2>2. /\ Loads(<<"prepare", "conf">>)' /\ Sound(SymbolAndParams("fixed"))'
        /\ Split("prepare")' => Sound(Top \cup SymbolAndParams("base"))'
    <3>1. "prepare" \in Told /\ \A w \in Entries(queue') : w[1][1] # "prepare"
      BY <1>16 DEF Told
    <3> QED BY <1>1, <1>5, <3>1, ConfsBefore
  <2> QED BY <1>15, <1>17, <2>1, <2>2 DEF ConfsSound
<1>19. MergeReady'
  <2>1. todo' # <<>> => Head(todo') = "quantize"
    BY <1>0, <1>5, NextStage
  <2> QED BY <2>1 DEF MergeReady, Before
<1>20. queue' # <<>> => \A x \in From(1) : x = dumping' => Sound(StageFiles(x))'
  BY <1>5, <1>15, FilesOfStages
<1> QED BY <1>0, <1>5, <1>14, <1>18, <1>19, <1>20, StageReady

LEMMA quantizeReady ==
  ASSUME ReadyInv, AgreeInv', ConfigsAssumption, quantize
  PROVE  ReadyInv'
<1>0. InStages /\ Head(todo) = "quantize"
  <2>1. Stage3("quantize")
    BY DEF quantize, V3, Now, Stage3
  <2> QED BY <2>1, StageFacts DEF ReadyInv
<1>1. /\ run \in Nat /\ queue = <<>> /\ files \in [File -> SUBSET Origin] /\ "calibrate" \in trusted
      /\ mem \in Objects /\ ConfsSound /\ StagesSound
  <2>1. run \in Nat /\ queue = <<>> /\ files \in [File -> SUBSET Origin] /\ "calibrate" \in trusted
        /\ mem \in Objects /\ chain.driver = "V3"
    BY <1>0 DEF InStages, InStage3, FilesReady, Before
  <2> QED BY <2>1 DEF ReadyInv, Ready
<1> DEFINE conf == files[<<"calibrate", "conf">>]
           old == MrtLoad("calibrate")
           mrt == QuantizedMrt(old, run)
           last == LastFiles(mrt.ext, conf)
           writes == MrtSave("quantize", mrt) \o last
           split == HasKeys(conf)
<1>2. split <=> Split("calibrate")
  BY <1>1, NothingQueued DEF Split
<1>3. /\ Loads(<<"calibrate", "conf">>) /\ Sound(WithExt("calibrate")) /\ (split => Sound(Top))
      /\ "prepare" \in trusted
  <2>1. "calibrate" \in Live
    BY <1>1 DEF Live
  <2> QED BY <1>1, <1>2, <2>1, FilesOfStages, Stages DEF ConfsSound, StagesSound
<1>4. /\ Readable({<<"calibrate", "conf">>} \cup WithExt("calibrate"))
      /\ Whole(conf) /\ Whole(old.model) /\ Whole(old.ext)
  <2>1. Sound({<<"calibrate", "conf">>} \cup WithExt("calibrate"))
    BY <1>3 DEF Sound
  <2> QED BY <1>1, <1>3, <2>1, CanLoad, WholeLoads
<1>5. /\ mem' = [mem EXCEPT !.mrt = mrt, !.conf = conf] /\ queue' = writes
      /\ todo' = (IF split THEN <<"merge">> \o Tail(todo) ELSE Tail(todo))
      /\ dumping' = (IF split THEN "unmerged" ELSE "quantize")
      /\ trusted' = trusted \ From(4)
      /\ UNCHANGED <<files, cfg, status, chain>>
  BY <1>4 DEF quantize, LastFiles
<1>6. old \in Mrt /\ conf \in SUBSET Origin
  BY <1>1, LoadTypes, ConfFiles DEF Prefix
<1> HIDE DEF old, conf
<1>7. mrt \in Mrt /\ Whole(mrt.model) /\ Whole(mrt.ext)
  BY <1>1, <1>4, <1>6, Types, WholeMrt
<1> HIDE DEF mrt
<1>8. mem'.mrt = mrt /\ mem'.conf = conf
  BY <1>1, <1>5 DEF Objects
<1> DEFINE s == "quantize"
           e == mrt.ext
           object == Entries(MrtSave(s, mrt))
           others == {<<<<"all", "ext">>, e>>, <<<<"quantize", "conf">>, conf>>}
<1>9. last \in Writes /\ Entries(last) = others
  BY <1>6, <1>7, LastWrites DEF Mrt
<1>10. s \in Prefix /\ {} \in SUBSET Origin
  BY DEF Prefix
<1> HIDE DEF last, s
<1>11. Entries(MrtSave(s, mrt) \o last) = object \cup others
  BY <1>7, <1>9, <1>10, ObjectWrites
<1>12. AllWhole(object) /\ Covers(object, WithExt(s))
  BY <1>7, <1>10, SavesWhole
<1>13. \A w \in object : w[1][1] = s /\ w[1] \in WithExt(s)
  BY <1>7, <1>10, Saves, Types DEF SymbolAndParams, WithExt
<1> HIDE DEF object
<1>14. Entries(queue') = object \cup others
  BY <1>5, <1>11 DEF s
<1>15. AllWhole(Entries(queue')) /\ Covers(Entries(queue'), WithExt(s))
       /\ Covers(Entries(queue'), {<<s, "conf">>})
  <2>1. <<<<s, "conf">>, conf>> \in Entries(queue') /\ <<<<s, "conf">>, conf>>[1] = <<s, "conf">>
    BY <1>14 DEF s
  <2>2. \A w \in others : w[2] \in {conf, e}
    OBVIOUS
  <2>3. AllWhole(Entries(queue'))
    BY <1>4, <1>7, <1>12, <1>14, <2>2 DEF AllWhole
  <2>4. Covers(Entries(queue'), WithExt(s))
    BY <1>12, <1>14 DEF Covers
  <2> QED BY <2>1, <2>3, <2>4 DEF Covers
<1>16. Sound(WithExt("quantize"))' /\ Loads(<<"quantize", "conf">>)'
  BY <1>15, WillLoad DEF s
<1>17. \A w \in Entries(queue') : w[1][1] \in {"quantize", "all"}
  BY <1>13, <1>14 DEF s
<1>18. Split("quantize")' => split
  <2>1. Content(<<s, "conf">>)' \subseteq conf
    <3> DEFINE f == <<s, "conf">>
               firsts == object \cup {<<<<"all", "ext">>, e>>}
    <3>1. Entries(queue') = firsts \cup {<<f, conf>>}
      BY <1>14 DEF s
    <3>2. \A w \in firsts : w[1] # f
      BY <1>13 DEF WithExt, SymbolAndParams, s
    <3> HIDE DEF f, firsts
    <3>3. Content(f)' \subseteq conf
      BY <3>1, <3>2, FileWritten
    <3> QED BY <3>3 DEF f
  <2> QED BY <2>1 DEF Split, HasKeys, s
<1>19. ConfsSound'
  <2>1. {"prepare", "calibrate"} \subseteq trusted' /\ (("quantize" \in Live)' => ~ split)
    BY <1>1, <1>3, <1>5, Stages DEF Live
  <2>2. /\ Loads(<<"prepare", "conf">>)' /\ Sound(SymbolAndParams("fixed"))'
        /\ Split("prepare")' => Sound(Top \cup SymbolAndParams("base"))'
    <3>1. "prepare" \in Told /\ \A w \in Entries(queue') : w[1][1] # "prepare"
      BY <1>17 DEF Told
    <3> QED BY <1>1, <1>3, <1>5, <3>1, ConfsBefore
  <2>3. Loads(<<"calibrate", "conf">>)' /\ (Split("calibrate")' => Sound(Top)')
    <3>1. "calibrate" \in Told /\ \A w \in Entries(queue') : w[1][1] # "calibrate"
      BY <1>17 DEF Told
    <3> QED BY <1>1, <1>5, <3>1, ConfsBefore
  <2> QED BY <1>16, <1>18, <2>1, <2>2, <2>3 DEF ConfsSound
<1>20. MergeReady'
  <2>1. CASE ~ split
    <3>1. todo' # <<>> => Head(todo') \in Closing
      BY <1>0, <1>5, <2>1, NextStage
    <3> QED BY <3>1 DEF MergeReady, Before, Closing
  <2>2. CASE split
    <3>1. MrtWhole' /\ Whole(mem.conf)'
      BY <1>4, <1>7, <1>8 DEF MrtWhole, Whole
    <3>2. Sound(Top)' /\ "calibrate" \in trusted'
      BY <1>1, <1>3, <1>5, <2>2, StillLoads, Stages DEF Top
    <3> QED BY <1>16, <3>1, <3>2 DEF MergeReady, Sound
  <2> QED BY <2>1, <2>2
<1>21. queue' # <<>> => \A x \in From(1) : x = dumping' => Sound(StageFiles(x))'
  BY <1>5, <1>16, FilesOfStages, Stages
<1> QED BY <1>0, <1>5, <1>15, <1>19, <1>20, <1>21, StageReady

LEMMA mergeStageReady ==
  ASSUME ReadyInv, AgreeInv', ConfigsAssumption, merge
  PROVE  ReadyInv'
<1>0. InStages /\ Head(todo) = "merge"
  <2>1. Stage3("merge")
    BY DEF merge, V3, Now, Stage3
  <2> QED BY <2>1, StageFacts DEF ReadyInv
<1>1. /\ queue = <<>> /\ files \in [File -> SUBSET Origin] /\ mem \in Objects /\ mem.mrt \in Mrt
      /\ mem.conf \in SUBSET Origin /\ ConfsSound
      /\ Whole(mem.mrt.model) /\ Whole(mem.mrt.ext) /\ Whole(mem.conf)
      /\ Sound(Top) /\ Sound(WithExt("quantize")) /\ "calibrate" \in trusted
  <2>1. /\ queue = <<>> /\ files \in [File -> SUBSET Origin] /\ mem \in Objects /\ mem.mrt \in Mrt
        /\ mem.conf \in SUBSET Origin /\ chain.driver = "V3" /\ cfg.driver = "V3" /\ status = "running"
        /\ Before({"merge"})
    BY <1>0 DEF InStages, InStage3, Before
  <2>2. MergeReady /\ ConfsSound
    BY <2>1 DEF ReadyInv, Ready
  <2> QED BY <2>1, <2>2 DEF MergeReady, MrtWhole, Sound
<1>2. Readable(SymbolAndParams("top")) /\ "prepare" \in trusted
  BY <1>1, CanLoad DEF Top, ConfsSound, Live
<1> DEFINE top == ModelLoad("top")
           q == merge_model(mem.mrt, top)
           o == mem.mrt.ext
           c == mem.conf
           last == LastFiles(o, c)
           writes == ModelSave("all", q) \o last
<1>3. CASE ~ cfg.deps
  <2>1. Fail("config")
    BY <1>3 DEF merge
  <2> QED BY <1>1, <2>1, FailingReady
<1>4. CASE cfg.deps
  <2>1. /\ queue' = writes /\ dumping' = "quantize" /\ todo' = Tail(todo)
        /\ UNCHANGED <<files, mem, cfg, status, chain, trusted>>
    BY <1>2, <1>4 DEF merge, LastFiles
  <2>2. top \in SUBSET Origin
    BY <1>1, LoadTypes DEF Prefix
  <2> HIDE DEF top
  <2>3. q \in SUBSET Origin /\ o \in SUBSET Origin /\ Whole(q)
    <3>1. 0 \in Nat
      OBVIOUS
    <3> QED BY <1>1, <2>2, <3>1, WholeMrt, Types DEF Mrt
  <2> HIDE DEF q
  <2> DEFINE s == "all"
             model == Entries(ModelSave(s, q))
             others == {<<<<"all", "ext">>, o>>, <<<<"quantize", "conf">>, c>>}
  <2>4. last \in Writes /\ Entries(last) = others
    BY <1>1, <2>3, LastWrites
  <2>5. s \in Prefix
    BY DEF Prefix
  <2> HIDE DEF last, s
  <2>6. Entries(ModelSave(s, q) \o last) = model \cup Entries(last)
    BY <1>1, <2>3, <2>4, <2>5, ObjectWrites
  <2>7. /\ AllWhole(model) /\ Covers(model, SymbolAndParams(s))
        /\ \A w \in model : w[1][1] = s
    BY <1>1, <2>3, <2>5, SavesWhole, SaveNames
  <2> HIDE DEF model
  <2>8. Entries(queue') = model \cup others
    BY <2>1, <2>4, <2>6 DEF s
  <2>9. AllWhole(Entries(queue'))
    <3>1. \A w \in others : w[2] \in {o, c}
      OBVIOUS
    <3> QED BY <1>1, <2>7, <2>8, <3>1 DEF AllWhole
  <2>10. Sound(WithExt("all"))' /\ Loads(<<"quantize", "conf">>)'
    <3>1. Covers(Entries(queue'), SymbolAndParams("all"))
      BY <2>7, <2>8 DEF Covers, s
    <3>2. Covers(Entries(queue'), {<<"all", "ext">>, <<"quantize", "conf">>})
      <4>1. /\ <<<<"all", "ext">>, o>> \in Entries(queue') /\ <<<<"all", "ext">>, o>>[1] = <<"all", "ext">>
            /\ <<<<"quantize", "conf">>, c>> \in Entries(queue')
            /\ <<<<"quantize", "conf">>, c>>[1] = <<"quantize", "conf">>
        BY <2>8
      <4> QED BY <4>1 DEF Covers
    <3>3. /\ \A f \in SymbolAndParams("all") : Loads(f)'
          /\ Loads(<<"all", "ext">>)' /\ Loads(<<"quantize", "conf">>)'
      BY <3>1, <3>2, WillLoad
    <3> QED BY <3>3 DEF Sound, WithExt
  <2>11. \A w \in Entries(queue') : w[1][1] \in {"quantize", "all"}
    BY <2>7, <2>8 DEF s
  <2>12. ConfsSound'
    <3>1. {"prepare", "calibrate"} \subseteq trusted'
      BY <1>1, <1>2, <2>1
    <3>2. /\ Loads(<<"prepare", "conf">>)' /\ Sound(SymbolAndParams("fixed"))'
          /\ Split("prepare")' => Sound(Top \cup SymbolAndParams("base"))'
      <4>1. "prepare" \in Told /\ \A w \in Entries(queue') : w[1][1] # "prepare"
        BY <2>11 DEF Told
      <4> QED BY <1>1, <1>2, <2>1, <4>1, ConfsBefore
    <3>3. Loads(<<"calibrate", "conf">>)' /\ (Split("calibrate")' => Sound(Top)')
      <4>1. "calibrate" \in Told /\ \A w \in Entries(queue') : w[1][1] # "calibrate"
        BY <2>11 DEF Told
      <4> QED BY <1>1, <2>1, <4>1, ConfsBefore
    <3> QED BY <2>10, <3>1, <3>2, <3>3 DEF ConfsSound
  <2>13. MergeReady'
    <3>1. todo' # <<>> => Head(todo') \in Closing
      BY <1>0, <2>1, NextStage
    <3> QED BY <3>1 DEF MergeReady, Before, Closing
  <2>14. queue' # <<>> => \A x \in From(1) : x = dumping' => Sound(StageFiles(x))'
    <3>1. Sound(WithExt("quantize"))'
      BY <1>1, <2>1, StillLoads
    <3> QED BY <2>1, <3>1, FilesOfStages
  <2> QED BY <1>0, <2>1, <2>9, <2>12, <2>13, <2>14, StageReady
<1> QED BY <1>3, <1>4

\* What evaluation and compilation load is there.
LEMMA ResultReadable ==
  ASSUME ReadyInv, InStages, Head(todo) \in Closing
  PROVE  Readable(ResultFiles \cup SymbolAndParams("fixed")) /\ ConfsSound
<1>1. queue = <<>> /\ "quantize" \in Live /\ Live = trusted /\ ConfsSound /\ StagesSound
  <2>1. queue = <<>> /\ "quantize" \in Live /\ Live = trusted /\ chain.driver = "V3"
    BY DEF InStages, InStage3, FilesReady, Before
  <2> QED BY <2>1 DEF ReadyInv, Ready
<1>2. /\ Loads(<<"quantize", "conf">>) /\ Sound(SymbolAndParams("fixed"))
      /\ Split("quantize") => Sound(WithExt("all"))
  BY <1>1 DEF ConfsSound
<1>3. Sound(WithExt("quantize"))
  BY <1>1, FilesOfStages, Stages DEF StagesSound
<1>4. HasKeys(files[<<"quantize", "conf">>]) <=> Split("quantize")
  BY <1>1, NothingQueued DEF Split
<1>5. Sound(WithExt(Result))
  BY <1>2, <1>3, <1>4 DEF Result
<1>6. Sound(ResultFiles \cup SymbolAndParams("fixed"))
  BY <1>2, <1>5 DEF ResultFiles, Sound
<1> QED BY <1>1, <1>6, CanLoad

LEMMA closingReady ==
  ASSUME ReadyInv, AgreeInv', ConfigsAssumption, evaluate \/ mrt_compile
  PROVE  ReadyInv'
<1>0. InStages /\ Head(todo) \in Closing /\ (mrt_compile => Head(todo) = "compile")
      /\ (evaluate => Head(todo) = "evaluate")
  <2>1. evaluate => Stage3("evaluate")
    BY DEF evaluate, V3, Now, Stage3
  <2>2. mrt_compile => Stage3("compile")
    BY DEF mrt_compile, V3, Now, Stage3
  <2> QED BY <2>1, <2>2, StageFacts DEF ReadyInv, Closing
<1>1. /\ Readable(ResultFiles \cup SymbolAndParams("fixed")) /\ Readable(ResultFiles) /\ ConfsSound
      /\ queue = <<>> /\ files \in [File -> SUBSET Origin] /\ run \in Nat
  BY <1>0, ResultReadable DEF Readable, InStages, InStage3
<1>2. /\ dumping' = Head(todo) /\ todo' = Tail(todo)
      /\ UNCHANGED <<files, cfg, status, chain, trusted>>
  BY <1>1 DEF evaluate, mrt_compile, Finish
<1>3. \A w \in Entries(queue') : w[1][1] = "cvm"
  <2>1. CASE evaluate
    <3>1. queue' = <<>>
      BY <1>1, <2>1 DEF evaluate, Finish
    <3> QED BY <3>1, EntriesOf
  <2>2. CASE mrt_compile
    <3> DEFINE m == ModelLoad(Result)
               x == files[<<Result, "ext">>]
               save == ModelSave("cvm", m)
               last == << <<<<"cvm", "ext">>, x>> >>
    <3>1. queue' = save \o last
      BY <1>1, <2>2 DEF mrt_compile, Finish
    <3>2. m \in SUBSET Origin /\ x \in SUBSET Origin /\ "cvm" \in Prefix
      <4>1. Result \in Prefix
        BY DEF Result, Prefix
      <4>2. m \subseteq Origin
        BY <1>1, <4>1, LoadTypes
      <4> QED BY <1>1, <4>1, <4>2, FileNames DEF Prefix
    <3> HIDE DEF m, x
    <3>3. NoMrt \in Mrt
      BY <1>1, Types
    <3>4. last \in Writes /\ Entries(last) = {<<<<"cvm", "ext">>, x>>}
      BY <3>2, ExtWrite
    <3>5. save \in Writes /\ \A w \in Entries(save) : w[1][1] = "cvm"
      BY <3>2, <3>3, SaveNames
    <3> HIDE DEF save, last
    <3>6. Entries(queue') = Entries(save) \cup Entries(last)
      BY <3>1, <3>4, <3>5, EntriesConcat
    <3> QED BY <3>4, <3>5, <3>6
  <2> QED BY <2>1, <2>2
<1>4. dumping' \notin From(1)
  BY <1>0, <1>2, Stages DEF Closing
<1>5. ConfsSound'
  BY <1>1, <1>2, <1>3, <1>4, ConfsLeft
<1>6. MergeReady'
  <2>1. todo' # <<>> => Head(todo') \in Closing
    BY <1>0, <1>2, NextStage DEF Closing
  <2> QED BY <2>1 DEF MergeReady, Before, Closing
<1>7. AllWhole(Entries(queue'))
  BY <1>3 DEF AllWhole
<1>8. queue' # <<>> => \A x \in From(1) : x = dumping' => Sound(StageFiles(x))'
  BY <1>4
<1> QED BY <1>0, <1>2, <1>5, <1>6, <1>7, <1>8, StageReady

(***************************************************************************)
(* Every step                                                              *)
(***************************************************************************)
\* Whoever is asked to compile was configured to.
LEMMA AskedAtStart ==
  ASSUME ConfigsAssumption, NEW c \in Configs, c.driver # "V3", Compiles(StagesOf(c))
  PROVE  Compiles(c.tail)
<1> DEFINE t == c.tail
           s == StagesOf(c)
<1>1. t \in Seq(Steps) /\ s = Stage \o t
  BY TailPlans DEF ConfigsAssumption, Config, StagesOf
<1>2. Stage \in Seq(Steps) /\ Len(Stage) = 5
  BY StepNames DEF Stage
<1> HIDE DEF t, s
<1>3. /\ s \in Seq(Steps) /\ Len(s) = 5 + Len(t) /\ Len(t) \in Nat
      /\ \A i \in 1 .. 5 : s[i] = Stage[i]
      /\ \A i \in 1 .. Len(t) : s[5 + i] = t[i]
  <2>1. /\ Stage \o t \in Seq(Steps) /\ Len(Stage \o t) = Len(Stage) + Len(t) /\ Len(t) \in Nat
        /\ \A i \in 1 .. Len(Stage) : (Stage \o t)[i] = Stage[i]
        /\ \A i \in 1 .. Len(t) : (Stage \o t)[Len(Stage) + i] = t[i]
    BY <1>1, <1>2, Joined
  <2> QED BY <1>1, <1>2, <2>1
<1>4. PICK i \in DOMAIN s : s[i] = "compile"
  BY DEF Compiles, s
<1>5. i \in 1 .. Len(s)
  BY <1>3, <1>4
<1>6. CASE i \in 1 .. 5
  <2>1. i \in {1, 2, 3, 4, 5}
    BY <1>6
  <2> QED BY <1>3, <1>4, <2>1, Stages
<1>7. CASE i \notin 1 .. 5
  <2>1. i - 5 \in 1 .. Len(t) /\ s[5 + (i - 5)] = "compile"
    BY <1>3, <1>4, <1>5, <1>7
  <2>2. t[i - 5] = "compile" /\ i - 5 \in DOMAIN t
    BY <1>1, <1>3, <2>1
  <2> QED BY <2>2 DEF Compiles, t
<1> QED BY <1>6, <1>7

LEMMA StartReady ==
  ASSUME ReadyInv, AgreeInv', ConfigsAssumption, Start
  PROVE  ReadyInv'
<1>1. PICK c \in Configs :
        /\ cfg' = c /\ todo' = StagesOf(c) /\ chain'.driver = c.driver
        /\ trusted' = IF c.driver = chain.driver THEN trusted ELSE {}
  BY DEF Start
<1>2. /\ queue = <<>> /\ queue' = <<>> /\ status' = "running" /\ dumping' = "none" /\ files' = files
      /\ trusted' \subseteq trusted
  BY <1>1 DEF Start
<1>3. StagesSound'
  BY <1>2, StagesStillSound DEF ReadyInv
<1>4. WritesWhole' /\ FailsOnlyThere'
  BY <1>2, EntriesOf DEF WritesWhole, Pending, Entries, FailsOnlyThere
<1>5. chain'.driver = "V3" => ConfsSound'
  <2> SUFFICES ASSUME c.driver = "V3" PROVE ConfsSound'
    BY <1>1
  <2>1. CASE chain.driver = "V3"
    <3>1. ConfsSound /\ trusted' = trusted
      BY <1>1, <2>1 DEF ReadyInv, Ready
    <3>2. \A w \in Entries(queue') : w[1][1] = "cvm"
      BY <1>2, EntriesOf
    <3> QED BY <1>2, <3>1, <3>2, ConfsLeft
  <2>2. CASE chain.driver # "V3"
    <3>1. Live' = {}
      BY <1>1, <1>2, <2>2 DEF Live
    <3> QED BY <3>1 DEF ConfsSound
  <2> QED BY <2>1, <2>2
<1>6. /\ c.driver # "V3" /\ todo' # <<>> => Head(todo') = "prepare"
      /\ c.driver = "V3" /\ todo' # <<>> => Head(todo') # "merge"
  <2>1. c.driver = "V3" => c.start \in {0, 1, 2, 3}
    BY DEF ConfigsAssumption
  <2> QED BY <1>1, <2>1, FirstStage DEF Closing
<1>7. c.driver = "V3" => MergeReady'
  BY <1>6 DEF MergeReady, Before
<1>8. c.driver # "V3" => Bound' /\ CompilesAsked'
  <2>1. c.driver # "V3" => Bound'
    BY <1>2, <1>6 DEF Bound, Before, Closing
  <2>2. c.driver # "V3" /\ Compiles(StagesOf(c)) => Compiles(c.tail)
    BY AskedAtStart
  <2> QED BY <1>1, <1>2, <2>1, <2>2 DEF CompilesAsked, Compiles
<1> QED BY <1>1, <1>3, <1>4, <1>5, <1>7, <1>8 DEF ReadyInv, Ready

\* What is in the queue when the last file is written can be loaded.
LEMMA WriteReady ==
  ASSUME ReadyInv, AgreeInv', ConfigsAssumption, Write
  PROVE  ReadyInv'
<1>1. /\ queue # <<>> /\ files' = [files EXCEPT ![queue[1][1]] = queue[1][2]]
      /\ queue' = Tail(queue) /\ trusted \subseteq trusted'
      /\ UNCHANGED <<mem, cfg, todo, status, run, deaths, dumping, chain, used>>
  BY DEF Write, WriteFile
<1>2. queue \in Writes /\ files \in [File -> SUBSET Origin] /\ WritesWhole /\ AgreeInv
  BY <1>1, PendingFacts DEF ReadyInv, Ready, AgreeInv, TrustInv, TypeOK
<1> DEFINE w == queue[1]
           rest == Entries(Tail(queue))
<1>3. Pending = {w} \cup rest /\ Pending' = rest
  BY <1>1, <1>2, EntriesTail DEF Pending, Entries
<1>4. files' = [files EXCEPT ![w[1]] = w[2]]
  BY <1>1
<1> HIDE DEF w, rest
<1>5. \A p \in Prefix \ {"cvm"} : KeepLoads(p)
  <2> SUFFICES ASSUME NEW f \in File, f[1] # "cvm", Loads(f) PROVE Loads(f)'
    BY DEF KeepLoads
  <2>1. CASE \E y \in rest : y[1] = f
    BY <1>3, <2>1 DEF Loads, Queued
  <2>2. CASE ~ (\E y \in rest : y[1] = f) /\ w[1] = f
    <3>1. w \in Pending /\ Whole(w[2])
      BY <1>2, <1>3, <2>2 DEF WritesWhole
    <3>2. files'[f] = w[2]
      BY <1>2, <1>4, <2>2
    <3> QED BY <3>1, <3>2 DEF Loads, Whole
  <2>3. CASE ~ (\E y \in rest : y[1] = f) /\ w[1] # f
    <3>1. Whole(files[f])
      BY <1>3, <2>3 DEF Loads, Queued
    <3>2. files'[f] = files[f]
      BY <1>2, <1>4, <2>3
    <3> QED BY <3>1, <3>2 DEF Loads, Whole
  <2> QED BY <2>1, <2>2, <2>3
<1>6. /\ \A s \in Told : Split(s)' => Split(s)
      /\ \A s \in From(1) : (s \in Live)' <=> s \in Live
  BY <1>2, WriteShrinks, ShrinkingSets DEF Told, Prefix
<1>7. \A p \in Prefix \ {"cvm"} :
        /\ Sound(SymbolAndParams(p)) => Sound(SymbolAndParams(p))'
        /\ Sound(WithExt(p)) => Sound(WithExt(p))'
  BY <1>5, KeepSound
<1>8. StagesSound'
  <2> SUFFICES ASSUME NEW s \in From(1), (s \in Live)' PROVE Sound(StageFiles(s))'
    BY DEF StagesSound
  <2>1. Sound(StageFiles(s))
    BY <1>6 DEF ReadyInv, Ready, StagesSound
  <2>2. \A f \in StageFiles(s) : f \in File /\ f[1] \in Prefix \ {"cvm"}
    <3>1. PICK k \in 1 .. 5 : s = Stage[k]
      BY DEF From, Stage
    <3>2. \A f \in StageFiles(s) : f[1] \in {"prepare", "top", "base", "calibrate", "quantize", "all"}
      BY PrefixOfStage, Stages
    <3> QED BY <3>1, <3>2, StageFileNames DEF Prefix
  <2> QED BY <1>5, <2>1, <2>2 DEF Sound, KeepLoads
<1>9. WritesWhole'
  BY <1>2, <1>3 DEF WritesWhole, Whole
<1>10. FailsOnlyThere'
  BY <1>1 DEF ReadyInv, Ready, FailsOnlyThere
<1>11. chain'.driver = "V3" => ConfsSound'
  <2> SUFFICES ASSUME chain.driver = "V3" PROVE ConfsSound'
    BY <1>1
  <2>1. ConfsSound
    BY DEF ReadyInv, Ready
  <2>2. Told \subseteq From(1) /\ Told \subseteq Prefix \ {"cvm"}
        /\ {"fixed", "top", "base", "all"} \subseteq Prefix \ {"cvm"}
    BY Stages DEF Told, Prefix
  <2>3. \A s \in Told : (s \in Live)' => s \in Live /\ KeepLoads(s) /\ (Split(s)' => Split(s))
    BY <1>5, <1>6, <2>2
  <2>4. KeepLoads("fixed") /\ KeepLoads("top") /\ KeepLoads("base") /\ KeepLoads("all")
    BY <1>5, <2>2
  <2> QED BY <1>1, <2>1, <2>3, <2>4, ConfsStill
<1>12. MergeReady => MergeReady'
  <2>1. {"top", "quantize"} \subseteq Prefix \ {"cvm"}
    BY DEF Prefix
  <2>2. Sound(Top \cup WithExt("quantize")) => Sound(Top \cup WithExt("quantize"))'
    <3>1. \A S, T : Sound(S \cup T) <=> Sound(S) /\ Sound(T)
      BY DEF Sound
    <3>2. Sound(Top)' /\ Sound(WithExt("quantize"))' => Sound(Top \cup WithExt("quantize"))'
      BY DEF Sound
    <3> QED BY <1>7, <2>1, <3>1, <3>2 DEF Top
  <2> QED BY <1>1, <2>2 DEF MergeReady, Before, MrtWhole, Whole
<1>13. Bound /\ CompilesAsked => Bound' /\ CompilesAsked'
  BY <1>1 DEF Bound, Before, MrtWhole, Whole, CompilesAsked, Compiles
<1> QED BY <1>1, <1>8, <1>9, <1>10, <1>11, <1>12, <1>13 DEF ReadyInv, Ready

\* The files that the writer that died does not write.
LEMMA KillKeeps ==
  ASSUME AgreeInv, Kill, NEW p \in Prefix, queue # <<>> => p \notin PrefixesOf(dumping)
  PROVE  KeepLoads(p) /\ Shrinks(p)
<1>1. /\ files' = IF queue = <<>> THEN files ELSE [files EXCEPT ![queue[1][1]] = Torn]
      /\ queue' = <<>>
  BY DEF Kill, Die
<1>2. \A f : Content(f)' = files'[f] /\ ~ Queued(f)'
  BY <1>1, EntriesOf DEF Content, Queued, Pending, Entries
<1>3. ASSUME NEW f \in File, f[1] = p PROVE ~ Queued(f) /\ files'[f] = files[f] /\ Content(f) = files[f]
  <2>1. CASE queue = <<>>
    <3>1. ~ Queued(f)
      BY <2>1, EntriesOf DEF Queued, Pending
    <3> QED BY <1>1, <2>1, <3>1 DEF Content
  <2>2. CASE queue # <<>>
    <3>1. /\ queue[1] \in Pending /\ files \in [File -> SUBSET Origin]
          /\ \A w \in Pending : w[1][1] \in PrefixesOf(dumping)
      BY <2>2, PendingFacts DEF AgreeInv, TrustInv, TypeOK, WritesOwn
    <3>2. ~ Queued(f) /\ f # queue[1][1]
      BY <1>3, <2>2, <3>1 DEF Queued
    <3>3. files'[f] = files[f]
      BY <1>1, <2>2, <3>1, <3>2
    <3> QED BY <3>2, <3>3 DEF Content
  <2> QED BY <2>1, <2>2
<1>4. KeepLoads(p)
  BY <1>3 DEF KeepLoads, Loads, Whole
<1>5. Shrinks(p)
  <2>1. \A f \in FilesOf(p) : f \in File /\ f[1] = p
    <3>1. \A f \in FilesOf(p) : f[1] = p
      BY DEF FilesOf, WithExt, SymbolAndParams
    <3> QED BY <3>1, FilesNamed
  <2> QED BY <1>2, <1>3, <2>1 DEF Shrinks
<1> QED BY <1>4, <1>5

LEMMA KillReady ==
  ASSUME ReadyInv, AgreeInv', Kill
  PROVE  ReadyInv'
<1>1. /\ queue' = <<>> /\ status' = "killed" /\ UNCHANGED <<cfg, dumping, trusted, chain>> /\ AgreeInv
  BY DEF Kill, Die, ReadyInv
<1>2. Live' = trusted /\ trusted \subseteq Live
  BY <1>1 DEF Live
<1>3. queue # <<>> => trusted \cap Outdates(dumping) = {}
  BY DEF ReadyInv, AgreeInv, TrustInv, WritesOwn
<1>4. dumping \in Steps \cup {"none", "unmerged", "sample"} /\ trusted \subseteq From(1)
  BY <1>1 DEF AgreeInv, TrustInv, TypeOK
<1>5. \A p \in Prefix : (queue # <<>> => p \notin PrefixesOf(dumping)) => KeepLoads(p) /\ Shrinks(p)
  BY <1>1, KillKeeps
<1>6. StagesSound'
  <2> SUFFICES ASSUME NEW s \in From(1), s \in trusted PROVE Sound(StageFiles(s))'
    BY <1>2 DEF StagesSound
  <2>1. Sound(StageFiles(s))
    BY <1>2 DEF ReadyInv, Ready, StagesSound
  <2>2. PICK k \in 1 .. 5 : s = Stage[k]
    BY DEF From, Stage
  <2>3. \A f \in StageFiles(s) : f \in File /\ f[1] \in Prefix
    <3>1. \A f \in StageFiles(s) : f[1] \in {"prepare", "top", "base", "calibrate", "quantize", "all"}
      BY <2>2, PrefixOfStage, Stages
    <3> QED BY <2>2, <3>1, StageFileNames DEF Prefix
  <2>4. queue # <<>> => \A f \in StageFiles(s) : f[1] \notin PrefixesOf(dumping)
    BY <1>3, <1>4, <2>2, OthersFiles
  <2> QED BY <1>5, <2>1, <2>3, <2>4 DEF Sound, KeepLoads
<1>7. chain'.driver = "V3" => ConfsSound'
  <2> SUFFICES ASSUME chain.driver = "V3" PROVE ConfsSound'
    BY <1>1
  <2>1. ConfsSound
    BY DEF ReadyInv, Ready
  <2>2. /\ queue # <<>> => dumping \notin {"split", "merge"}
        /\ trusted \cap {"split", "merge"} = {}
    BY <1>1 DEF AgreeInv, TrustInv, WritesOwn
  <2>3. queue # <<>> => /\ "prepare" \in PrefixesOf(dumping) \/ "fixed" \in PrefixesOf(dumping)
                             => dumping = "prepare"
                        /\ "top" \in PrefixesOf(dumping) \/ "base" \in PrefixesOf(dumping)
                             => dumping = "prepare"
                        /\ "calibrate" \in PrefixesOf(dumping) => dumping = "calibrate"
                        /\ "quantize" \in PrefixesOf(dumping) => dumping \in {"quantize", "unmerged"}
                        /\ "all" \in PrefixesOf(dumping) => dumping \in {"quantize", "unmerged"}
    <3>1. "fixed" \in PrefixesOf(dumping) => dumping = "prepare"
      <4>1. CASE dumping \in {"evaluate", "compile", "none", "sample"}
        BY <4>1 DEF PrefixesOf
      <4>2. CASE dumping \in {"prepare", "split", "calibrate", "quantize", "unmerged", "merge"}
        BY <4>2, Prefixes
      <4> QED BY <1>4, <4>1, <4>2, StepNames
    <3> QED BY <1>4, <2>2, <3>1, WhoWrites
  <2>4. /\ queue # <<>> /\ dumping = "prepare" => trusted = {}
        /\ queue # <<>> /\ dumping = "calibrate" => trusted \subseteq {"prepare"}
        /\ queue # <<>> /\ dumping \in {"quantize", "unmerged"} => trusted \subseteq {"prepare", "calibrate"}
    BY <1>3, <1>4, <2>2, OutdatesTable, Stages
  <2>5. /\ {"prepare", "fixed", "top", "base", "calibrate", "quantize", "all"} \subseteq Prefix
        /\ Told = {"prepare", "calibrate", "quantize"}
    BY DEF Prefix, Told
  <2>6. /\ trusted # {} => /\ KeepLoads("prepare") /\ KeepLoads("fixed") /\ KeepLoads("top") /\ KeepLoads("base")
                           /\ Shrinks("prepare")
        /\ "calibrate" \in trusted => KeepLoads("calibrate") /\ Shrinks("calibrate")
        /\ "quantize" \in trusted => KeepLoads("quantize") /\ Shrinks("quantize") /\ KeepLoads("all")
    BY <1>5, <2>3, <2>4, <2>5
  <2>7. \A s \in Told : (s \in Live)' => s \in Live /\ KeepLoads(s) /\ (Split(s)' => Split(s))
    <3> SUFFICES ASSUME NEW s \in Told, s \in trusted PROVE KeepLoads(s) /\ (Split(s)' => Split(s))
      BY <1>2
    <3>1. KeepLoads(s) /\ Shrinks(s)
      BY <2>5, <2>6
    <3> QED BY <3>1, ShrinkingSets
  <2> QED BY <1>1, <1>2, <2>1, <2>6, <2>7, ConfsStill
<1>8. WritesWhole' /\ FailsOnlyThere'
  BY <1>1, EntriesOf DEF WritesWhole, Pending, Entries, FailsOnlyThere
<1> QED BY <1>1, <1>6, <1>7, <1>8 DEF ReadyInv, Ready

LEMMA EndReady ==
  ASSUME ReadyInv, AgreeInv', End
  PROVE  ReadyInv'
<1>1. /\ queue = <<>> /\ status' = "idle" /\ UNCHANGED <<files, queue, cfg, dumping, trusted, chain>>
  BY DEF End
<1>2. StagesSound'
  BY <1>1, StagesStillSound DEF ReadyInv
<1>3. WritesWhole' /\ FailsOnlyThere'
  BY <1>1, EntriesOf DEF WritesWhole, Pending, Entries, FailsOnlyThere
<1>4. chain'.driver = "V3" => ConfsSound'
  <2>1. \A w \in Entries(queue') : w[1][1] = "cvm"
    BY <1>1, EntriesOf
  <2> QED BY <1>1, <2>1, ConfsLeft DEF ReadyInv, Ready
<1> QED BY <1>1, <1>2, <1>3, <1>4 DEF ReadyInv, Ready

LEMMA StutterReady ==
  ASSUME ReadyInv, AgreeInv', UNCHANGED vars
  PROVE  ReadyInv'
<1>1. UNCHANGED <<files, queue, mem, cfg, todo, status, run, deaths, dumping, trusted, chain, used>>
  BY DEF vars
<1>2. (\A f : Loads(f)' <=> Loads(f)) /\ Live' = Live /\ (\A p : Split(p)' <=> Split(p))
  BY <1>1 DEF Loads, Queued, Pending, Entries, Whole, Live, Split, Content, HasKeys
<1>3. \A fs : Sound(fs)' <=> Sound(fs)
  BY <1>2 DEF Sound
<1>4. WritesWhole' /\ StagesSound' /\ FailsOnlyThere'
  BY <1>1, <1>2, <1>3 DEF ReadyInv, Ready, WritesWhole, StagesSound, FailsOnlyThere, Pending, Entries, Whole
<1>5. ConfsSound => ConfsSound'
  BY <1>1, <1>2, <1>3 DEF ConfsSound, Top
<1>6. MergeReady => MergeReady'
  BY <1>1, <1>2, <1>3 DEF MergeReady, Before, MrtWhole, Whole, Top
<1>7. Bound /\ CompilesAsked => Bound' /\ CompilesAsked'
  BY <1>1 DEF Bound, Before, MrtWhole, Whole, CompilesAsked, Compiles
<1> QED BY <1>1, <1>4, <1>5, <1>6, <1>7 DEF ReadyInv, Ready

LEMMA NextReady ==
  ASSUME ReadyInv, ConfigsAssumption, [Next]_vars
  PROVE  ReadyInv'
<1>1. AgreeInv'
  BY NextAgrees DEF ReadyInv
<1>2. CASE prepare \/ calibrate \/ quantize \/ merge \/ evaluate \/ mrt_compile
  BY <1>1, <1>2, prepareReady, calibrateReady, quantizeReady, mergeStageReady, closingReady
<1>3. CASE Start \/ Write \/ Kill \/ End
  BY <1>1, <1>3, StartReady, WriteReady, KillReady, EndReady
<1>4. CASE Rest \/ UNCHANGED vars
  BY <1>1, <1>4, StutterReady DEF Rest
<1> QED BY <1>1, <1>2, <1>3, <1>4, ScriptReady DEF Next

LEMMA InitReady ==
  ASSUME Init
  PROVE  ReadyInv
<1>1. Live = {} /\ queue = <<>> /\ status = "idle" /\ chain.driver = "none"
  BY DEF Init, FilesInit, Live
<1>2. Ready
  BY <1>1, EntriesOf DEF Ready, WritesWhole, Pending, StagesSound, FailsOnlyThere
<1> QED BY <1>2, InitAgrees DEF ReadyInv

(***************************************************************************)
(* A checkpoint that is up to date can always be loaded, whatever was      *)
(* killed, refused or restarted before; and an invocation that passed the  *)
(* checks for its files fails for want of an object, or in a second        *)
(* slicing, only where the configuration asks for what never works.        *)
(***************************************************************************)
THEOREM CheckpointsLoad == Spec => []FailsOnlyThere
<1>1. Init => ReadyInv
  BY InitReady
<1>2. ReadyInv /\ [Next]_vars => ReadyInv'
  BY NextReady, ConfigsAssumption
<1>3. ReadyInv => FailsOnlyThere
  BY DEF ReadyInv, Ready
<1> QED BY <1>1, <1>2, <1>3, PTL DEF Spec

(***************************************************************************)
(* With configurations that do not ask for it, a restart from a checkpoint *)
(* that is up to date does not fail.                                       *)
(***************************************************************************)
THEOREM RestartsWork ==
  ASSUME \A c \in Configs : ~ Unsupported(c)
  PROVE  Spec => []RestartWorks
<1>1. Init => ReadyInv
  BY InitReady
<1>2. ReadyInv /\ [Next]_vars => ReadyInv'
  BY NextReady, ConfigsAssumption
<1>3. ReadyInv => RestartWorks
  BY DEF ReadyInv, Ready, FailsOnlyThere, RestartWorks
<1> QED BY <1>1, <1>2, <1>3, PTL DEF Spec
=============================================================================
