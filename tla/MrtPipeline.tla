----------------------------- MODULE MrtPipeline ----------------------------
(***************************************************************************)
(* The drivers of the model representation tool: the script of mrt/main2.py*)
(* (V2/main.py is its twin) and the stages of mrt/V3, run again and again  *)
(* on one model directory, killed at any write, restarted from a           *)
(* checkpoint.                                                             *)
(*                                                                         *)
(* The code checks that the checkpoint's files exist and nothing else, so  *)
(* a user has to know that they are up to date; `trusted` is what that user*)
(* knows: the stages whose checkpoint was completed after the stages       *)
(* before it last ran.                                                     *)
(***************************************************************************)
EXTENDS MrtFiles

CONSTANTS
  Configs,     \* configurations the user may run
  MaxDeaths    \* bound: times the process is killed

VARIABLES
  cfg,         \* configuration of the invocation
  todo,        \* its stages still to run
  status,      \* "idle", "running", or why the last invocation failed
  run,         \* number of the invocation
  deaths,
  dumping,     \* the stage whose files are being written
  trusted,     \* see above
  chain,       \* driver and splitting of the last invocation
  used         \* origins combined by the last merge, evaluation or compilation

vars == <<files, queue, mem, cfg, todo, status, run, deaths, dumping, trusted, chain, used>>

Stage == <<"prepare", "split", "calibrate", "quantize", "merge">>
From(k) == {Stage[i] : i \in k .. Len(Stage)}

(* A configuration.  start: the stage whose checkpoint is loaded (0 runs   *)
(* everything); dump: stages whose files are written; tail: the sections   *)
(* EVALUATION and COMPILATION; deps: are the attribute dependencies given  *)
(* that merging needs?  sliced: channel slicing in the groups of V2.       *)
Config == [driver : {"main2", "V2", "V3"}, start : 0 .. 5, keys : BOOLEAN,
           dump : SUBSET From(1),
           tail : {<<>>, <<"evaluate">>, <<"compile">>, <<"evaluate", "compile">>},
           deps : BOOLEAN, sliced : BOOLEAN, calibrate_num : 1 .. 2]

(* V3 asserts that it knows the stage it is to start after.               *)
ASSUME ConfigsAssumption ==
  /\ Configs \subseteq Config /\ MaxDeaths \in Nat
  /\ \A c \in Configs : c.driver = "V3" => c.start \in 0 .. 3

Now(stage) == status = "running" /\ queue = <<>> /\ todo # <<>> /\ Head(todo) = stage
Main(stage) == Now(stage) /\ cfg.driver = "main2"
V2(stage) == Now(stage) /\ cfg.driver = "V2"
V3(stage) == Now(stage) /\ cfg.driver = "V3"

(* A stage binds objects and has files to write, after which the rest      *)
(* follows.                                                                *)
Finish(objects, writes) ==
  /\ mem' = objects
  /\ queue' = writes
  /\ dumping' = Head(todo)
  /\ todo' = Tail(todo)
  /\ UNCHANGED <<files, cfg, status, run, deaths, chain>>

(* A stage run anew outdates the checkpoints of the later ones.            *)
Anew(k, objects, writes) ==
  Finish(objects, writes) /\ trusted' = trusted \ From(k) /\ UNCHANGED used
Skip == Finish(mem, <<>>) /\ UNCHANGED <<trusted, used>>
Dump(stage, writes) == IF stage \in cfg.dump THEN writes ELSE <<>>

(* An exception ends the process.                                          *)
Fail(why) ==
  /\ status' = why
  /\ todo' = <<>>
  /\ mem' = NoObjects
  /\ UNCHANGED <<files, queue, cfg, run, deaths, dumping, trusted, chain, used>>

(* A checkpoint: its files must be there.                                  *)
Checkpoint(fs, objects) ==
  IF Readable(fs) THEN Finish(objects, <<>>) /\ UNCHANGED <<trusted, used>>
  ELSE Fail("checkpoint")

-----------------------------------------------------------------------------
(* The sections of the scripts.                                            *)
PrepareSection ==
  \/ /\ cfg.start < 1
     /\ LET m == Prepare(run) IN
          Anew(1, [mem EXCEPT !.model = m], Dump("prepare", ModelSave("prepare", m)))
  \/ /\ cfg.start = 1
     /\ Checkpoint(SymbolAndParams("prepare"), [mem EXCEPT !.model = ModelLoad("prepare")])
  \/ cfg.start > 1 /\ Skip

(* Without keys there is nothing to split, and no such checkpoint.         *)
SplitSection ==
  \/ ~cfg.keys /\ cfg.start = 2 /\ Fail("config")
  \/ ~cfg.keys /\ cfg.start < 2 /\ Anew(2, mem, <<>>)
  \/ /\ cfg.keys /\ cfg.start < 2
     /\ LET s == split_model(mem.model, run) IN
          Anew(2, [mem EXCEPT !.base = s.base, !.top = s.top],
               Dump("split", ModelSave("top", s.top) \o ModelSave("base", s.base)))
  \/ /\ cfg.keys /\ cfg.start = 2
     /\ Checkpoint(SymbolAndParams("top") \cup SymbolAndParams("base"),
                   [mem EXCEPT !.top = ModelLoad("top"), !.base = ModelLoad("base")])
  \/ cfg.start > 2 /\ Skip

(* Later checkpoints come with the top model.                              *)
CheckpointWithTop(fs, objects) ==
  IF cfg.keys THEN Checkpoint(fs \cup SymbolAndParams("top"),
                              [objects EXCEPT !.top = ModelLoad("top")])
              ELSE Checkpoint(fs, objects)

CalibrateSection ==
  \/ /\ cfg.start < 3
     /\ LET mrt == Calibrated(NewMrt(IF cfg.keys THEN mem.base ELSE mem.model), run) IN
          Anew(3, [mem EXCEPT !.mrt = mrt], Dump("calibrate", MrtSave("calibrate", mrt)))
  \/ /\ cfg.start = 3
     /\ CheckpointWithTop(WithExt("calibrate"), [mem EXCEPT !.mrt = MrtLoad("calibrate")])
  \/ cfg.start > 3 /\ Skip

LoadQuantized ==
  LET mrt == MrtLoad("quantize")
  IN  [mem EXCEPT !.mrt = mrt, !.inputs_ext = mrt.ext]

(* With Dump, the scales are also written for the merged model.            *)
QuantizeSection ==
  \/ /\ cfg.start < 4
     /\ LET mrt == QuantizedMrt(mem.mrt, run) IN
          Anew(4, [mem EXCEPT !.mrt = mrt, !.inputs_ext = mrt.ext],
               Dump("quantize", MrtSave("quantize", mrt)
                                \o << <<<<"all", "ext">>, mrt.ext>> >>))
  \/ cfg.start = 4 /\ CheckpointWithTop(WithExt("quantize"), LoadQuantized)
  \/ cfg.start > 4 /\ Skip

LoadMerged == [mem EXCEPT !.qmodel = ModelLoad("all"), !.oscales = files[<<"all", "ext">>],
                          !.inputs_ext = files[<<"all", "ext">>]]

MergeSection ==
  \/ /\ ~cfg.keys /\ cfg.start # 5
     /\ Finish([mem EXCEPT !.qmodel = mem.mrt.model, !.oscales = mem.mrt.ext], <<>>)
     /\ UNCHANGED <<trusted, used>>
  \/ ~cfg.keys /\ cfg.start = 5 /\ Fail("config")
  \/ cfg.keys /\ cfg.start < 5 /\ ~cfg.deps /\ Fail("config")
  \/ /\ cfg.keys /\ cfg.start < 5 /\ cfg.deps
     /\ LET q == merge_model(mem.mrt, mem.top) IN
          /\ Finish([mem EXCEPT !.qmodel = q, !.oscales = mem.mrt.ext,
                                !.inputs_ext = mem.mrt.ext],
                    Dump("merge", ModelSave("all", q)
                                  \o << <<<<"all", "ext">>, mem.mrt.ext>> >>))
          /\ used' = q
     /\ trusted' = trusted \ From(5)
  \/ cfg.keys /\ cfg.start = 5 /\ Checkpoint(WithExt("all"), LoadMerged)

(* Data is scaled by inputs_ext, run through the quantised model, and the  *)
(* outputs are divided by oscales.                                         *)
EvaluateSection ==
  /\ used' = mem.qmodel \cup mem.oscales \cup mem.inputs_ext
  /\ Finish(mem, <<>>) /\ UNCHANGED trusted

(* to_cvm writes the symbol and the parameters; then sample data is scaled *)
(* by what the MRT object says, which a start at MERGE_MODEL never bound.  *)
CompileSection ==
  /\ Finish(mem, ModelSave("cvm", mem.qmodel)) /\ UNCHANGED trusted
  /\ used' = mem.qmodel \cup mem.oscales \cup mem.inputs_ext
Compiled == status = "running" /\ queue = <<>> /\ dumping = "compile"
SampleSection ==
  /\ IF mem.mrt = NoMrt THEN Fail("unbound")
     ELSE /\ used' = used \cup mem.mrt.ext
          /\ queue' = << <<<<"cvm", "ext">>, mem.oscales>> >>
          /\ dumping' = "sample"
          /\ UNCHANGED <<files, mem, cfg, todo, status, run, deaths, trusted, chain>>

(* The script of main2.py.                                                 *)
PREPARE == Main("prepare") /\ PrepareSection
SPLIT_MODEL == Main("split") /\ SplitSection
CALIBRATION == Main("calibrate") /\ CalibrateSection
QUANTIZATION == Main("quantize") /\ QuantizeSection
MERGE_MODEL == Main("merge") /\ MergeSection
EVALUATION == Main("evaluate") /\ EvaluateSection
COMPILATION == Main("compile") /\ CompileSection
SAMPLE == cfg.driver = "main2" /\ Compiled /\ SampleSection

(* The script of V2/main.py.  A second calibration slices the channels of  *)
(* a model that is already sliced: the sum that took the convolution's     *)
(* name has no slice_channel pass, and the assertion of apply_pass fails.  *)
SliceTwice == cfg.start < 3 /\ cfg.sliced /\ cfg.calibrate_num > 1
V2_PREPARE == V2("prepare") /\ PrepareSection
V2_SPLIT_MODEL == V2("split") /\ SplitSection
V2_CALIBRATION ==
  /\ V2("calibrate")
  /\ IF SliceTwice THEN Fail("slice_channel") ELSE CalibrateSection
V2_QUANTIZATION == V2("quantize") /\ QuantizeSection
V2_MERGE_MODEL == V2("merge") /\ MergeSection
V2_EVALUATION == V2("evaluate") /\ EvaluateSection
V2_COMPILATION == V2("compile") /\ CompileSection
V2_SAMPLE == cfg.driver = "V2" /\ Compiled /\ SampleSection

-----------------------------------------------------------------------------
(* The stages of V3.  They talk through files only: every stage loads what *)
(* it needs and writes a .conf file last, which tells the next stages      *)
(* whether the model was split.                                            *)
HasKeys(conf) == \E o \in conf : o.split # 0

prepare ==
  /\ V3("prepare")
  /\ LET m == Prepare(run)
         s == split_model(m, run)
         whole == ModelSave("fixed", m) \o ModelSave("prepare", m)
                  \o << <<<<"prepare", "conf">>, m>> >>
         halves == ModelSave("top", s.top) \o ModelSave("base", s.base)
                   \o << <<<<"prepare", "conf">>, s.base>> >>
     IN  Anew(1, mem, IF cfg.keys THEN whole \o halves ELSE whole)

calibrate ==
  /\ V3("calibrate")
  /\ LET conf == files[<<"prepare", "conf">>]
         source == IF HasKeys(conf) THEN "base" ELSE "prepare"
         mrt == Calibrated(NewMrt(ModelLoad(source)), run)
     IN  IF Readable({<<"prepare", "conf">>} \cup SymbolAndParams(source))
         THEN Anew(3, mem, MrtSave("calibrate", mrt) \o << <<<<"calibrate", "conf">>, conf>> >>)
         ELSE Fail("checkpoint")

(* The checkpoint and the .conf file are written before the models are     *)
(* merged, and merging may still be refused.                               *)
quantize ==
  /\ V3("quantize")
  /\ LET conf == files[<<"calibrate", "conf">>]
         mrt == QuantizedMrt(MrtLoad("calibrate"), run)
     IN  IF ~Readable({<<"calibrate", "conf">>} \cup WithExt("calibrate")) THEN Fail("checkpoint")
         ELSE /\ mem' = [mem EXCEPT !.mrt = mrt, !.conf = conf]
              /\ queue' = MrtSave("quantize", mrt) \o << <<<<"all", "ext">>, mrt.ext>>,
                                                         <<<<"quantize", "conf">>, conf>> >>
              /\ todo' = IF HasKeys(conf) THEN <<"merge">> \o Tail(todo) ELSE Tail(todo)
              /\ dumping' = IF HasKeys(conf) THEN "unmerged" ELSE "quantize"
              /\ trusted' = trusted \ From(4)
              /\ UNCHANGED <<files, cfg, status, run, deaths, chain, used>>

merge ==
  /\ V3("merge")
  /\ LET q == merge_model(mem.mrt, ModelLoad("top")) IN
     IF ~cfg.deps THEN Fail("config")
     ELSE IF ~Readable(SymbolAndParams("top")) THEN Fail("checkpoint")
     ELSE /\ used' = q
          /\ queue' = ModelSave("all", q) \o << <<<<"all", "ext">>, mem.mrt.ext>>,
                                                <<<<"quantize", "conf">>, mem.conf>> >>
          /\ dumping' = "quantize"
          /\ todo' = Tail(todo)
          /\ UNCHANGED <<files, mem, cfg, status, run, deaths, chain, trusted>>

(* What evaluation and compilation load: the merged model if the           *)
(* configuration file of the quantisation says it was split.               *)
(* Mutant: the merged model, split or not.                                *)
ResultAll == "all"
Result == IF HasKeys(files[<<"quantize", "conf">>]) THEN "all" ELSE "quantize"
ResultFiles == {<<"quantize", "conf">>} \cup WithExt(Result)
ResultUsed == ModelLoad(Result) \cup files[<<Result, "ext">>]

evaluate ==
  /\ V3("evaluate")
  /\ IF Readable(ResultFiles \cup SymbolAndParams("fixed"))
     THEN used' = ResultUsed /\ Finish(mem, <<>>) /\ UNCHANGED trusted
     ELSE Fail("checkpoint")

mrt_compile ==
  /\ V3("compile")
  /\ IF Readable(ResultFiles)
     THEN /\ used' = ResultUsed
          /\ Finish(mem, ModelSave("cvm", ModelLoad(Result))
                         \o << <<<<"cvm", "ext">>, files[<<Result, "ext">>]>> >>)
          /\ UNCHANGED trusted
     ELSE Fail("checkpoint")

-----------------------------------------------------------------------------
(* The stage whose checkpoint an invocation starts from.  V3 names the     *)
(* stage to start after, and prepares and splits in one.                   *)
StartsAt(c) == IF c.driver = "V3" /\ c.start >= 2 THEN c.start + 1 ELSE c.start

(* A careful user starts from a checkpoint only when it is up to date and  *)
(* the driver and the splitting are those it was made with.                *)
Careful(c) ==
  LET at == StartsAt(c)
  IN  /\ at > 0 => Stage[at] \in trusted /\ chain.driver = c.driver
      /\ at > (IF c.driver = "V3" THEN 0 ELSE 1) => chain.keys = c.keys
      /\ c.driver # "V3" /\ c.keys /\ at \in {3, 4} => "split" \in trusted

(* execute.yaml_main for V3, the order of the script otherwise.            *)
StagesOf(c) ==
  (IF c.driver = "V3" THEN SubSeq(<<"prepare", "calibrate", "quantize">>, c.start + 1, 3)
   ELSE Stage) \o c.tail

Start ==
  /\ todo = <<>> /\ queue = <<>> /\ status # "running" /\ run < MaxRuns
  /\ \E c \in Configs :
       /\ Careful(c)
       /\ cfg' = c
       /\ todo' = StagesOf(c)
       /\ chain' = [driver |-> c.driver, keys |-> c.keys]
       /\ trusted' = IF c.driver = chain.driver THEN trusted ELSE {}
  /\ status' = "running" /\ run' = run + 1 /\ mem' = NoObjects /\ dumping' = "none" /\ used' = {}
  /\ UNCHANGED <<files, queue, deaths>>

(* A stage is trusted once its last file is written.                       *)
Write ==
  /\ WriteFile
  /\ trusted' = IF Len(queue) = 1 /\ dumping \in From(1) THEN trusted \cup {dumping} ELSE trusted
  /\ UNCHANGED <<cfg, todo, status, run, deaths, dumping, chain, used>>

Kill ==
  /\ status = "running" /\ deaths < MaxDeaths
  /\ Die
  /\ deaths' = deaths + 1 /\ status' = "killed" /\ todo' = <<>>
  /\ UNCHANGED <<cfg, run, dumping, trusted, chain, used>>

End ==
  /\ status = "running" /\ todo = <<>> /\ queue = <<>> /\ (Compiled => cfg.driver = "V3")
  /\ status' = "idle" /\ mem' = NoObjects
  /\ UNCHANGED <<files, queue, cfg, todo, run, deaths, dumping, trusted, chain, used>>

Rest == status # "running" /\ run = MaxRuns /\ UNCHANGED vars

Init ==
  /\ FilesInit
  /\ cfg = CHOOSE c \in Configs : c.start = 0
  /\ todo = <<>> /\ status = "idle" /\ run = 0 /\ deaths = 0 /\ dumping = "none"
  /\ trusted = {} /\ chain = [driver |-> "none", keys |-> FALSE] /\ used = {}

Next ==
  \/ Start \/ Write \/ Kill \/ End \/ Rest
  \/ PREPARE \/ SPLIT_MODEL \/ CALIBRATION \/ QUANTIZATION \/ MERGE_MODEL
  \/ EVALUATION \/ COMPILATION \/ SAMPLE
  \/ V2_PREPARE \/ V2_SPLIT_MODEL \/ V2_CALIBRATION \/ V2_QUANTIZATION \/ V2_MERGE_MODEL
  \/ V2_EVALUATION \/ V2_COMPILATION \/ V2_SAMPLE
  \/ prepare \/ calibrate \/ quantize \/ merge \/ evaluate \/ mrt_compile

Spec == Init /\ [][Next]_vars

-----------------------------------------------------------------------------
(* Whatever was killed, refused or restarted before, the models and scales *)
(* that a merge, an evaluation or a compilation combines come from one     *)
(* preparation, one split, one calibration and one quantisation: nobody    *)
(* compares what is loaded from the directory. And the merge finds the base *)
(* outputs under the names the top model knows, also when the quantised    *)
(* base (whose outputs were renamed) was loaded from its checkpoint:       *)
(* MRT.load restores old_names.                                            *)
OutputsAgree ==
  /\ Agree(used)
  /\ \A o \in used : o.part = "merged" => o.names = "old"

(* A restart from a checkpoint that is up to date does not fail for want   *)
(* of a file or of an object the skipped stages would have bound: what     *)
(* model_zoo/config.example.ini:27-37 promises of Start.                   *)
RestartWorks == status \notin {"checkpoint", "unbound", "slice_channel"}

(* Two things do not work in the code, whoever asks for them: slicing      *)
(* channels for a second calibration, and compiling a merged model that    *)
(* was loaded. Nothing else fails, and no invocation for want of a file,   *)
(* whatever was killed, dumped or restarted before.                        *)
Compiles(stages) == \E i \in DOMAIN stages : stages[i] = "compile"
Unsupported(c) ==
  \/ c.driver = "V2" /\ c.sliced /\ c.start < 3 /\ c.calibrate_num > 1
  \/ c.driver # "V3" /\ c.start = 5 /\ Compiles(c.tail)
FailsOnlyThere ==
  /\ status # "checkpoint"
  /\ status \in {"unbound", "slice_channel"} => cfg \in Configs /\ Unsupported(cfg)

(* A stage never changes the files of the checkpoint the invocation        *)
(* started from: it can be repeated.                                       *)
StageFiles(s) ==
  CASE s = "prepare" -> SymbolAndParams("prepare")
    [] s = "split" -> SymbolAndParams("top") \cup SymbolAndParams("base")
    [] s = "calibrate" -> WithExt("calibrate")
    [] s = "quantize" -> WithExt("quantize")
    [] s = "merge" -> WithExt("all")
StartKept ==
  [][ LET at == StartsAt(cfg) IN
      status = "running" /\ at > 0 => \A f \in StageFiles(Stage[at]) : files'[f] = files[f] ]_vars

-----------------------------------------------------------------------------
(* The inductive invariant behind OutputsAgree and StartKept.              *)
Steps == From(1) \cup {"evaluate", "compile"}

TypeOK ==
  /\ files \in [File -> SUBSET Origin]
  /\ queue \in Seq(File \X SUBSET Origin)
  /\ mem \in Objects
  /\ status = "running" => cfg \in Configs
  /\ todo \in Seq(Steps)
  /\ run \in Nat /\ deaths \in Nat
  /\ dumping \in Steps \cup {"none", "unmerged", "sample"}
  /\ trusted \subseteq From(1)
  /\ chain \in [driver : {"none", "main2", "V2", "V3"}, keys : BOOLEAN]
  /\ used \subseteq Origin

(* The order of the stages: which may follow which.                        *)
Closing == {"evaluate", "compile"}
Follows(d) ==
  {<<"evaluate", "compile">>} \cup ({"merge"} \X Closing) \cup
  (IF d = "V3" THEN {<<"prepare", "calibrate">>, <<"calibrate", "quantize">>} \cup ({"quantize"} \X Closing)
   ELSE {<<"prepare", "split">>, <<"split", "calibrate">>, <<"calibrate", "quantize">>,
         <<"quantize", "merge">>})
InOrder == \A i \in 1 .. Len(todo) - 1 : <<todo[i], todo[i + 1]>> \in Follows(cfg.driver)

(* V3 leaves out the stages up to the one it starts after.                 *)
Ahead ==
  cfg.driver = "V3" =>
    \A i \in 1 .. Len(todo) : \A k \in 1 .. StartsAt(cfg) : todo[i] # Stage[k]

(* While an invocation runs, the checkpoints it may load stay trusted.     *)
StartTrusted ==
  LET at == StartsAt(cfg)
  IN  /\ chain.driver = cfg.driver /\ chain.keys = cfg.keys
      /\ at > 0 => Stage[at] \in trusted
      /\ cfg.driver # "V3" /\ cfg.keys /\ at \in {3, 4} => "split" \in trusted

(* What a stage writes, and what it outdates.                              *)
PrefixesOf(d) ==
  CASE d = "prepare" -> {"prepare", "fixed", "top", "base"}
    [] d = "split" -> {"top", "base"}
    [] d = "calibrate" -> {"calibrate"}
    [] d \in {"quantize", "unmerged"} -> {"quantize", "all"}
    [] d = "merge" -> {"all"}
    [] OTHER -> {"cvm"}
Outdates(d) == IF d = "unmerged" THEN From(4) ELSE UNION {From(k) : k \in {k \in 1 .. 5 : Stage[k] = d}}
Entries(writes) == {writes[i] : i \in 1 .. Len(writes)}
Pending == Entries(queue)
WritesOwn ==
  queue # <<>> =>
    /\ status = "running"
    /\ \A w \in Pending : w[1][1] \in PrefixesOf(dumping)
    /\ chain.driver # "V3" /\ dumping = "prepare" => \A w \in Pending : w[1][1] = "prepare"
    /\ trusted \cap Outdates(dumping) = {}
    /\ chain.driver = "V3" => dumping \notin {"split", "merge"}
    /\ chain.driver # "V3" => dumping # "unmerged"

(* A quantisation of V3 that is still to be merged is not trusted.         *)
Merging == status = "running" /\ chain.driver = "V3" /\ todo # <<>> /\ Head(todo) = "merge"
MergeUntrusted == Merging => dumping = "unmerged" /\ "quantize" \notin trusted

TrustInv ==
  /\ TypeOK /\ WritesOwn /\ MergeUntrusted
  /\ status = "running" => InOrder /\ Ahead /\ StartTrusted
  /\ status # "running" => queue = <<>> /\ todo = <<>>
  /\ chain.driver = "V3" => trusted \cap {"split", "merge"} = {}
  /\ chain.driver = "none" => trusted = {}

-----------------------------------------------------------------------------
(* What a file will hold when the queue is written; an earlier write of the *)
(* same file is counted with the last.                                     *)
Queued(f) == \E w \in Pending : w[1] = f
Content(f) == IF Queued(f) THEN UNION {w[2] : w \in {w \in Pending : w[1] = f}} ELSE files[f]
ContentOf(fs) == UNION {Content(f) : f \in fs}

(* The checkpoints that are trusted, or will be when the queue is written. *)
Live == trusted \cup (IF queue # <<>> THEN {dumping} ELSE {})

OneSplit(S) == \A x, y \in S : x.prep = y.prep /\ x.split = y.split
Same(S) == OneSplit(S) /\ \A x, y \in S : x.calib = y.calib /\ x.quant = y.quant
Unmerged(S) == \A o \in S : o.part # "merged"
Raw(S) == Unmerged(S) /\ \A o \in S : o.names = "old" /\ o.calib = 0 /\ o.quant = 0
Fits(S, top) == Same(S) /\ Unmerged(S) /\ Raw(top) /\ OneSplit(S \cup top)
Combined(S) == Agree(S) /\ \A o \in S : o.part = "merged" => o.names = "old"

Top == SymbolAndParams("top")
Old(prefix) == \A o \in Content(<<prefix, "ext">>) : o.names = "old"
Split(conf) == HasKeys(Content(<<conf, "conf">>))

(* The checkpoints of a directory, each in itself and with the top model.  *)
PrepareFits == "prepare" \in Live =>
  /\ OneSplit(ContentOf(SymbolAndParams("prepare"))) /\ Raw(ContentOf(SymbolAndParams("prepare")))
  /\ chain.driver = "V3" /\ Split("prepare") =>
       OneSplit(ContentOf(Top \cup SymbolAndParams("base"))) /\ Raw(ContentOf(Top \cup SymbolAndParams("base")))
SplitFits == "split" \in Live =>
  OneSplit(ContentOf(Top \cup SymbolAndParams("base"))) /\ Raw(ContentOf(Top \cup SymbolAndParams("base")))
FitsTop(stage) ==
  /\ Fits(ContentOf(WithExt(stage)), {}) /\ Old(stage)
  /\ (IF chain.driver = "V3" THEN Split(stage) ELSE "split" \in Live) =>
        Fits(ContentOf(WithExt(stage)), ContentOf(Top))
CalibrateFits == "calibrate" \in Live => FitsTop("calibrate")
QuantizeFits == "quantize" \in Live => FitsTop("quantize")
MergeFits ==
  "merge" \in Live \/ (chain.driver = "V3" /\ "quantize" \in Live /\ Split("quantize")) =>
    Combined(ContentOf(WithExt("all")))
FilesFit == PrepareFits /\ SplitFits /\ CalibrateFits /\ QuantizeFits /\ MergeFits

(* The objects of the process: those of the stages so far, and nothing of   *)
(* those to come.                                                          *)
Ran == mem.mrt.model \cup mem.mrt.ext
Results == mem.qmodel \cup mem.oscales \cup mem.inputs_ext
Before(stages) == todo # <<>> /\ Head(todo) \in stages
HalvesFit ==
  /\ OneSplit(mem.model) /\ Raw(mem.model)
  /\ OneSplit(mem.base \cup mem.top) /\ Raw(mem.base) /\ Raw(mem.top)
  /\ ~cfg.keys => mem.top = {}
RanFits == Fits(Ran, mem.top) /\ mem.mrt.old = "old"
ResultsFit == Combined(Results \cup mem.mrt.ext) /\ used \subseteq Results \cup mem.mrt.ext
Unbound ==
  /\ Before({"prepare", "split", "calibrate"}) => mem.mrt = NoMrt
  /\ Before({"prepare", "split", "calibrate", "quantize"}) => mem.inputs_ext = {}
  /\ Before(From(1)) => used = {} /\ mem.qmodel = {} /\ mem.oscales = {}
  /\ Before({"merge"}) => mem.inputs_ext \subseteq mem.mrt.ext
  /\ Before(From(1)) /\ cfg.start = 5 => mem.mrt = NoMrt
TopFits ==
  /\ "split" \in Live =>
       OneSplit(Ran \cup ContentOf(Top)) /\ OneSplit(mem.base \cup ContentOf(Top))
  /\ Before({"calibrate"}) /\ cfg.start < 3 /\ ~cfg.keys => "split" \notin Live
MemFits == HalvesFit /\ RanFits /\ ResultsFit /\ Unbound /\ TopFits
CompiledLast == dumping = "compile" => todo = <<>>

(* A stage of V3 finds what the one before it wrote.                       *)
FilesReady ==
  /\ Before({"calibrate"}) => "prepare" \in Live
  /\ Before({"quantize"}) => "calibrate" \in Live
  /\ Before(Closing) => "quantize" \in Live
  /\ Before({"merge"}) =>
       /\ Fits(Ran, ContentOf(Top)) /\ mem.mrt.old = "old"
       /\ Fits(ContentOf(WithExt("quantize")), ContentOf(Top)) /\ Old("quantize")

AgreeInv ==
  /\ TrustInv /\ FilesFit /\ OutputsAgree
  /\ status = "running" /\ cfg.driver # "V3" => MemFits /\ CompiledLast
  /\ status = "running" /\ cfg.driver = "V3" => FilesReady

-----------------------------------------------------------------------------
(* The inductive invariant behind RestartWorks.                            *)
Whole(S) == S # Missing /\ \A o \in S : o.part # "torn"
\* The file can be loaded, at the latest when the queue is written.
Loads(f) == Queued(f) \/ Whole(files[f])
Sound(fs) == \A f \in fs : Loads(f)
WritesWhole == \A w \in Pending : w[1][1] # "cvm" => Whole(w[2])
StagesSound == \A s \in From(1) : s \in Live => Sound(StageFiles(s))

(* In V3 a checkpoint comes with its .conf file, with the models the file  *)
(* speaks of and with the checkpoints before it.                           *)
ConfsSound ==
  /\ \A s \in {"prepare", "calibrate", "quantize"} : s \in Live => Loads(<<s, "conf">>)
  /\ "prepare" \in Live => Sound(SymbolAndParams("fixed"))
  /\ "prepare" \in Live /\ Split("prepare") => Sound(Top \cup SymbolAndParams("base"))
  /\ "calibrate" \in Live => "prepare" \in trusted
  /\ "calibrate" \in Live /\ Split("calibrate") => Sound(Top)
  /\ "quantize" \in Live => "calibrate" \in trusted
  /\ "quantize" \in Live /\ Split("quantize") => Sound(WithExt("all"))
MrtWhole == Whole(mem.mrt.model) /\ Whole(mem.mrt.ext)
MergeReady ==
  Before({"merge"}) =>
    MrtWhole /\ Whole(mem.conf) /\ Sound(Top \cup WithExt("quantize")) /\ "calibrate" \in trusted

(* The scripts have bound what the next section takes.                     *)
Bound ==
  /\ Before({"split"}) /\ cfg.start < 2 => Whole(mem.model)
  /\ Before({"calibrate"}) /\ cfg.start < 3 => Whole(IF cfg.keys THEN mem.base ELSE mem.model)
  /\ Before({"quantize"}) /\ cfg.start < 4 => MrtWhole
  /\ (Before({"merge"} \cup Closing) \/ dumping = "compile") /\ cfg.start < 5 => MrtWhole
CompilesAsked == Compiles(todo) \/ dumping = "compile" => Compiles(cfg.tail)

Ready ==
  /\ WritesWhole /\ StagesSound /\ FailsOnlyThere
  /\ chain.driver = "V3" => ConfsSound
  /\ status = "running" => IF cfg.driver = "V3" THEN MergeReady ELSE Bound /\ CompilesAsked
ReadyInv == AgreeInv /\ Ready
=============================================================================
