------------------------------ MODULE MrtFiles ------------------------------
(***************************************************************************)
(* The model directory of the model representation tool and the objects    *)
(* its drivers keep in memory: Model and MRT of mrt/transformer.py and     *)
(* their save and load (mrt/sim_quant_helper.py for the .ext files).       *)
(*                                                                         *)
(* A model, a checkpoint or an .ext file is abstracted to where it comes   *)
(* from: the invocations that prepared, split, calibrated and quantised    *)
(* it.  Loading files of different origin is not an error of the code; the *)
(* object then has several origins.                                        *)
(***************************************************************************)
EXTENDS Naturals, Sequences, FiniteSets

CONSTANT MaxRuns   \* bound: invocations of the tool

VARIABLES
  files,     \* contents of the model directory: a set of origins per file
  queue,     \* writes the running stage still has to do, in order
  mem        \* objects of the running process

Run == 0 .. MaxRuns

Prefix == {"prepare", "top", "base", "calibrate", "quantize", "all", "fixed", "cvm"}
File == (Prefix \X {"symbol", "params", "ext"}) \cup
        ({"prepare", "calibrate", "quantize"} \X {"conf"})

(* A model as the files and objects hold it: where its parts come from.    *)
Origin == [part : {"torn", "whole", "base", "top", "merged"}, names : {"old", "new"},
           prep : Nat, split : Nat, calib : Nat, quant : Nat]

Missing == {}
\* What is left of a file whose writer died.
Torn == {[part |-> "torn", names |-> "old", prep |-> 0, split |-> 0, calib |-> 0, quant |-> 0]}

SymbolAndParams(prefix) == {<<prefix, "symbol">>, <<prefix, "params">>}
WithExt(prefix) == SymbolAndParams(prefix) \cup {<<prefix, "ext">>}

(* The files are there (_checkpoint_exist) and loading them does not fail. *)
Readable(fs) == \A f \in fs : files[f] \notin {Missing, Torn}

Nothing == {}      \* an unbound variable of the process
Mrt == [model : SUBSET Origin, ext : SUBSET Origin, old : {"old", "new"}]
Objects == [model : SUBSET Origin, base : SUBSET Origin, top : SUBSET Origin, mrt : Mrt,
            qmodel : SUBSET Origin, oscales : SUBSET Origin, inputs_ext : SUBSET Origin,
            conf : SUBSET Origin]
NoMrt == [model |-> Nothing, ext |-> Nothing, old |-> "old"]
NoObjects == [model |-> Nothing, base |-> Nothing, top |-> Nothing, mrt |-> NoMrt,
              qmodel |-> Nothing, oscales |-> Nothing, inputs_ext |-> Nothing,
              conf |-> Nothing]

-----------------------------------------------------------------------------
(* Model.load and Model.save: the symbol first, then the parameters.       *)
ModelLoad(prefix) == files[<<prefix, "symbol">>] \cup files[<<prefix, "params">>]
(* Mutant: the parameters are forgotten.                                  *)
SaveSymbolOnly(prefix, m) == << <<<<prefix, "symbol">>, m>> >>
ModelSave(prefix, m) == << <<<<prefix, "symbol">>, m>>, <<<<prefix, "params">>, m>> >>

(* The original model is prepared anew.                                    *)
Prepare(run) == {[part |-> "whole", names |-> "old", prep |-> run, split |-> 0,
                  calib |-> 0, quant |-> 0]}

split_model(m, run) ==
  [base |-> {[o EXCEPT !.part = "base", !.split = run] : o \in m},
   top  |-> {[o EXCEPT !.part = "top", !.split = run] : o \in m}]

(* A new MRT takes the output names of its model for the old names.        *)
NewMrt(m) == [model |-> m, ext |-> Nothing,
              old |-> IF \E o \in m : o.names = "new" THEN "new" ELSE "old"]

(* Thresholds are those of the last call: old_ths is never passed on.      *)
Calibrated(mrt, run) ==
  LET m == {[o EXCEPT !.calib = run] : o \in mrt.model}
  IN  [mrt EXCEPT !.model = m, !.ext = m]

(* Quantising renames the outputs and computes the scales.                 *)
QuantizedMrt(mrt, run) ==
  [mrt EXCEPT !.model = {[o EXCEPT !.quant = run, !.names = "new"] : o \in mrt.model},
              !.ext = {[o EXCEPT !.quant = run] : o \in mrt.ext}]

(* Mutant: every checkpoint is saved as the calibration's.                 *)
SaveAsCalibrated(prefix, mrt) ==
  << <<<<"calibrate", "ext">>, mrt.ext>> >> \o ModelSave("calibrate", mrt.model)
(* save_ext comes first: old_names, th_dict, precs, scales in one file.    *)
MrtSave(prefix, mrt) ==
  << <<<<prefix, "ext">>, {[o EXCEPT !.names = mrt.old] : o \in mrt.ext}>> >>
  \o ModelSave(prefix, mrt.model)

MrtLoad(prefix) ==
  LET e == files[<<prefix, "ext">>]
  IN  [NewMrt(ModelLoad(prefix)) EXCEPT !.ext = e,
         !.old = IF \E o \in e : o.names = "new" THEN "new" ELSE "old"]

(* merge_model with the map from the current output names to the old ones. *)
merge_model(mrt, top) ==
  {[o EXCEPT !.part = "merged", !.names = mrt.old] : o \in mrt.model \cup top}

(* Where two origins overlap they are the same.                            *)
Agree(S) ==
  \A x, y \in S :
    /\ x.prep = y.prep
    /\ x.split = y.split
    /\ x.calib = 0 \/ y.calib = 0 \/ x.calib = y.calib
    /\ x.quant = 0 \/ y.quant = 0 \/ x.quant = y.quant

-----------------------------------------------------------------------------
FilesInit ==
  /\ files = [f \in File |-> IF f[1] = "fixed" THEN Prepare(0) ELSE Missing]
  /\ queue = <<>>
  /\ mem = NoObjects

(* The next pending file is written.                                       *)
WriteFile ==
  /\ queue # <<>>
  /\ files' = [files EXCEPT ![queue[1][1]] = queue[1][2]]
  /\ queue' = Tail(queue)
  /\ UNCHANGED mem

(* The process dies; the file being written is left torn.                  *)
Die ==
  /\ files' = IF queue = <<>> THEN files ELSE [files EXCEPT ![queue[1][1]] = Torn]
  /\ queue' = <<>>
  /\ mem' = NoObjects
=============================================================================
