------------------------------- MODULE WebRuns -------------------------------
(***************************************************************************)
(* Runs of the quantiser started from a browser (python/mrt/web)           *)
(*                                                                         *)
(* A request of the web socket carries options; they are cast, written to  *)
(* one temporary YAML file, merged from there into a clone of the default  *)
(* configuration, and the run is started in a thread whose log a Streamer  *)
(* sends back message by message.  A page of views.py does the same with a *)
(* fixed YAML file and a printer of its own.  All of them share the root   *)
(* logger of the process: its stream is the printer of whoever configured  *)
(* it first, and every run adds one more filter to it.                     *)
(***************************************************************************)
EXTENDS Integers, Sequences, SequencesExt, FiniteSets

CONSTANTS
    Sockets,        \* the requests of MRTExecuteConsumer
    Pages,          \* the requests of the pages of views.py
    Asks,           \* what a request may carry: functions from options to values
    FixedFile,      \* the options of ~/mrt_yaml_root/alexnet.yaml
    Workers,        \* how many requests of one kind the server runs at once
    Severities,     \* the levels of the records a run logs
    MaxRecords      \* bound: the log records the runs write together

Sessions == Sockets \cup Pages

ASSUME WebAssumption ==
    /\ Sockets \cap Pages = {}
    /\ Workers \in Nat \ {0}
    /\ Severities \subseteq 1 .. 4
    /\ MaxRecords \in Nat

(***************************************************************************)
(* The configuration                                                       *)
(***************************************************************************)
Blank == ""          \* a field of the form left empty
Unset == "None"      \* Python's None

\* MRT_CFG, as the modules of the stages build it when they are imported
DefaultCfg == [PASS_NAME |-> "all", VERBOSITY |-> "debug",
               BATCH |-> "16"]

\* the passes V3.execute knows by name
Passes == {"all", "prepare", "calibrate", "quantize", "evaluate", "compile"}

Levels == {"debug", "info", "warn", "error"}   \* of those LOG_NAMES holds
Rank == [debug |-> 1, info |-> 2, warn |-> 3, error |-> 4]

\* type_cast: a number that does not evaluate raises
CastFails(ask) == \E o \in DOMAIN ask : ask[o] = "malformed"

\* the options of the form that were filled in
Cast(ask) == [o \in {o \in DOMAIN ask : ask[o] # Blank} |-> ask[o]]

\* a file that is no YAML, or whose options are cut in two
Torn == [torn |-> ""]

\* merge_from_file refuses an option the configuration does not have
MergeFails(file) == ~ DOMAIN file \subseteq DOMAIN DefaultCfg

Merge(base, file) ==
    [o \in DOMAIN base |-> IF o \in DOMAIN file THEN file[o] ELSE base[o]]

VARIABLES
    ask,        \* what each request carries
    at,         \* where each request is
    cfg,        \* the configuration each request has merged
    tmp,        \* the content of tmp.yaml
    met,        \* history: who had tmp.yaml open for writing while a request used it
    defaults,   \* MRT_CFG
    root,       \* the root logger: its printer, level and filters
    queues,     \* per printer, the queues of the threads registered with it
    run,        \* where the thread of each request is
    wrote,      \* the records of each run its logger has let pass
    got         \* what each client has been sent

vars == <<ask, at, cfg, tmp, met, defaults, root, queues, run, wrote, got>>

PrinterOf(s) == IF s \in Sockets THEN "streamer" ELSE "views"

Kind(s) == IF s \in Sockets THEN Sockets ELSE Pages

Idle == {"new", "answered", "failed"}

Init ==
    /\ ask \in [Sockets -> Asks]
    /\ at = [s \in Sessions |-> "new"]
    /\ cfg = [s \in Sessions |-> DefaultCfg]
    /\ tmp = <<>>
    /\ met = [s \in Sessions |-> {}]
    /\ defaults = DefaultCfg
    /\ root = [printer |-> Unset, level |-> 0, filters |-> {}]
    /\ queues = [p \in {"streamer", "views"} |-> <<>>]
    /\ run = [s \in Sessions |-> "new"]
    /\ wrote = [s \in Sessions |-> <<>>]
    /\ got = [s \in Sessions |-> <<>>]

(***************************************************************************)
(* The logger                                                              *)
(***************************************************************************)
\* basicConfig does nothing once the root logger has a handler; the filter is
\* added to the handler each time
LogInit(printer, level) ==
    IF root.printer = Unset
    THEN [printer |-> printer, level |-> level, filters |-> {level}]
    ELSE [root EXCEPT !.filters = @ \cup {level}]

\* a record passes the level of the logger and every filter of the handler
Passed(level) ==
    level >= root.level /\ \A f \in root.filters : level >= f

(***************************************************************************)
(* The printers                                                            *)
(***************************************************************************)
\* Mutant: every run is taken for the same thread
OneThread(s) == "Thread"

\* the name of the thread, by which a printer finds its queue
ThreadName(s) == s

\* Printer.register
Registered(s) ==
    [queues EXCEPT ![PrinterOf(s)] =
        [n \in DOMAIN @ \cup {ThreadName(s)} |-> IF n = ThreadName(s) THEN <<>> ELSE @[n]]]

\* Printer.write on the logger's printer: a thread without a queue there goes to stdout
Written(s, record) ==
    IF root.printer \in DOMAIN queues /\ ThreadName(s) \in DOMAIN queues[root.printer]
    THEN [queues EXCEPT ![root.printer][ThreadName(s)] = Append(@, record)]
    ELSE queues

\* Printer.clean
Cleaned(s) ==
    [queues EXCEPT ![PrinterOf(s)] = [n \in DOMAIN @ \ {ThreadName(s)} |-> @[n]]]

(***************************************************************************)
(* A request                                                               *)
(***************************************************************************)
Served(s) == Cardinality({t \in Kind(s) : at[t] \notin Idle}) < Workers

\* receive casts the fields; an error closes the socket
Receive(s) ==
    /\ s \in Sockets /\ at[s] = "new" /\ Served(s)
    /\ at' = [at EXCEPT ![s] = IF CastFails(ask[s]) THEN "failed" ELSE "opening"]
    /\ UNCHANGED <<ask, cfg, tmp, met, defaults, root, queues, run, wrote, got>>

\* from open to the end of the merge, and from open to the flush
UsesFile(s) == at[s] \in {"writing", "merging"}
HoldsFile(s) == at[s] = "writing"

\* Mutant: the file keeps what an earlier request has left in it
OpenKeeps(s) ==
    /\ at[s] = "opening"
    /\ at' = [at EXCEPT ![s] = "writing"]
    /\ met' = [t \in Sessions |->
                  IF t = s THEN {u \in Sockets : HoldsFile(u)}
                  ELSE IF UsesFile(t) THEN met[t] \cup {s} ELSE met[t]]
    /\ UNCHANGED <<ask, cfg, tmp, defaults, root, queues, run, wrote, got>>

\* open(tmp_yaml_file, "w") empties the file, for whoever else is using it too
OpenFile(s) ==
    /\ at[s] = "opening"
    /\ at' = [at EXCEPT ![s] = "writing"]
    /\ tmp' = <<>>
    /\ met' = [t \in Sessions |->
                  IF t = s THEN {u \in Sockets : HoldsFile(u)}
                  ELSE IF UsesFile(t) THEN met[t] \cup {s} ELSE met[t]]
    /\ UNCHANGED <<ask, cfg, defaults, root, queues, run, wrote, got>>

\* A text written from the start of a file over another leaves the end of a longer
\* one: some of its options stay, or what is cut in two makes the file unreadable.
Overlaid(old, new) ==
    {[o \in DOMAIN new \cup kept |-> IF o \in kept THEN old[o] ELSE new[o]] :
        kept \in SUBSET DOMAIN old}
    \cup (IF old = <<>> THEN {} ELSE {Torn})

\* the buffer is flushed, at the start of the file, when the file is closed
WriteFile(s) ==
    /\ at[s] = "writing"
    /\ at' = [at EXCEPT ![s] = "merging"]
    /\ tmp' \in Overlaid(tmp, Cast(ask[s]))
    /\ UNCHANGED <<ask, cfg, met, defaults, root, queues, run, wrote, got>>

\* Mutant: get_cfg_defaults returns MRT_CFG itself
DefaultsShared(merged) == merged

\* the merge changes a clone of MRT_CFG and not MRT_CFG
DefaultsAfter(merged) == defaults

MergeInto(s, file) ==
    IF MergeFails(file)
    THEN at' = [at EXCEPT ![s] = "failed"] /\ UNCHANGED <<cfg, defaults>>
    ELSE \E merged \in {Merge(defaults, file)} :
         /\ at' = [at EXCEPT ![s] = "logging"]
         /\ cfg' = [cfg EXCEPT ![s] = merged]
         /\ defaults' = DefaultsAfter(merged)

\* get_cfg_defaults().merge_from_file(tmp_yaml_file)
MergeFile(s) ==
    /\ at[s] = "merging"
    /\ MergeInto(s, tmp)
    /\ UNCHANGED <<ask, tmp, met, root, queues, run, wrote, got>>

\* get_cfg of a page: its YAML file is always the same
OpenPage(s) ==
    /\ s \in Pages /\ at[s] = "new" /\ Served(s)
    /\ MergeInto(s, FixedFile)
    /\ UNCHANGED <<ask, tmp, met, root, queues, run, wrote, got>>

\* get_logger: a verbosity name2level does not know fails the request;
\* then the Streamer registers the thread and starts it
StartRun(s) ==
    /\ at[s] = "logging"
    /\ IF cfg[s].VERBOSITY \notin Levels
       THEN /\ at' = [at EXCEPT ![s] = "failed"]
            /\ UNCHANGED <<root, queues, run>>
       ELSE /\ at' = [at EXCEPT ![s] = "polling"]
            /\ root' = LogInit(PrinterOf(s), Rank[cfg[s].VERBOSITY])
            /\ queues' = Registered(s)
            /\ run' = [run EXCEPT ![s] = IF s \in Sockets THEN "started" ELSE "running"]
    /\ UNCHANGED <<ask, cfg, tmp, met, defaults, wrote, got>>

(***************************************************************************)
(* The thread of a run                                                     *)
(***************************************************************************)
\* execute.run configures the logger once more and looks the pass up by name
RunStarts(s) ==
    /\ run[s] = "started"
    /\ root' = LogInit("stderr", Rank[cfg[s].VERBOSITY])
    /\ run' = [run EXCEPT ![s] = IF cfg[s].PASS_NAME \in Passes THEN "running" ELSE "dead"]
    /\ UNCHANGED <<ask, at, cfg, tmp, met, defaults, queues, wrote, got>>

\* the records of all runs together
Records == FoldFunction(LAMBDA w, n : Len(w) + n, 0, wrote)

\* a stage logs
Log(s, level) ==
    /\ run[s] = "running"
    /\ Records < MaxRecords
    /\ Passed(level)
    /\ queues' = Written(s, [by |-> s, level |-> level])
    /\ wrote' = [wrote EXCEPT ![s] = Append(@, [by |-> s, level |-> level])]
    /\ UNCHANGED <<ask, at, cfg, tmp, met, defaults, root, run, got>>

\* the stages end, or one of them raises
RunEnds(s) ==
    /\ run[s] = "running"
    /\ run' = [run EXCEPT ![s] = "dead"]
    /\ UNCHANGED <<ask, at, cfg, tmp, met, defaults, root, queues, wrote, got>>

(***************************************************************************)
(* Streamer.start                                                          *)
(***************************************************************************)
\* while self.thread.is_alive(); then the end mark, clean and the last message
Poll(s) ==
    /\ at[s] = "polling"
    /\ IF run[s] = "dead"
       THEN at' = [at EXCEPT ![s] = "answered"] /\ queues' = Cleaned(s)
       ELSE at' = [at EXCEPT ![s] = "taking"] /\ UNCHANGED queues
    /\ UNCHANGED <<ask, cfg, tmp, met, defaults, root, run, wrote, got>>

\* Mutant: the queue is waited for
GetWaits(s) ==
    /\ at[s] = "taking"
    /\ \E q \in {queues[PrinterOf(s)][ThreadName(s)]} :
       /\ q # <<>>
       /\ got' = [got EXCEPT ![s] = Append(@, Head(q))]
       /\ queues' = [queues EXCEPT ![PrinterOf(s)][ThreadName(s)] = Tail(q)]
    /\ at' = [at EXCEPT ![s] = "polling"]
    /\ UNCHANGED <<ask, cfg, tmp, met, defaults, root, run, wrote>>

\* get_nowait: a message is sent, an empty queue is passed over
Get(s) ==
    /\ at[s] = "taking"
    /\ \E q \in {queues[PrinterOf(s)][ThreadName(s)]} :
          IF q = <<>> THEN UNCHANGED <<got, queues>>
          ELSE /\ got' = [got EXCEPT ![s] = Append(@, Head(q))]
               /\ queues' = [queues EXCEPT ![PrinterOf(s)][ThreadName(s)] = Tail(q)]
    /\ at' = [at EXCEPT ![s] = "polling"]
    /\ UNCHANGED <<ask, cfg, tmp, met, defaults, root, run, wrote>>

(***************************************************************************)
(* The specification                                                       *)
(***************************************************************************)
Handler(s) ==
    \/ Receive(s) \/ OpenFile(s) \/ WriteFile(s) \/ MergeFile(s)
    \/ OpenPage(s) \/ StartRun(s) \/ Poll(s) \/ Get(s)

RunThread(s) ==
    RunStarts(s) \/ RunEnds(s) \/ \E level \in Severities : Log(s, level)

Next == \E s \in Sessions : Handler(s) \/ RunThread(s)

\* the server serves what it has received, and the stages of a run come to an end
Fairness ==
    \A s \in Sessions : WF_vars(Handler(s)) /\ WF_vars(RunStarts(s) \/ RunEnds(s))

Spec == Init /\ [][Next]_vars /\ Fairness

(***************************************************************************)
(* Properties                                                              *)
(***************************************************************************)
\* What a request asks for
OwnFile(s) == IF s \in Sockets THEN Cast(ask[s]) ELSE FixedFile

\* The value is what the request, or one it met, asks for.
FromMet(s, o, v) ==
    \E t \in {s} \cup met[s] : o \in DOMAIN OwnFile(t) /\ v = OwnFile(t)[o]

ConfigFits(s) ==
    /\ met[s] = {} => cfg[s] = Merge(DefaultCfg, OwnFile(s))
    /\ \A o \in DOMAIN DefaultCfg :
          cfg[s][o] = DefaultCfg[o] \/ FromMet(s, o, cfg[s][o])

\* A run uses the options its client filled in and the defaults for the others,
\* whatever ran before it, unless another request had tmp.yaml open for writing
\* while this one used the file (consumers.py:41-44).  Even then nothing is left of
\* any other request: each option is its own, the default, or that of one it met.
RunsOwnConfig == \A s \in Sessions : run[s] # "new" => ConfigFits(s)

\* A client is sent the records of its own run, in order and none twice, while
\* other runs log to the same root logger.
ClientSeesOwnRun ==
    \A s \in Sessions : IsPrefix(got[s], wrote[s])

\* Every request comes to an end: the last message of a run that ended, failed or
\* never logged, or the error of a request that could not start one.
RequestsEnd == \A s \in Sessions : <>(at[s] \in {"answered", "failed"})

(***************************************************************************)
(* The inductive invariants behind them                                    *)
(***************************************************************************)
Printers == {"streamer", "views"}

LogRecords == [by : Sessions, level : Severities]

TypeOK ==
    /\ ask \in [Sockets -> Asks]
    /\ at \in [Sessions -> {"new", "opening", "writing", "merging", "logging",
                            "polling", "taking", "answered", "failed"}]
    /\ DOMAIN cfg = Sessions
    /\ root \in [printer : Printers \cup {Unset}, level : Nat, filters : SUBSET Nat]
    /\ DOMAIN queues = Printers
    /\ \A p \in Printers : \A n \in DOMAIN queues[p] : queues[p][n] \in Seq(LogRecords)
    /\ run \in [Sessions -> {"new", "started", "running", "dead"}]
    /\ wrote \in [Sessions -> Seq(LogRecords)]
    /\ got \in [Sessions -> Seq(LogRecords)]

Streaming(s) == at[s] \in {"polling", "taking"}

\* A printer has a queue for exactly the runs whose request is still sending.
QueuesOfStreams ==
    \A p \in Printers :
        DOMAIN queues[p] = {s \in Sessions : PrinterOf(s) = p /\ Streaming(s)}

\* A run exists once its request has configured the root logger, with a level
\* that has a name, and is over when the request is.
RunsStream ==
    \A s \in Sessions :
        /\ run[s] # "new" => root.printer # Unset /\ cfg[s].VERBOSITY \in Levels
        /\ Streaming(s) => run[s] # "new"
        /\ at[s] = "answered" => run[s] = "dead"
        /\ ~ Streaming(s) /\ at[s] # "answered" =>
               run[s] = "new" /\ wrote[s] = <<>> /\ got[s] = <<>>

\* What a run has logged is what its client has been sent and then its queue; a
\* run whose printer is not the root logger's logs to the terminal alone.
Delivery ==
    \A s \in Sessions : Streaming(s) =>
        IF root.printer = PrinterOf(s)
        THEN wrote[s] = got[s] \o queues[PrinterOf(s)][s]
        ELSE queues[PrinterOf(s)][s] = <<>> /\ got[s] = <<>>

StreamInv ==
    TypeOK /\ QueuesOfStreams /\ RunsStream /\ Delivery /\ ClientSeesOwnRun

\* A request that holds the file open has met every other one that uses it.
WritersMet ==
    \A s, t \in Sessions : UsesFile(s) /\ HoldsFile(t) /\ s # t => t \in met[s]

\* Only requests of the web socket use tmp.yaml.  What it holds was written by the
\* request that uses it and those this one met; by itself alone if it met none.
FileIsOwn ==
    \A s \in Sessions :
        /\ at[s] \in {"opening", "writing", "merging"} => s \in Sockets
        /\ UsesFile(s) /\ met[s] = {} =>
               tmp = IF at[s] = "merging" THEN Cast(ask[s]) ELSE <<>>
        /\ UsesFile(s) =>
               \A o \in DOMAIN tmp \cap DOMAIN DefaultCfg : FromMet(s, o, tmp[o])

\* A request past its merge has the defaults with options over them that are its
\* own or those of requests it met.
ConfigIsOwn ==
    /\ defaults = DefaultCfg
    /\ \A s \in Sessions :
          at[s] \in {"logging", "polling", "taking", "answered"} => ConfigFits(s)

MetKnown == met \in [Sessions -> SUBSET Sockets]

ConfigInv == StreamInv /\ MetKnown /\ WritersMet /\ FileIsOwn /\ ConfigIsOwn
=============================================================================
