------------------------------ MODULE MCWebRuns ------------------------------
(* Two requests of the web socket at once and a page: options that are good,  *)
(* blank, malformed, unknown or name an unknown pass or level.                *)
EXTENDS WebRuns

MCAsks == {
    [VERBOSITY |-> "warn", BATCH |-> ""],
    [OTHER |-> "1", VERBOSITY |-> "warning", PASS_NAME |-> "train"],
    [BATCH |-> "malformed"]}

MCFixedFile == [PASS_NAME |-> "all", VERBOSITY |-> "info"]
=============================================================================
