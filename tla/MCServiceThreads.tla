--------------------------- MODULE MCServiceThreads ---------------------------
(* A main thread that waits and calls interrupt(), a service that is           *)
(* restarted, and two signals at any point of the main thread, the second      *)
(* inside the handler of the first included.                                   *)
EXTENDS ServiceThreads
=============================================================================
