--------------------------- MODULE MCStreamManager ---------------------------
(* Instances of StreamManager for TLC. *)
EXTENDS StreamManager

CONSTANTS worker, api, w, h

\* The execution is in the worker process, a request in the API process.
TwoProcesses == [t \in Tasks |-> IF t = w THEN worker ELSE api]
=============================================================================
