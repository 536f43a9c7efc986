-------------------------- MODULE MCBackendExecution --------------------------
(* Two logs, of backends with up to one script and one function. *)
EXTENDS BackendExecution, TLC

===============================================================================
