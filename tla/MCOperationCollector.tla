----------------------- MODULE MCOperationCollector -----------------------
(* Two mains with a route and one without, one related of each kind. *)
EXTENDS OperationCollector, TLC
===========================================================================
