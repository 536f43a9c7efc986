---------------------------- MODULE MCRequestCycle ----------------------------
(* Two workers, whose processes may die, over two instances with asynchronous *)
(* routes, of which one has a backend that serializes. *)
EXTENDS RequestCycle
===============================================================================
