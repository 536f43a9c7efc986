----------------------------- MODULE MCMailQueue ------------------------------
(* A message of the queue and a critical one, and two senders. *)
EXTENDS MailQueue, TLC

CONSTANTS plain, urgent, s1, s2

\* Two senders at one message, and one sender at both.
MCScenes ==
  {[messages |-> {plain}, senders |-> {s1, s2}], [messages |-> {urgent}, senders |-> {s1, s2}],
   [messages |-> {plain, urgent}, senders |-> {s1}]}

MCPriority == (plain :> 2) @@ (urgent :> 0)
===============================================================================
