--------------------------- MODULE BackendExecution ---------------------------
(***************************************************************************)
(* The execution of the scripts of a request once they are generated: for  *)
(* each its BackendLog, ServiceBackend.execute with the methods that run   *)
(* its groups of commands (OpenSSH or Paramiko for scripts, Python for     *)
(* functions), keep_log around it, and the request that meanwhile, or      *)
(* after joining the threads, tells the user how the logs are.             *)
(*                                                                         *)
(* A log is an object the script's thread and the request share, and a row *)
(* of the database, with the state the thread saved last.                  *)
(***************************************************************************)
EXTENDS Naturals, Sequences, FiniteSets

CONSTANTS
  Logs,         \* the logs of the request
  ForcedEmpty,  \* logs of backends with force_empty_action_execution
  Joined        \* whether the request joins the threads (is_async is False)

ASSUME ExecutionAssumption ==
  /\ IsFiniteSet(Logs)
  /\ ForcedEmpty \subseteq Logs
  /\ Joined \in BOOLEAN

\* backend.scripts has one group of commands for each method of the backend's
\* content: there are two methods, script_method and function_method.
GroupLists ==
  {<<>>, <<"script">>, <<"function">>, <<"script", "function">>, <<"function", "script">>}

\* REVOKED and ABORTED exist in the code, and no execution reaches them.
States == {"RECEIVED", "STARTED", "SUCCESS", "FAILURE", "TIMEOUT", "ERROR", "NOTHING", "EXCEPTION"}

VARIABLES
  groups,   \* groups[l]: the methods of backend.scripts, in their order
  state,    \* state[l]: log.state, in memory
  row,      \* row[l]: the state saved
  pc,       \* pc[l]: where the thread of l is
  group,    \* group[l]: groups started
  failed,   \* history: logs with a group of commands that failed
  stored,   \* logs whose operations are stored
  reported, \* logs reported to the administrators
  telling,  \* logs the request has not looked at yet
  looking,  \* the log the request found not successful, or {}
  counted   \* counted[k]: logs counted as k = "success", "async", "error"

thread == <<groups, state, row, pc, group, failed, stored, reported>>
request == <<telling, looking, counted>>
vars == <<groups, state, row, pc, group, failed, stored, reported, telling, looking, counted>>

TypeOK ==
  /\ groups \in [Logs -> GroupLists]
  /\ state \in [Logs -> States] /\ row \in [Logs -> States]
  /\ pc \in [Logs -> {"created", "running", "exited", "returned", "done"}]
  /\ group \in [Logs -> 0 .. 2]
  /\ failed \subseteq Logs /\ stored \subseteq Logs /\ reported \subseteq Logs
  /\ telling \subseteq Logs /\ looking \subseteq Logs
  /\ counted \in [{"success", "async", "error"} -> SUBSET Logs]

\* With no content there is nothing to run, and create_log says so unless the
\* backend forces its execution.
Init ==
  /\ groups \in [Logs -> GroupLists]
  /\ state = [l \in Logs |-> IF groups[l] = <<>> /\ l \notin ForcedEmpty
                             THEN "NOTHING" ELSE "RECEIVED"]
  /\ row = state
  /\ pc = [l \in Logs |-> "created"]
  /\ group = [l \in Logs |-> 0]
  /\ failed = {} /\ stored = {} /\ reported = {}
  /\ telling = Logs /\ looking = {}
  /\ counted = [k \in {"success", "async", "error"} |-> {}]

is_success(s) == s \in {"SUCCESS", "NOTHING"}
has_finished(s) == s \notin {"STARTED", "RECEIVED"}

-----------------------------------------------------------------------------
(* The thread of a script *)

\* execute() and its loop: the next group is started when all before
\* succeeded, its method saves the log as STARTED.
StartGroup(l) ==
  /\ pc[l] = "created" \/ (pc[l] = "exited" /\ row[l] = "SUCCESS")
  /\ row[l] # "NOTHING"
  /\ group[l] < Len(groups[l])
  /\ pc' = [pc EXCEPT ![l] = "running"]
  /\ group' = [group EXCEPT ![l] = @ + 1]
  /\ state' = [state EXCEPT ![l] = "STARTED"]
  /\ row' = [row EXCEPT ![l] = "STARTED"]
  /\ UNCHANGED <<groups, failed, stored, reported, request>>

\* A method raises before its try, while it puts its script together:
\* keep_log saves the log as EXCEPTION.
PrepareRaises(l) ==
  /\ pc[l] = "created" \/ (pc[l] = "exited" /\ row[l] = "SUCCESS")
  /\ group[l] < Len(groups[l])
  /\ pc' = [pc EXCEPT ![l] = "returned"]
  /\ state' = [state EXCEPT ![l] = "EXCEPTION"]
  /\ row' = [row EXCEPT ![l] = "EXCEPTION"]
  /\ failed' = failed \cup {l}
  /\ UNCHANGED <<groups, group, stored, reported, request>>

\* The outcomes a method gives a log: an exception on the way to the server is
\* an ERROR for scripts, a FAILURE for functions.
Outcomes(m) ==
  IF m = "script" THEN {"SUCCESS", "FAILURE", "TIMEOUT", "ERROR"} ELSE {"SUCCESS", "FAILURE"}

\* A slip: an exception on the way to the server is not caught.
GroupEndsSilently(l) ==
  /\ pc[l] = "running"
  /\ pc' = [pc EXCEPT ![l] = "exited"]
  /\ \E outcome \in Outcomes(groups[l][group[l]]) \cup {"STARTED"} :
       /\ state' = [state EXCEPT ![l] = outcome]
       /\ failed' = IF outcome = "SUCCESS" THEN failed ELSE failed \cup {l}
  /\ UNCHANGED <<groups, row, group, stored, reported, request>>

\* The commands of the group end: log.state is assigned...
GroupEnds(l) ==
  /\ pc[l] = "running"
  /\ pc' = [pc EXCEPT ![l] = "exited"]
  /\ \E outcome \in Outcomes(groups[l][group[l]]) :
       /\ state' = [state EXCEPT ![l] = outcome]
       /\ failed' = IF outcome = "SUCCESS" THEN failed ELSE failed \cup {l}
  /\ UNCHANGED <<groups, row, group, stored, reported, request>>

\* ...and the log saved.
SaveLog(l) ==
  /\ pc[l] = "exited"
  /\ row[l] # state[l]
  /\ row' = [row EXCEPT ![l] = state[l]]
  /\ UNCHANGED <<groups, state, pc, group, failed, stored, reported, request>>

\* The loop is over, or left because a group did not succeed.
ExecuteReturns(l) ==
  /\ \/ pc[l] = "created"
     \/ pc[l] = "exited" /\ row[l] = state[l]
  /\ \/ group[l] = Len(groups[l])
     \/ row[l] = "NOTHING"
     \/ pc[l] = "exited" /\ row[l] # "SUCCESS"
  /\ pc' = [pc EXCEPT ![l] = "returned"]
  /\ UNCHANGED <<groups, state, row, group, failed, stored, reported, request>>

\* A slip: only exceptions are reported.
KeepLogExceptions(l) ==
  /\ pc[l] = "returned"
  /\ pc' = [pc EXCEPT ![l] = "done"]
  /\ stored' = stored \cup {l}
  /\ reported' = IF state[l] = "EXCEPTION" THEN reported \cup {l} ELSE reported
  /\ UNCHANGED <<groups, state, row, group, failed, request>>

\* The finally of keep_log: the operations are stored, and a report is sent
\* unless the log is a success.
KeepLog(l) ==
  /\ pc[l] = "returned"
  /\ pc' = [pc EXCEPT ![l] = "done"]
  /\ stored' = stored \cup {l}
  /\ reported' = IF is_success(state[l]) THEN reported ELSE reported \cup {l}
  /\ UNCHANGED <<groups, state, row, group, failed, request>>

-----------------------------------------------------------------------------
(* The request: get_messages *)

\* A slip: the threads are not joined before the user is told.
LookUnjoined(l) ==
  /\ looking = {} /\ l \in telling
  /\ telling' = telling \ {l}
  /\ IF is_success(state[l])
     THEN counted' = [counted EXCEPT !["success"] = @ \cup {l}] /\ UNCHANGED looking
     ELSE looking' = {l} /\ UNCHANGED counted
  /\ UNCHANGED thread

\* "if log.is_success", of the object the thread is changing.
Look(l) ==
  /\ Joined => \A k \in Logs : pc[k] = "done"
  /\ looking = {} /\ l \in telling
  /\ telling' = telling \ {l}
  /\ IF is_success(state[l])
     THEN counted' = [counted EXCEPT !["success"] = @ \cup {l}] /\ UNCHANGED looking
     ELSE looking' = {l} /\ UNCHANGED counted
  /\ UNCHANGED thread

\* "elif not log.has_finished"; what is left are errors.
LookAgain(l) ==
  /\ looking = {l}
  /\ looking' = {}
  /\ LET kind == IF has_finished(state[l]) THEN "error" ELSE "async" IN
     counted' = [counted EXCEPT ![kind] = @ \cup {l}]
  /\ UNCHANGED <<thread, telling>>

Thread(l) ==
  \/ StartGroup(l) \/ PrepareRaises(l) \/ GroupEnds(l) \/ SaveLog(l)
  \/ ExecuteReturns(l) \/ KeepLog(l)

Next == \E l \in Logs : Thread(l) \/ Look(l) \/ LookAgain(l)

\* Threads run and the commands they execute end.
Fairness == \A l \in Logs : WF_vars(Thread(l)) /\ WF_vars(Look(l) \/ LookAgain(l))

Spec == Init /\ [][Next]_vars /\ Fairness

-----------------------------------------------------------------------------
(* Properties *)

\* A log is a success only if every group of commands ran and none failed, and
\* whatever failed was reported to the administrators.
SuccessMeansAllRan ==
  \A l \in Logs : pc[l] = "done" =>
    /\ is_success(row[l]) <=> l \notin failed /\ group[l] = Len(groups[l])
    /\ is_success(row[l]) <=> l \notin reported

\* After a group that fails no other group of the backend is executed.
NothingRunsAfterFailure ==
  [][\A l \in Logs : l \in failed => group'[l] = group[l]]_vars

\* What makes it inductive: what the state of a log says at each point of its
\* thread.
LogInv(l) ==
  /\ pc[l] = "created" => /\ row[l] = state[l] /\ l \notin failed /\ group[l] = 0
                          /\ state[l] = IF groups[l] = <<>> THEN "NOTHING" ELSE "RECEIVED"
  /\ pc[l] = "running" => row[l] = "STARTED" /\ l \notin failed /\ group[l] \in 1 .. Len(groups[l])
  /\ pc[l] = "exited" => /\ row[l] \in {"STARTED", state[l]}
                         /\ state[l] \in {"SUCCESS", "FAILURE", "TIMEOUT", "ERROR"}
                         /\ state[l] = "SUCCESS" <=> l \notin failed
                         /\ group[l] \in 1 .. Len(groups[l])
  /\ pc[l] \in {"returned", "done"} =>
       /\ row[l] = state[l]
       /\ is_success(state[l]) <=> l \notin failed /\ group[l] = Len(groups[l])
  /\ l \in reported <=> pc[l] = "done" /\ ~is_success(state[l])

ExecutionInv == \A l \in Logs : LogInv(l)

\* "Has fail to execute": the user is told so of logs that failed only.
ErrorsToldAreReal == counted["error"] \subseteq failed

\* Why it holds when the threads are joined: the request looks at logs that end, and
\* that do not change between its two looks.
ToldInv ==
  /\ ErrorsToldAreReal
  /\ \A l \in Logs : pc[l] \in {"returned", "done"} => is_success(state[l]) \/ l \in failed
  /\ \A l \in looking : pc[l] = "done" /\ ~is_success(state[l])

\* Every log ends in a state its reader can take as final, with its operations
\* stored: none is left as if it was still running.
LogsFinish == \A l \in Logs : <>[](l \in stored /\ has_finished(row[l]))
=============================================================================
