----------------------------- MODULE RequestCycle -----------------------------
(***************************************************************************)
(* The request/response cycle of OperationsMiddleware: every request runs  *)
(* in a transaction; when its response is ready the scripts of its pending *)
(* operations are generated, the transaction is committed and the scripts  *)
(* are executed, each in a thread that is joined unless it is asynchronous.*)
(*                                                                         *)
(* Workers are the threads that serve requests, one request at a time, in  *)
(* processes that may die.  An instance stands for what one script deploys *)
(* (OperationCollector says which operations are pending, BackendExecution *)
(* what happens inside a script); what it holds is abstracted to a version,*)
(* fresh at every save.  Scripts only reach the servers once committed.    *)
(***************************************************************************)
EXTENDS Naturals, FiniteSets

CONSTANTS
  Workers,
  Objects,       \* instances with a route
  Async,         \* those whose route, or action, runs asynchronously
  Serialized,    \* those whose backend has serialize = True
  HandledErrors, \* whether views raise Http404 or PermissionDenied after a save
  Crashes,       \* whether worker processes may die
  MaxVersion     \* bound on the saves of an instance

ASSUME RequestCycleAssumption ==
  /\ Async \subseteq Objects
  /\ Serialized \subseteq Objects
  /\ HandledErrors \in BOOLEAN
  /\ Crashes \in BOOLEAN
  /\ MaxVersion \in Nat

Version == 0 .. MaxVersion
Phases == {"idle", "view", "response", "executing"}

VARIABLES
  db,        \* committed state of the instances
  last,      \* last version given to a save of the instance
  servers,   \* what the servers run
  phase,     \* phase[w]: how far the request of w is
  status500, \* status500[w]: the status code of the response is 500
  writes,    \* writes[w]: what the open transaction of w saved
  pending,   \* pending[w]: request.pending_operations, with the state they carry
  scripts,   \* scripts[w]: generated scripts not launched yet
  serialize, \* serialize[w]: some backend of these scripts serializes
  running,   \* script threads <<w, o, v, is_async>>
  logged,    \* <<o, v>> whose script ended, with its log stored
  lost,      \* history: <<o, v>> committed and lost with a process
  overtaken  \* history: <<o, v>> in execution when a newer <<o, v>> was committed

cycle == <<phase, status500, writes, pending>>
vars == <<db, last, servers, phase, status500, writes, pending, scripts, serialize, running, logged, lost,
          overtaken>>

Copies == SUBSET (Objects \X Version)

\* At most one copy of each instance.
OneEach(copies) == \A c, d \in copies : c[1] = d[1] => c = d

TypeOK ==
  /\ db \in [Objects -> Version]
  /\ last \in [Objects -> Version]
  /\ servers \in [Objects -> Version]
  /\ phase \in [Workers -> Phases]
  /\ status500 \in [Workers -> BOOLEAN]
  /\ writes \in [Workers -> Copies]
  /\ pending \in [Workers -> Copies]
  /\ \A w \in Workers : OneEach(writes[w]) /\ OneEach(pending[w])
  /\ scripts \in [Workers -> Copies]
  /\ serialize \in [Workers -> BOOLEAN]
  /\ running \subseteq Workers \X Objects \X Version \X BOOLEAN
  /\ logged \in Copies
  /\ lost \in Copies
  /\ overtaken \in Copies

Init ==
  /\ db = [o \in Objects |-> 0]
  /\ last = [o \in Objects |-> 0]
  /\ servers = [o \in Objects |-> 0]
  /\ phase = [w \in Workers |-> "idle"]
  /\ status500 = [w \in Workers |-> FALSE]
  /\ writes = [w \in Workers |-> {}]
  /\ pending = [w \in Workers |-> {}]
  /\ scripts = [w \in Workers |-> {}]
  /\ serialize = [w \in Workers |-> FALSE]
  /\ running = {}
  /\ logged = {}
  /\ lost = {}
  /\ overtaken = {}

-----------------------------------------------------------------------------
(* The transaction *)

Without(copies, o) == {c \in copies : c[1] # o}
ObjectsOf(copies) == {c[1] : c \in copies}

\* What is committed and on its way to the servers
InExecution == (UNION {scripts[w] : w \in Workers}) \cup {<<s[2], s[3]>> : s \in running}

\* db after the transaction of w commits: PostgreSQL keeps a saved row locked
\* until then, so that what w wrote is newer than what is committed.
Committed(w) ==
  [o \in Objects |-> IF \E v \in Version : <<o, v>> \in writes[w]
                     THEN CHOOSE v \in Version : <<o, v>> \in writes[w] ELSE db[o]]

\* A slip: the pending operations are the thread's, not the request's.
LeaveKeepingPending(w) ==
  /\ phase' = [phase EXCEPT ![w] = "idle"]
  /\ status500' = [status500 EXCEPT ![w] = FALSE]
  /\ writes' = [writes EXCEPT ![w] = {}]
  /\ UNCHANGED pending

\* The transaction is left and the request is gone.
Leave(w) ==
  /\ phase' = [phase EXCEPT ![w] = "idle"]
  /\ status500' = [status500 EXCEPT ![w] = FALSE]
  /\ writes' = [writes EXCEPT ![w] = {}]
  /\ pending' = [pending EXCEPT ![w] = {}]

-----------------------------------------------------------------------------
(* A request *)

\* process_request: the request is stored and atomic() entered.
ProcessRequest(w) ==
  /\ phase[w] = "idle"
  /\ phase' = [phase EXCEPT ![w] = "view"]
  /\ UNCHANGED <<db, last, servers, status500, writes, pending, scripts, serialize, running,
                  logged, lost, overtaken>>

\* The view saves o: a row other transactions wrote is waited for.
SaveObject(w, o) ==
  /\ phase[w] = "view"
  /\ last[o] < MaxVersion
  /\ \A other \in Workers \ {w} : o \notin ObjectsOf(writes[other])
  /\ LET saved == <<o, last[o] + 1>> IN
     /\ last' = [last EXCEPT ![o] = @ + 1]
     /\ writes' = [writes EXCEPT ![w] = Without(@, o) \cup {saved}]
     /\ pending' = [pending EXCEPT ![w] = Without(@, o) \cup {saved}]
  /\ UNCHANGED <<db, servers, phase, status500, scripts, serialize, running,
                  logged, lost, overtaken>>

ViewReturns(w) ==
  /\ phase[w] = "view"
  /\ phase' = [phase EXCEPT ![w] = "response"]
  /\ UNCHANGED <<db, last, servers, status500, writes, pending, scripts, serialize, running,
                  logged, lost, overtaken>>

\* A slip: process_exception does not leave the transaction.
ProcessExceptionKeeping(w) ==
  /\ phase[w] = "view"
  /\ phase' = [phase EXCEPT ![w] = "response"]
  /\ \E handled \in (IF HandledErrors THEN BOOLEAN ELSE {FALSE}) :
       status500' = [status500 EXCEPT ![w] = ~handled]
  /\ UNCHANGED <<db, last, servers, writes, pending, scripts, serialize, running,
                  logged, lost, overtaken>>

\* process_exception rolls the transaction back; the pending operations stay
\* in the request.  Django then answers 500, or a status of its own to the
\* exceptions it handles.
ProcessException(w) ==
  /\ phase[w] = "view"
  /\ phase' = [phase EXCEPT ![w] = "response"]
  /\ writes' = [writes EXCEPT ![w] = {}]
  /\ \E handled \in (IF HandledErrors THEN BOOLEAN ELSE {FALSE}) :
       status500' = [status500 EXCEPT ![w] = ~handled]
  /\ UNCHANGED <<db, last, servers, pending, scripts, serialize, running, logged, lost, overtaken>>

\* process_response with nothing to execute (no view of the project answers 500
\* by itself, error_500 is Django's answer to an exception): the transaction is left, which
\* commits what it holds (nothing after an exception).
ProcessResponseIdle(w) ==
  /\ phase[w] = "response"
  /\ status500[w] \/ pending[w] = {}
  /\ Leave(w)
  /\ db' = Committed(w)
  /\ UNCHANGED <<last, servers, scripts, serialize, running, logged, lost, overtaken>>

\* process_response when generate() raises, or the commit does because of a
\* deferred constraint: rolled back, nothing executed.
ProcessResponseFails(w) ==
  /\ phase[w] = "response"
  /\ ~status500[w] /\ pending[w] # {}
  /\ Leave(w)
  /\ UNCHANGED <<db, last, servers, scripts, serialize, running, logged, lost, overtaken>>

\* A slip: the operations are executed although the commit failed.
ProcessResponseAlways(w) ==
  /\ phase[w] = "response"
  /\ ~status500[w] /\ pending[w] # {}
  /\ phase' = [phase EXCEPT ![w] = "executing"]
  /\ scripts' = [scripts EXCEPT ![w] = pending[w]]
  /\ serialize' = [serialize EXCEPT ![w] = ObjectsOf(pending[w]) \cap Serialized # {}]
  /\ pending' = [pending EXCEPT ![w] = {}]
  /\ writes' = [writes EXCEPT ![w] = {}]
  /\ \E ok \in BOOLEAN : db' = IF ok THEN Committed(w) ELSE db
  /\ UNCHANGED <<last, servers, status500, running, logged, lost, overtaken>>

\* process_response: the scripts are generated inside the transaction, that
\* is committed just before executing them.
ProcessResponse(w) ==
  /\ phase[w] = "response"
  /\ ~status500[w] /\ pending[w] # {}
  /\ phase' = [phase EXCEPT ![w] = "executing"]
  /\ scripts' = [scripts EXCEPT ![w] = pending[w]]
  /\ serialize' = [serialize EXCEPT ![w] = ObjectsOf(pending[w]) \cap Serialized # {}]
  /\ pending' = [pending EXCEPT ![w] = {}]
  /\ writes' = [writes EXCEPT ![w] = {}]
  /\ db' = Committed(w)
  /\ overtaken' = overtaken \cup {c \in InExecution : c[1] \in ObjectsOf(writes[w])}
  /\ UNCHANGED <<last, servers, status500, running, logged, lost>>

-----------------------------------------------------------------------------
(* manager.execute *)

Synchronous(w) == {s \in running : s[1] = w /\ ~s[4]}

\* A slip: the route alone says whether the execution is asynchronous.
LaunchByRoute(w, o, v) ==
  /\ phase[w] = "executing"
  /\ <<o, v>> \in scripts[w]
  /\ serialize[w] => Synchronous(w) = {}
  /\ scripts' = [scripts EXCEPT ![w] = @ \ {<<o, v>>}]
  /\ running' = running \cup {<<w, o, v, o \in Async>>}
  /\ UNCHANGED <<db, last, servers, phase, status500, writes, pending, serialize,
                  logged, lost, overtaken>>

\* One turn of the loop: the log is created in a connection of its own and
\* the script starts.  When some backend serializes all run in the request's
\* thread, one at a time, and none is asynchronous.
Launch(w, o, v) ==
  /\ phase[w] = "executing"
  /\ <<o, v>> \in scripts[w]
  /\ serialize[w] => Synchronous(w) = {}
  /\ scripts' = [scripts EXCEPT ![w] = @ \ {<<o, v>>}]
  /\ running' = running \cup {<<w, o, v, ~serialize[w] /\ o \in Async>>}
  /\ UNCHANGED <<db, last, servers, phase, status500, writes, pending, serialize,
                  logged, lost, overtaken>>

\* The script has run on the server, or it failed; either way it is logged.
ScriptEnds(s, success) ==
  /\ s \in running
  /\ running' = running \ {s}
  /\ servers' = IF success THEN [servers EXCEPT ![s[2]] = s[3]] ELSE servers
  /\ logged' = logged \cup {<<s[2], s[3]>>}
  /\ UNCHANGED <<db, last, phase, status500, writes, pending, scripts, serialize, lost, overtaken>>

\* A slip: an asynchronous script ends the loop.
SendResponseEarly(w) ==
  /\ phase[w] = "executing"
  /\ Synchronous(w) = {}
  /\ Leave(w)
  /\ UNCHANGED <<db, last, servers, scripts, serialize, running, logged, lost, overtaken>>

\* All scripts are launched and the threads of the synchronous ones joined.
SendResponse(w) ==
  /\ phase[w] = "executing"
  /\ scripts[w] = {}
  /\ Synchronous(w) = {}
  /\ Leave(w)
  /\ UNCHANGED <<db, last, servers, scripts, serialize, running, logged, lost, overtaken>>

\* The process of w dies: its transaction is rolled back, its scripts stop
\* where they are.
Crash(w) ==
  /\ Crashes
  /\ Leave(w)
  /\ scripts' = [scripts EXCEPT ![w] = {}]
  /\ running' = {s \in running : s[1] # w}
  /\ lost' = lost \cup scripts[w] \cup {<<s[2], s[3]>> : s \in {r \in running : r[1] = w}}
  /\ UNCHANGED <<db, last, servers, serialize, logged, overtaken>>

Next ==
  \/ \E w \in Workers :
       \/ ProcessRequest(w)
       \/ \E o \in Objects : SaveObject(w, o)
       \/ ViewReturns(w)
       \/ ProcessException(w)
       \/ ProcessResponseIdle(w)
       \/ ProcessResponseFails(w)
       \/ ProcessResponse(w)
       \/ \E o \in Objects, v \in Version : Launch(w, o, v)
       \/ SendResponse(w)
       \/ Crash(w)
  \/ \E s \in running, success \in BOOLEAN : ScriptEnds(s, success)

\* The loop of execute() goes on and an SSH session ends, well or not; nothing
\* is asked of the users and of the views.
Fairness ==
  /\ \A w \in Workers : WF_vars(\E o \in Objects, v \in Version : Launch(w, o, v))
  /\ \A w \in Workers, o \in Objects :
       WF_vars(\E s \in running, success \in BOOLEAN :
                 s[1] = w /\ s[2] = o /\ ScriptEnds(s, success))

Spec == Init /\ [][Next]_vars
FairSpec == Spec /\ Fairness

-----------------------------------------------------------------------------
(* Properties *)

\* "We commit transaction just before executing operations": no script carries
\* a state of an instance that is not committed.
OnlyCommittedIsExecuted == \A c \in InExecution : c[2] <= db[c[1]]

\* The committed state of every instance is on its way to the server, or its
\* script ended and has a log to tell how, or it went with a process.
CommitsAccountedFor ==
  \A o \in Objects : db[o] > 0 => <<o, db[o]>> \in InExecution \cup logged \cup lost

\* A committed state is executed by one script of one request.
ExecutedOnce ==
  /\ \A w, u \in Workers : w # u => scripts[w] \cap scripts[u] = {}
  /\ \A s, r \in running : s[2] = r[2] /\ s[3] = r[3] => s = r
  /\ \A s \in running, w \in Workers : <<s[2], s[3]>> \notin scripts[w]

\* A response is not sent while a synchronous script of the request runs.
SynchronousScriptsJoined ==
  \A w \in Workers : phase[w] # "executing" => Synchronous(w) = {} /\ scripts[w] = {}

\* A serialized backend never runs beside another script of its request.
SerializedRunsAlone ==
  \A s \in running : s[2] \in Serialized => ~s[4] /\ Synchronous(s[1]) = {s}

\* A server is taken back to an older state only by a script that was still in
\* execution when another request committed a newer one (execute runs the scripts
\* of a request after its commit, beside those of the others).
ServersNeverGoBack ==
  [][\A o \in Objects : servers'[o] < servers[o] => <<o, servers'[o]>> \in overtaken]_vars

\* What was committed is executed, whatever the other requests do.
CommitsAreExecuted ==
  \A w \in Workers, o \in Objects, v \in Version :
    <<o, v>> \in scripts[w] ~> <<o, v>> \in logged \cup lost

\* What the request of w will commit is what it will execute.
PendingIsWritten(w) ==
  /\ phase[w] \notin {"view", "response"} => writes[w] = {} /\ pending[w] = {}
  /\ status500[w] => writes[w] = {} /\ phase[w] = "response"
  /\ ~status500[w] => writes[w] = pending[w]

\* What is written is newer than what is committed, and each row is written
\* by one transaction.
WritesAreNew ==
  /\ \A o \in Objects : db[o] <= last[o]
  /\ \A w \in Workers : \A c \in writes[w] : db[c[1]] < c[2] /\ c[2] <= last[c[1]]
  /\ \A w, u \in Workers : w # u => ObjectsOf(writes[w]) \cap ObjectsOf(writes[u]) = {}

\* The inductive invariant: no request executes what it did not commit because
\* it holds until then the locks of all it is going to execute.
CycleInv ==
  /\ OnlyCommittedIsExecuted
  /\ CommitsAccountedFor
  /\ SynchronousScriptsJoined
  /\ ExecutedOnce
  /\ \A w \in Workers : PendingIsWritten(w)
  /\ WritesAreNew

\* Why a serialized backend runs alone: the loop that launches it launches no other
\* script, and its request is not over before it ends.
AloneInv ==
  /\ SynchronousScriptsJoined
  /\ SerializedRunsAlone
  /\ \A s \in running : s[2] \in Serialized => serialize[s[1]]
  /\ \A w \in Workers : ~serialize[w] => ObjectsOf(scripts[w]) \cap Serialized = {}

\* Why only overtaken scripts are out of date: when they were generated, inside the
\* transaction, what they carry was the newest.
UpToDateInv ==
  /\ \A c \in InExecution : c[2] = db[c[1]] \/ c \in overtaken
  /\ \A o \in Objects : servers[o] <= db[o]

\* The cycle implements what orchestration promises.
Promise == INSTANCE Deployment WITH todo <- InExecution
PromiseSpec == Promise!Spec
=============================================================================
