------------------------------ MODULE Deployment ------------------------------
(***************************************************************************)
(* What orchestration promises of the database and the servers, with       *)
(* requests, transactions and threads left out: each committed state of an *)
(* instance becomes one piece of work for its server, that is applied or   *)
(* given up once, and nothing else ever reaches a server.                  *)
(***************************************************************************)
EXTENDS Naturals

CONSTANTS Objects, MaxVersion

Version == 0 .. MaxVersion

VARIABLES
  db,       \* db[o]: the committed state of o
  servers,  \* servers[o]: the state the server of o was last configured with
  todo      \* the committed states <<o, v>> not yet applied nor given up

vars == <<db, servers, todo>>

TypeOK ==
  /\ db \in [Objects -> Version]
  /\ servers \in [Objects -> Version]
  /\ todo \subseteq Objects \X Version

Init ==
  /\ db = [o \in Objects |-> 0]
  /\ servers = [o \in Objects |-> 0]
  /\ todo = {}

\* A transaction commits newer states of some instances.
Commit ==
  \E new \in [Objects -> Version] :
    /\ \A o \in Objects : new[o] >= db[o]
    /\ db' = new
    /\ todo' = todo \cup {<<o, new[o]>> : o \in {p \in Objects : new[p] > db[p]}}
    /\ UNCHANGED servers

Apply(o, v) ==
  /\ <<o, v>> \in todo
  /\ servers' = [servers EXCEPT ![o] = v]
  /\ todo' = todo \ {<<o, v>>}
  /\ UNCHANGED db

\* Work is given up when its script fails, and all of a process at once when
\* the process dies.
GiveUp ==
  /\ todo' \in SUBSET todo
  /\ UNCHANGED <<db, servers>>

Next ==
  \/ Commit
  \/ \E o \in Objects, v \in Version : Apply(o, v)
  \/ GiveUp

Spec == Init /\ [][Next]_vars
=============================================================================
