------------------------------- MODULE Databases -------------------------------
(***************************************************************************)
(* Databases, their users, and the privileges MySQL grants.  A request     *)
(* generates two scripts, of databases and of users, which two threads     *)
(* execute at once after the commit; the first waits a while before it     *)
(* grants, for the other to have created the users.                        *)
(*                                                                         *)
(* MySQL keeps privileges in a table and in memory.  GRANT and DROP USER   *)
(* change both, DELETE the table alone, until it is flushed.               *)
(***************************************************************************)
EXTENDS Naturals, FiniteSets, SequencesExt

CONSTANTS
  Requests,
  Names,     \* of databases
  Users,
  None

VARIABLES
  databases,  \* databases[n]: the users of its row, or None
  permision,  \* permision[u]: that of the row of u, or None
  created,    \* databases of the server
  there,      \* users of the server
  table,      \* table[n][u]: what u may do in n, or None
  granted,    \* the same, in memory
  phase,      \* phase[r]
  dbScript,   \* dbScript[r]: commands not yet executed of either script
  userScript,
  excused     \* history: databases about which scripts overlapped, or failed

server == <<created, there, table, granted>>
vars == <<databases, permision, created, there, table, granted, phase, dbScript, userScript, excused>>

Permisions == {"all", "ro"}

DbCommands ==
  [do : {"reset", "drop", "revoke"}, name : Names]
    \cup [do : {"grant"}, name : Names, user : Users, what : Permisions]
    \cup [do : {"flush"}]
UserCommands == [do : {"create", "drop"}, user : Users] \cup [do : {"flush"}]

Assumption ==
  IsFiniteSet(Users) /\ None \notin Permisions /\ \A users \in SUBSET Users : users # None

TypeOK ==
  /\ databases \in [Names -> (SUBSET Users) \cup {None}]
  /\ permision \in [Users -> Permisions \cup {None}]
  /\ created \subseteq Names /\ there \subseteq Users
  /\ table \in [Names -> [Users -> Permisions \cup {None}]]
  /\ granted \in [Names -> [Users -> Permisions \cup {None}]]
  /\ phase \in [Requests -> {"none", "executes"}]
  /\ dbScript \in [Requests -> Seq(DbCommands)] /\ userScript \in [Requests -> Seq(UserCommands)]
  /\ excused \subseteq Names

Nobody == [u \in Users |-> None]

Init ==
  /\ databases = [n \in Names |-> None]
  /\ permision = Nobody
  /\ created = {} /\ there = {}
  /\ table = [n \in Names |-> Nobody] /\ granted = table
  /\ phase = [r \in Requests |-> "none"]
  /\ dbScript = [r \in Requests |-> << >>] /\ userScript = [r \in Requests |-> << >>]
  /\ excused = {}

Flush == <<[do |-> "flush"]>>

-----------------------------------------------------------------------------
(* Scripts *)

SaveDatabase(n, users, permisions) ==
  <<[do |-> "reset", name |-> n]>>
    \o SetToSeq({[do |-> "grant", name |-> n, user |-> u, what |-> permisions[u]] : u \in users})
    \o Flush

\* A slip: privileges stay in the table.
DropOnly(n) == <<[do |-> "drop", name |-> n]>> \o Flush

DeleteDatabase(n) == <<[do |-> "drop", name |-> n], [do |-> "revoke", name |-> n]>> \o Flush

SaveUser(u) == <<[do |-> "create", user |-> u]>> \o Flush

DeleteUser(u) == <<[do |-> "drop", user |-> u]>> \o Flush

Busy == \E r \in Requests : phase[r] = "executes"

\* A database that is saved while nothing else is under way is no longer excused.
Saves(n) == IF Busy THEN excused \cup {n} ELSE excused \ {n}

Touches(names) == IF Busy THEN excused \cup names ELSE excused

\* The transaction commits and its scripts start.
Commits(r, excuses, db, user) ==
  /\ phase[r] = "none"
  /\ phase' = [phase EXCEPT ![r] = "executes"]
  /\ dbScript' = [dbScript EXCEPT ![r] = db]
  /\ userScript' = [userScript EXCEPT ![r] = user]
  /\ excused' = excuses
  /\ UNCHANGED server

OfUser(u) == {n \in Names : databases[n] # None /\ u \in databases[n]}

-----------------------------------------------------------------------------
(* Requests *)

\* The form of a new database makes a user for it, or takes one there is, which
\* is saved again.
AddDatabase(r) ==
  \E n \in Names, u \in Users :
    LET permisions == [permision EXCEPT ![u] = IF @ = None THEN "all" ELSE @] IN
    /\ databases[n] = None
    /\ databases' = [databases EXCEPT ![n] = {u}]
    /\ permision' = permisions
    /\ Commits(r, Saves(n), SaveDatabase(n, {u}, permisions), SaveUser(u))

ChangeUsers(r) ==
  \E n \in Names, users \in SUBSET {u \in Users : permision[u] # None} :
    /\ databases[n] \notin {None, users}
    /\ databases' = [databases EXCEPT ![n] = users]
    /\ UNCHANGED permision
    /\ Commits(r, Saves(n), SaveDatabase(n, users, permision), << >>)

RemoveDatabase(r) ==
  \E n \in Names :
    /\ databases[n] # None
    /\ databases' = [databases EXCEPT ![n] = None]
    /\ UNCHANGED permision
    /\ Commits(r, Saves(n), DeleteDatabase(n), << >>)

AddUser(r) ==
  \E u \in Users, p \in Permisions :
    /\ permision[u] = None
    /\ permision' = [permision EXCEPT ![u] = p]
    /\ UNCHANGED databases
    /\ Commits(r, excused, << >>, SaveUser(u))

\* No database is told of it: those of u are as before until they are saved.
ChangePermision(r) ==
  \E u \in Users, p \in Permisions :
    /\ permision[u] \notin {None, p}
    /\ permision' = [permision EXCEPT ![u] = p]
    /\ UNCHANGED databases
    /\ Commits(r, excused \cup OfUser(u), << >>, SaveUser(u))

RemoveUser(r) ==
  \E u \in Users :
    /\ permision[u] # None
    /\ permision' = [permision EXCEPT ![u] = None]
    /\ databases' = [n \in Names |-> IF databases[n] = None THEN None ELSE databases[n] \ {u}]
    /\ Commits(r, Touches(OfUser(u)), << >>, DeleteUser(u))

-----------------------------------------------------------------------------
(* What the commands do *)

DbRuns(r, do) ==
  /\ dbScript[r] # << >> /\ Head(dbScript[r]).do = do
  /\ dbScript' = [dbScript EXCEPT ![r] = Tail(@)]
  /\ UNCHANGED <<databases, permision, phase, userScript, excused>>

\* CREATE DATABASE, which may fail, and DELETE of its privileges.
Reset(r) ==
  /\ DbRuns(r, "reset")
  /\ LET n == Head(dbScript[r]).name IN
     /\ created' = created \cup {n}
     /\ table' = [table EXCEPT ![n] = Nobody]
  /\ UNCHANGED <<there, granted>>

Grant(r) ==
  /\ DbRuns(r, "grant")
  /\ LET c == Head(dbScript[r]) IN
     /\ c.user \in there
     /\ table' = [table EXCEPT ![c.name][c.user] = c.what]
     /\ granted' = [granted EXCEPT ![c.name][c.user] = c.what]
  /\ UNCHANGED <<created, there>>

\* The user was not created yet: the script ends, and flushes nothing.
GrantTooEarly(r) ==
  /\ dbScript[r] # << >> /\ Head(dbScript[r]).do = "grant"
  /\ Head(dbScript[r]).user \notin there
  /\ dbScript' = [dbScript EXCEPT ![r] = << >>]
  /\ excused' = excused \cup {Head(dbScript[r]).name}
  /\ UNCHANGED <<databases, permision, phase, userScript, server>>

Drop(r) ==
  /\ DbRuns(r, "drop")
  /\ created' = created \ {Head(dbScript[r]).name}
  /\ UNCHANGED <<there, table, granted>>

Revoke(r) ==
  /\ DbRuns(r, "revoke")
  /\ table' = [table EXCEPT ![Head(dbScript[r]).name] = Nobody]
  /\ UNCHANGED <<created, there, granted>>

DbFlush(r) ==
  /\ DbRuns(r, "flush")
  /\ granted' = table
  /\ UNCHANGED <<created, there, table>>

UserRuns(r, do) ==
  /\ userScript[r] # << >> /\ Head(userScript[r]).do = do
  /\ userScript' = [userScript EXCEPT ![r] = Tail(@)]
  /\ UNCHANGED <<databases, permision, created, phase, dbScript, excused>>

CreateUser(r) ==
  /\ UserRuns(r, "create")
  /\ there' = there \cup {Head(userScript[r]).user}
  /\ UNCHANGED <<table, granted>>

\* MySQL forgets what the user was granted.
DropUser(r) ==
  /\ UserRuns(r, "drop")
  /\ LET u == Head(userScript[r]).user IN
     /\ there' = there \ {u}
     /\ table' = [n \in Names |-> [table[n] EXCEPT ![u] = None]]
     /\ granted' = [n \in Names |-> [granted[n] EXCEPT ![u] = None]]

UserFlush(r) ==
  /\ UserRuns(r, "flush")
  /\ granted' = table
  /\ UNCHANGED <<there, table>>

Ends(r) ==
  /\ phase[r] = "executes" /\ dbScript[r] = << >> /\ userScript[r] = << >>
  /\ phase' = [phase EXCEPT ![r] = "none"]
  /\ UNCHANGED <<databases, permision, server, dbScript, userScript, excused>>

Next ==
  \E r \in Requests :
    \/ AddDatabase(r) \/ ChangeUsers(r) \/ RemoveDatabase(r)
    \/ AddUser(r) \/ ChangePermision(r) \/ RemoveUser(r)
    \/ Reset(r) \/ Grant(r) \/ GrantTooEarly(r) \/ Drop(r) \/ Revoke(r) \/ DbFlush(r)
    \/ CreateUser(r) \/ DropUser(r) \/ UserFlush(r) \/ Ends(r)

Spec == Init /\ [][Next]_vars

-----------------------------------------------------------------------------
(* Properties *)

\* Once nothing is under way users may do what their rows say in the databases
\* there are, though privileges are deleted and granted again and whoever flushes
\* them flushes those of all; but for users that were not created in time, a
\* permision that was changed and scripts about a database that overlapped: until
\* it is saved again.
GrantsAgree ==
  ~Busy =>
    \A n \in Names \ excused :
      granted[n] = [u \in Users |-> IF databases[n] # None /\ u \in databases[n] THEN permision[u] ELSE None]
=============================================================================
