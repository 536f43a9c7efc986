------------------------------ MODULE SystemUsers -----------------------------
(***************************************************************************)
(* An account, its UNIX users, and the users of the server: who may log    *)
(* in, and the groups the main user is in so that it reaches the files of  *)
(* the others.                                                             *)
(*                                                                         *)
(* A request reads the account, writes its rows and generates one script   *)
(* with a command for each user concerned; the script is executed after    *)
(* the commit, and may end before its last command.                        *)
(***************************************************************************)
EXTENDS Naturals, FiniteSets, SequencesExt

CONSTANTS
  Requests,
  Users,
  Main,    \* the main user of the account
  Away,    \* users whose home is not their base home, but inside that of Main
  None

VARIABLES
  active,   \* active[u]: is_active of the row of u, or None
  account,  \* is_active of the account
  homes,    \* users of Away whose home is there
  login,    \* login[u]: whether u may log in on the server, None if u is not there
  reach,    \* users whose group Main is in
  phase,    \* phase[r]
  writes,   \* writes[r]: what its transaction writes
  script,   \* script[r]: the commands not yet executed
  overlaps, \* history: users about whom two requests were at work at once
  skipped   \* history: users whose last command was not executed, or failed

db == <<active, account>>
server == <<login, reach>>
vars == <<active, account, homes, login, reach, phase, writes, script, overlaps, skipped>>

Commands ==
  [do : {"save"}, user : Users, active : BOOLEAN, groups : SUBSET Users]
    \cup [do : {"delete"}, user : Users]

Assumption == IsFiniteSet(Users) /\ Main \in Users /\ None \notin BOOLEAN

TypeOK ==
  /\ active \in [Users -> BOOLEAN \cup {None}] /\ account \in BOOLEAN
  /\ homes \subseteq Away
  /\ login \in [Users -> BOOLEAN \cup {None}]
  /\ reach \subseteq Users
  /\ phase \in [Requests -> {"none", "open", "executes"}]
  /\ script \in [Requests -> Seq(Commands)]
  /\ overlaps \subseteq Users /\ skipped \subseteq Users

\* Account.save creates the main user, which is not active unless asked for.
Init ==
  /\ \E active_systemuser \in BOOLEAN :
       active = [u \in Users |-> IF u = Main THEN active_systemuser ELSE None]
  /\ account = TRUE
  /\ homes = Away
  /\ login = [u \in Users |-> IF u = Main /\ active[Main] THEN TRUE ELSE None]
  /\ reach = {}
  /\ phase = [r \in Requests |-> "none"]
  /\ writes = [r \in Requests |-> None]
  /\ script = [r \in Requests |-> << >>]
  /\ overlaps = {} /\ skipped = {}

Exists(rows) == {u \in Users : rows[u] # None}

-----------------------------------------------------------------------------
(* Requests *)

\* get_groups: the main user is in the groups of all others that have a row,
\* whether or not they were ever created on the server.
get_groups(u, rows) == IF u = Main THEN Exists(rows) \ {Main} ELSE {}

\* A slip: the state of the user alone is what counts.
SaveAlone(u, rows, enabled) ==
  [do |-> "save", user |-> u, active |-> rows[u], groups |-> get_groups(u, rows)]

Save(u, rows, enabled) ==
  [do |-> "save", user |-> u, active |-> rows[u] /\ enabled, groups |-> get_groups(u, rows)]

CommandFor(u, rows, enabled) ==
  IF rows[u] = None THEN [do |-> "delete", user |-> u] ELSE Save(u, rows, enabled)

\* The commands of the users concerned, that of Main before all others.
Generated(who, rows, enabled) ==
  LET order == CHOOSE s \in SetToSeqs(who) : Main \in who => Head(s) = Main IN
  [i \in 1 .. Len(order) |-> CommandFor(order[i], rows, enabled)]

\* The command of Main is about the groups of all.
Concerns(who) == IF Main \in who THEN Users ELSE who

Requested(r, who, rows, enabled) ==
  LET busy == UNION {Concerns(writes[q].users) : q \in {x \in Requests \ {r} : phase[x] # "none"}} IN
  /\ phase[r] = "none"
  /\ \A q \in Requests : phase[q] # "open"
  /\ writes' = [writes EXCEPT ![r] = [users |-> who, rows |-> rows, account |-> enabled]]
  /\ script' = [script EXCEPT ![r] = Generated(who, rows, enabled)]
  /\ phase' = [phase EXCEPT ![r] = "open"]
  /\ overlaps' = overlaps \cup (Concerns(who) \cap busy)
  /\ UNCHANGED <<db, homes, server, skipped>>

\* A user is added, saved, disabled or enabled.
PutUser(r, u) ==
  \E b \in BOOLEAN : Requested(r, {u}, [active EXCEPT ![u] = b], account)

RemoveUser(r, u) ==
  /\ u # Main /\ active[u] # None
  /\ Requested(r, {u}, [active EXCEPT ![u] = None], account)

\* disable() and enable(): notify_related saves all services, the main user first.
SwitchAccount(r) == Requested(r, Exists(active), active, ~account)

Commit(r) ==
  /\ phase[r] = "open"
  /\ active' = writes[r].rows /\ account' = writes[r].account
  /\ phase' = [phase EXCEPT ![r] = "executes"]
  /\ UNCHANGED <<homes, server, writes, script, overlaps, skipped>>

-----------------------------------------------------------------------------
(* The script *)

Command(r) == Head(script[r])

Executes(r, do) ==
  /\ phase[r] = "executes" /\ script[r] # << >>
  /\ Command(r).do = do

GoesOn(r) ==
  /\ script' = [script EXCEPT ![r] = Tail(@)]
  /\ skipped' = skipped \ {Command(r).user}
  /\ UNCHANGED <<db, homes, phase, writes, overlaps>>

\* exit, with any code: nobody does what is left.
Exits(r, undone) ==
  /\ script' = [script EXCEPT ![r] = << >>]
  /\ skipped' = skipped \cup undone
  /\ UNCHANGED <<db, homes, server, phase, writes, overlaps>>

Left(r) == {c.user : c \in ToSet(script[r])}

HomeMissing(u) == u \in Away \ homes

\* The home of a user is not there: the whole script ends, with success.
HomeIsMissing(r) ==
  /\ Executes(r, "save")
  /\ HomeMissing(Command(r).user)
  /\ Exits(r, Left(r))

\* usermod --password: a user that is not there is not created.
DisableLogin(r) ==
  /\ Executes(r, "save")
  /\ LET c == Command(r) IN
     /\ ~HomeMissing(c.user) /\ ~c.active
     /\ login' = [login EXCEPT ![c.user] = IF @ = None THEN None ELSE FALSE]
  /\ UNCHANGED reach
  /\ GoesOn(r)

Known(groups) == \A g \in groups : login[g] # None

\* usermod and useradd fail if one of the groups is not there.
GroupIsMissing(r) ==
  /\ Executes(r, "save")
  /\ LET c == Command(r) IN ~HomeMissing(c.user) /\ c.active /\ ~Known(c.groups)
  /\ Exits(r, Left(r))

\* usermod --groups replaces the groups of Main; a user of its own gets Main into
\* its group, if Main is there.
EnableLogin(r) ==
  /\ Executes(r, "save")
  /\ LET c == Command(r) IN
     /\ ~HomeMissing(c.user) /\ c.active /\ Known(c.groups)
     /\ login' = [login EXCEPT ![c.user] = TRUE]
     /\ reach' = IF c.user = Main THEN c.groups
                 ELSE reach \cup {u \in {c.user} : login[Main] # None}
  /\ GoesOn(r)

Delete(r) ==
  /\ Executes(r, "delete")
  /\ LET u == Command(r).user IN
     /\ login[u] # None
     /\ login' = [login EXCEPT ![u] = None]
     /\ reach' = reach \ {u}
  /\ GoesOn(r)

\* A user that does not exist needs no deletion, and the script ends, with success.
NothingToDelete(r) ==
  /\ Executes(r, "delete")
  /\ login[Command(r).user] = None
  /\ Exits(r, Left(r) \ {Command(r).user})

Ends(r) ==
  /\ phase[r] = "executes" /\ script[r] = << >>
  /\ phase' = [phase EXCEPT ![r] = "none"]
  /\ writes' = [writes EXCEPT ![r] = None]
  /\ UNCHANGED <<db, homes, server, script, overlaps, skipped>>

\* The users of the account move and remove their directories.
MoveHome(u) ==
  /\ u \in Away
  /\ homes' = (homes \ {u}) \cup ({u} \ homes)
  /\ UNCHANGED <<db, server, phase, writes, script, overlaps, skipped>>

Next ==
  \/ \E r \in Requests :
       \/ \E u \in Users : PutUser(r, u) \/ RemoveUser(r, u)
       \/ SwitchAccount(r) \/ Commit(r) \/ Ends(r)
       \/ HomeIsMissing(r) \/ DisableLogin(r) \/ GroupIsMissing(r) \/ EnableLogin(r)
       \/ Delete(r) \/ NothingToDelete(r)
  \/ \E u \in Users : MoveHome(u)

Spec == Init /\ [][Next]_vars

-----------------------------------------------------------------------------
(* Properties *)

Quiet == \A r \in Requests : phase[r] = "none"

\* Once nothing is under way who may log in is who is active, of an account that
\* is active, whatever the order in which users and account were switched, added
\* and removed; but for scripts that ended early and requests that overlapped.
LoginsAgree ==
  Quiet => \A u \in Users \ (overlaps \cup skipped) :
    /\ login[u] = TRUE <=> active[u] = TRUE /\ account
    /\ active[u] = None => login[u] = None

\* The main user, while it is enabled, is in the group of every user there is.
MainReachesAll ==
  Quiet => \A u \in Users \ (overlaps \cup skipped \cup {Main}) :
    login[Main] = TRUE /\ Main \notin overlaps \cup skipped =>
      (u \in reach <=> login[u] # None)
=============================================================================
