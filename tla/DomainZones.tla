----------------------------- MODULE DomainZones ------------------------------
(***************************************************************************)
(* Domains, the zones a master server of names has of them, and the copies *)
(* of its slaves, which transfer a zone when its serial number grows.      *)
(*                                                                         *)
(* A request reads the database, writes rows and generates the scripts     *)
(* for the master and the slave; both are executed after the commit.  They *)
(* are about the zone that changes, whatever rows the request writes.      *)
(* What a zone says is a version of the records of each of its domains.    *)
(***************************************************************************)
EXTENDS Naturals, FiniteSets

CONSTANTS
  Requests,
  Domains,
  Ancestors, \* Ancestors[d]: domains d may be a subdomain of
  Versions,  \* of the records of a domain
  MaxDay, MaxNumber, \* serials: the number of a day has two digits in the code
  None

VARIABLES
  today,
  records,  \* records[d]: the version of its records, None if d is not there
  top,      \* top[d]: the domain d is a subdomain of, or None
  serial,   \* serial[d]
  conf,     \* zones in the configuration of the master
  zones,    \* zones[d]: its file
  served,   \* what the master read when it last restarted
  slave,    \* zones in the configuration of the slave
  copies,   \* copies[d]: the file of the slave, which it keeps
  phase, change, \* of each request: what it writes, and the command of its scripts
  masterToDo, slaveToDo, \* requests whose script the master, or the slave, has not executed
  deleted,  \* history: zones that were deleted, of which the slave kept a copy
  overlaps  \* history: zones two requests were at work on

db == <<records, top, serial>>
master == <<conf, zones, served>>
work == <<phase, change, masterToDo, slaveToDo>>
vars == <<today, records, top, serial, conf, zones, served, slave, copies, phase, change,
          masterToDo, slaveToDo, deleted, overlaps>>

Serials == [day : 0 .. MaxDay, number : 0 .. MaxNumber]
Zones == [serial : Serials, says : [Domains -> Versions \cup {None}]]
Commands == [do : {"save"}, zone : Domains, file : Zones] \cup [do : {"delete"}, zone : Domains]
RowsOfDomains == [records : [Domains -> Versions \cup {None}], top : [Domains -> Domains \cup {None}]]
Changes == [old : RowsOfDomains, new : RowsOfDomains, command : Commands]

\* Names are a forest: a domain is below its ancestors, each of which is below another.
Assumption ==
  /\ IsFiniteSet(Domains) /\ Ancestors \in [Domains -> SUBSET Domains]
  /\ \A d \in Domains : d \notin Ancestors[d]
  /\ \A d \in Domains : \A a \in Ancestors[d] :
       /\ Ancestors[a] \subseteq Ancestors[d]
       /\ \A b \in Ancestors[d] : a = b \/ a \in Ancestors[b] \/ b \in Ancestors[a]
  /\ MaxDay \in Nat /\ MaxNumber \in Nat
  /\ None \notin Domains \cup Versions \cup Zones \cup Changes

TypeOK ==
  /\ today \in 0 .. MaxDay
  /\ records \in [Domains -> Versions \cup {None}]
  /\ top \in [Domains -> Domains \cup {None}]
  /\ serial \in [Domains -> Serials]
  /\ conf \subseteq Domains /\ slave \subseteq Domains
  /\ zones \in [Domains -> Zones \cup {None}] /\ served \in [Domains -> Zones \cup {None}]
  /\ copies \in [Domains -> Zones \cup {None}]
  /\ phase \in [Requests -> {"none", "open", "executes"}]
  /\ change \in [Requests -> Changes \cup {None}]
  /\ masterToDo \subseteq Requests /\ slaveToDo \subseteq Requests
  /\ deleted \subseteq Domains /\ overlaps \subseteq Domains

\* Of a domain that is not there.
NoSerial == [day |-> 0, number |-> 0]

Nothing == [d \in Domains |-> None]

Init ==
  /\ today = 0
  /\ records = Nothing /\ top = Nothing
  /\ serial = [d \in Domains |-> NoSerial]
  /\ conf = {} /\ zones = Nothing /\ served = Nothing
  /\ slave = {} /\ copies = Nothing
  /\ phase = [r \in Requests |-> "none"]
  /\ change = [r \in Requests |-> None]
  /\ masterToDo = {} /\ slaveToDo = {}
  /\ deleted = {} /\ overlaps = {}

-----------------------------------------------------------------------------
(* Domains *)

generate_zone_serial == [day |-> today, number |-> 0]

Later(a, b) == a.day > b.day \/ (a.day = b.day /\ a.number > b.number)

\* A slip: the first serial of a day is taken again.
SerialOfToday(s) == generate_zone_serial

\* The serial of today, or the next after the one there is.
refresh_serial(s) ==
  IF Later(generate_zone_serial, s) THEN generate_zone_serial
  ELSE [s EXCEPT !.number = @ + 1]

\* No more serial numbers for today: generate raises, and the request fails.
Exhausted(s) == ~Later(generate_zone_serial, s) /\ s.number + 1 >= MaxNumber

\* A domain that is created starts with the serial of today.
serial_of(d) == IF records[d] = None THEN generate_zone_serial ELSE serial[d]

\* The highest ancestor there is, or None.
get_parent(d) ==
  LET there == {a \in Ancestors[d] : records[a] # None} IN
  IF there = {} THEN None ELSE CHOOSE a \in there : there \cap Ancestors[a] = {}

Subdomains(d) == {x \in Domains : d \in Ancestors[x]}

\* The domain whose zone d is in.
Origin(d, tops) == IF tops[d] = None THEN d ELSE tops[d]

render_zone(z, rows, tops) ==
  [d \in Domains |-> IF Origin(d, tops) = z THEN rows[d] ELSE None]

-----------------------------------------------------------------------------
(* Requests *)

Save(z, rows, tops) ==
  [do |-> "save", zone |-> z,
   file |-> [serial |-> refresh_serial(serial_of(z)), says |-> render_zone(z, rows, tops)]]

Related(a, b) == a = b \/ a \in Ancestors[b] \/ b \in Ancestors[a]

\* A request writes rows and tops; its scripts save a zone or delete it.  Serials are
\* written when scripts are generated.
Requested(r, rows, tops, command) ==
  LET z == command.zone IN
  /\ phase[r] = "none"
  /\ command.do = "save" => ~Exhausted(serial_of(z))
  /\ change' = [change EXCEPT ![r] =
       [old |-> [records |-> records, top |-> top], new |-> [records |-> rows, top |-> tops],
        command |-> command]]
  /\ masterToDo' = masterToDo \cup {r} /\ slaveToDo' = slaveToDo \cup {r}
  /\ phase' = [phase EXCEPT ![r] = "open"]
  /\ overlaps' = IF \E q \in Requests \ {r} : phase[q] # "none" /\ Related(change[q].command.zone, z)
                 THEN Domains ELSE overlaps
  /\ UNCHANGED <<today, db, master, slave, copies, deleted>>

\* A new domain is in the zone of its highest ancestor; if it has none, it takes
\* over the domains below it.
Create(r, d) ==
  /\ records[d] = None
  /\ \E v \in Versions :
       LET parent == get_parent(d)
           below == IF parent = None THEN {x \in Subdomains(d) : records[x] # None} ELSE {}
           tops == [x \in Domains |-> IF x = d THEN parent
                                      ELSE IF x \in below THEN d ELSE top[x]]
           rows == [records EXCEPT ![d] = v] IN
       Requested(r, rows, tops, Save(Origin(d, tops), rows, tops))

ChangeRecords(r, d) ==
  /\ records[d] # None
  /\ \E v \in Versions \ {records[d]} :
       LET rows == [records EXCEPT ![d] = v] IN
       Requested(r, rows, top, Save(Origin(d, top), rows, top))

\* The domains of its zone are deleted with a top domain, on which a subdomain
\* only has its zone rendered again.
Delete(r, d) ==
  /\ records[d] # None
  /\ LET going == {x \in Domains : x = d \/ top[x] = d}
         rows == [x \in Domains |-> IF x \in going THEN None ELSE records[x]]
         tops == [x \in Domains |-> IF x \in going THEN None ELSE top[x]] IN
     Requested(r, rows, tops, IF top[d] = None THEN [do |-> "delete", zone |-> d]
                              ELSE Save(top[d], rows, tops))

\* Only what the request wrote.
Merge(now, old, new) == [d \in Domains |-> IF old[d] = new[d] THEN now[d] ELSE new[d]]

Commit(r) ==
  LET c == change[r] IN
  /\ phase[r] = "open"
  /\ records' = Merge(records, c.old.records, c.new.records)
  /\ top' = Merge(top, c.old.top, c.new.top)
  /\ serial' = [d \in Domains |->
       IF c.command.do = "save" /\ d = c.command.zone THEN c.command.file.serial
       ELSE IF c.old.records[d] = None /\ c.new.records[d] # None THEN generate_zone_serial
       ELSE IF records'[d] = None THEN NoSerial ELSE serial[d]]
  /\ phase' = [phase EXCEPT ![r] = "executes"]
  /\ UNCHANGED <<today, master, slave, copies, change, masterToDo, slaveToDo, deleted, overlaps>>

-----------------------------------------------------------------------------
(* Scripts *)

\* A zone is written and configured, and zones of its subdomains go.
MasterSave(r) ==
  LET c == change[r].command IN
  /\ phase[r] = "executes" /\ r \in masterToDo /\ c.do = "save"
  /\ zones' = [d \in Domains |-> IF d = c.zone THEN c.file
                                 ELSE IF d \in Subdomains(c.zone) THEN None ELSE zones[d]]
  /\ conf' = (conf \cup {c.zone}) \ Subdomains(c.zone)
  /\ masterToDo' = masterToDo \ {r}
  /\ UNCHANGED <<today, db, served, slave, copies, phase, change, slaveToDo, deleted, overlaps>>

MasterDelete(r) ==
  LET c == change[r].command IN
  /\ phase[r] = "executes" /\ r \in masterToDo /\ c.do = "delete"
  /\ zones' = [zones EXCEPT ![c.zone] = None]
  /\ conf' = conf \ {c.zone}
  /\ masterToDo' = masterToDo \ {r}
  /\ UNCHANGED <<today, db, served, slave, copies, phase, change, slaveToDo, deleted, overlaps>>

\* The slave has the configuration; its files stay.
SlaveRuns(r) ==
  LET c == change[r].command IN
  /\ phase[r] = "executes" /\ r \in slaveToDo
  /\ slave' = IF c.do = "save" THEN (slave \cup {c.zone}) \ Subdomains(c.zone)
              ELSE slave \ {c.zone}
  /\ deleted' = deleted \cup {d \in slave \ slave' : copies[d] # None}
  /\ slaveToDo' = slaveToDo \ {r}
  /\ UNCHANGED <<today, db, master, copies, phase, change, masterToDo, overlaps>>

Restart(r) ==
  /\ phase[r] = "executes" /\ r \notin masterToDo /\ r \notin slaveToDo
  /\ served' = [d \in Domains |-> IF d \in conf THEN zones[d] ELSE None]
  /\ phase' = [phase EXCEPT ![r] = "none"]
  /\ change' = [change EXCEPT ![r] = None]
  /\ UNCHANGED <<today, db, conf, zones, slave, copies, masterToDo, slaveToDo, deleted, overlaps>>

\* The slave asks for the serial, and transfers a zone that is newer.
MayTransfer(d) ==
  /\ d \in slave /\ served[d] # None
  /\ copies[d] # None => Later(served[d].serial, copies[d].serial)

Transfer(d) ==
  /\ MayTransfer(d)
  /\ copies' = [copies EXCEPT ![d] = served[d]]
  /\ UNCHANGED <<today, db, master, slave, work, deleted, overlaps>>

Midnight ==
  /\ today < MaxDay
  /\ today' = today + 1
  /\ UNCHANGED <<db, master, slave, copies, work, deleted, overlaps>>

Next ==
  \/ \E r \in Requests :
       \/ \E d \in Domains : Create(r, d) \/ ChangeRecords(r, d) \/ Delete(r, d)
       \/ Commit(r) \/ MasterSave(r) \/ MasterDelete(r) \/ SlaveRuns(r) \/ Restart(r)
  \/ \E d \in Domains : Transfer(d)
  \/ Midnight

Spec == Init /\ [][Next]_vars

-----------------------------------------------------------------------------
(* Properties *)

Quiet == \A r \in Requests : phase[r] = "none"

\* Once nothing is under way the master serves one zone for each highest domain,
\* with the records of all below it, in whatever order they were created and
\* deleted; unless two requests about a zone overlapped.
MasterServesAll ==
  Quiet /\ overlaps = {} => \A d \in Domains :
    LET parent == get_parent(d) IN
    IF records[d] = None \/ parent # None THEN served[d] = None
    ELSE /\ served[d] # None
         /\ \A x \in Domains :
              served[d].says[x] = (IF x = d \/ x \in Subdomains(d) THEN records[x] ELSE None)

\* A slave that has no newer serial to ask for has what the master serves, unless
\* the zone was deleted before: the slave has kept its file, and the serials of
\* a new zone may not come up to it.
SlavesHaveIt ==
  Quiet /\ overlaps = {} => \A d \in Domains \ deleted :
    served[d] # None /\ ~MayTransfer(d) => d \in slave /\ copies[d].says = served[d].says
=============================================================================
