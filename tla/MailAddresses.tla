---------------------------- MODULE MailAddresses -----------------------------
(***************************************************************************)
(* The addresses of mail and the two files of Postfix made of them: the    *)
(* domains it takes mail for, and where the mail of each address goes.     *)
(*                                                                         *)
(* A request changes addresses or mailboxes, generates its script while    *)
(* its transaction is open, and executes it after the commit, as others    *)
(* do.  A step of a script is a whole test and change of a file.  The      *)
(* commands of a script are about different lines, but for domains that    *)
(* extend each other, and are executed in any order.                       *)
(***************************************************************************)

CONSTANTS
  Requests,   \* requests, one after another in each
  Addresses,
  Domains,
  LocalDomain, \* MAILBOXES_LOCAL_DOMAIN
  DomainOf,   \* the domain of an address
  Mailboxes,
  NamesakeOf, \* the mailbox an address of the local domain is named as, or None
  Extends,    \* Extends[d]: domains whose name starts with that of d, as example.com with example.co
  None

VARIABLES
  address,   \* address[e]: its row, or None
  mailboxes, \* the mailboxes that exist
  hosted,    \* domains with the default MX
  domains,   \* the file of virtual domains
  maps,      \* maps[e]: its line of the virtual aliases, or None
  served,    \* what Postfix reads: both files as of the last reload or postmap
  change,    \* change[r]: what the open transaction of r writes: rows, mailboxes
  script,    \* script[r]: the commands of r not yet executed
  updated,   \* updated[r]: which UPDATED_ variables its script has set
  phase,     \* phase[r]
  excused    \* history: domains whose files may be wrong, see Interferes

db == <<address, mailboxes, hosted>>
server == <<domains, maps, served>>
vars == <<address, mailboxes, hosted, domains, maps, served, change, script, updated, phase, excused>>

Rows == [boxes : SUBSET Mailboxes, forward : SUBSET Mailboxes]

Commands ==
  [do : {"include", "exclude"}, domain : Domains]
    \cup [do : {"set"}, email : Addresses, destination : SUBSET Mailboxes]
    \cup [do : {"unset"}, email : Addresses]

TypeOK ==
  /\ address \in [Addresses -> Rows \cup {None}]
  /\ mailboxes \subseteq Mailboxes
  /\ hosted \subseteq Domains /\ domains \subseteq Domains
  /\ maps \in [Addresses -> (SUBSET Mailboxes) \cup {None}]
  /\ served \in [domains : SUBSET Domains, maps : [Addresses -> (SUBSET Mailboxes) \cup {None}]]
  /\ script \in [Requests -> SUBSET Commands]
  /\ updated \in [Requests -> SUBSET {"domains", "maps"}]
  /\ phase \in [Requests -> {"none", "open", "executes"}]
  /\ excused \subseteq Domains

\* Constants are of their types, and None is not a value of another one.
Assumption ==
  /\ DomainOf \in [Addresses -> Domains]
  /\ Extends \in [Domains -> SUBSET Domains]
  /\ \A S \in SUBSET Mailboxes : S # None
  /\ None \notin Rows

NoMaps == [e \in Addresses |-> None]

Init ==
  /\ address = NoMaps
  /\ mailboxes = {}
  /\ hosted \in SUBSET Domains
  /\ domains = {}
  /\ maps = NoMaps
  /\ served = [domains |-> {}, maps |-> NoMaps]
  /\ change = [r \in Requests |-> None]
  /\ script = [r \in Requests |-> {}]
  /\ updated = [r \in Requests |-> {}]
  /\ phase = [r \in Requests |-> "none"]
  /\ excused = {}

Destination(row) == row.boxes \cup row.forward

-----------------------------------------------------------------------------
(* What a request generates *)

\* The database as a request sees it: what is committed, and its own change.
Sees(rows) == [e \in Addresses |-> IF e \in DOMAIN rows THEN rows[e] ELSE address[e]]

\* A slip: the row that is deleted counts.
AnotherIsLast(d, rows) == ~\E e \in Addresses : DomainOf[e] = d /\ address[e] # None

IsLastDomain(d, rows) == ~\E e \in Addresses : DomainOf[e] = d /\ Sees(rows)[e] # None

\* An address of the local domain that goes to the mailbox of its name needs no line.
IsImplicit(e, row, boxes) ==
  /\ DomainOf[e] = LocalDomain
  /\ NamesakeOf[e] \in boxes
  /\ Destination(row) = {NamesakeOf[e]}

IncludeDomain(d) ==
  IF d # LocalDomain /\ d \in hosted THEN {[do |-> "include", domain |-> d]} ELSE {}

UpdateMaps(e, row, boxes) ==
  IF IsImplicit(e, row, boxes) THEN {[do |-> "unset", email |-> e]}
  ELSE {[do |-> "set", email |-> e, destination |-> Destination(row)]}

SaveAddress(e, row, boxes) == IncludeDomain(DomainOf[e]) \cup UpdateMaps(e, row, boxes)

ExcludeDomain(d, rows) == IF IsLastDomain(d, rows) THEN {[do |-> "exclude", domain |-> d]} ELSE {}

DeleteAddress(e, rows) == ExcludeDomain(DomainOf[e], rows) \cup {[do |-> "unset", email |-> e]}

\* The commands for the rows a request writes; _excluded_domains keeps a domain from
\* being deleted more than once.
Generate(rows, boxes) ==
  UNION {IF rows[e] = None THEN DeleteAddress(e, rows) ELSE SaveAddress(e, rows[e], boxes) :
           e \in DOMAIN rows}

Open(r) == phase[r] = "open"
Touches(r) == {DomainOf[e] : e \in DOMAIN change[r].rows}

\* Two requests at once about a domain execute their scripts in whatever order,
\* and none sees what the other has not committed.
Interferes(r, rows) ==
  {DomainOf[e] : e \in DOMAIN rows} \cap
    UNION {Touches(q) : q \in {x \in Requests \ {r} : phase[x] # "none"}}

\* Rows another transaction has written cannot be written.
Free(rows, boxes) ==
  \A q \in Requests : Open(q) =>
    (DOMAIN change[q].rows) \cap (DOMAIN rows) = {} /\ change[q].mailboxes = mailboxes /\ boxes = mailboxes

Requested(r, rows, boxes) ==
  /\ phase[r] = "none"
  /\ Free(rows, boxes)
  /\ change' = [change EXCEPT ![r] = [rows |-> rows, mailboxes |-> boxes]]
  /\ script' = [script EXCEPT ![r] = Generate(rows, boxes)]
  /\ phase' = [phase EXCEPT ![r] = "open"]
  /\ excused' = excused \cup Interferes(r, rows)
  /\ UNCHANGED <<db, server, updated>>

Put(e, row) == [x \in {e} |-> row]

\* An address is added or changed.  It may forward to mailboxes that exist.
PutAddress(r, e) ==
  \E row \in Rows :
    /\ Destination(row) \subseteq mailboxes /\ Destination(row) # {}
    /\ row # address[e]
    /\ Requested(r, Put(e, row), mailboxes)

RemoveAddress(r, e) ==
  /\ address[e] # None
  /\ Requested(r, Put(e, None), mailboxes)

\* create_local_address: unless there is one, the mailbox gets an address of the
\* local domain, as a forward or as one of its mailboxes, by whose account it is.
AddMailbox(r, m) ==
  /\ m \notin mailboxes
  /\ LET local == {e \in Addresses : NamesakeOf[e] = m /\ address[e] = None} IN
     \E row \in {[boxes |-> {m}, forward |-> {}], [boxes |-> {}, forward |-> {m}]} :
       Requested(r, [e \in local |-> row], mailboxes \cup {m})

\* delete_forwards: an address that forwarded to m alone is deleted; one that had
\* it among its mailboxes alone stays, and goes nowhere.
Forget(row, m) ==
  LET rest == [boxes |-> row.boxes \ {m}, forward |-> row.forward \ {m}] IN
  IF m \in row.forward /\ Destination(rest) = {} THEN None ELSE rest

RemoveMailbox(r, m) ==
  /\ m \in mailboxes
  /\ LET about == {e \in Addresses : address[e] # None /\ m \in Destination(address[e])} IN
     Requested(r, [e \in about |-> Forget(address[e], m)], mailboxes \ {m})

\* The records of a domain change: no backend of mail is told.
ChangeMX(d) ==
  /\ d # LocalDomain
  /\ hosted' = (hosted \ {d}) \cup ({d} \ hosted)
  /\ excused' = excused \cup {d}
  /\ UNCHANGED <<address, mailboxes, server, change, script, updated, phase>>

Commit(r) ==
  /\ Open(r)
  /\ address' = Sees(change[r].rows)
  /\ mailboxes' = IF change[r].mailboxes = mailboxes THEN mailboxes ELSE change[r].mailboxes
  /\ phase' = [phase EXCEPT ![r] = "executes"]
  /\ UNCHANGED <<hosted, server, change, script, updated, excused>>

-----------------------------------------------------------------------------
(* The script *)

Executes(r, c) ==
  /\ phase[r] = "executes" /\ c \in script[r]
  /\ script' = [script EXCEPT ![r] = @ \ {c}]
  /\ UNCHANGED <<db, served, change, phase>>

Sets(r, file) == updated' = [updated EXCEPT ![r] = @ \cup {file}]

\* grep, and echo >> the file.
Include(r) ==
  \E c \in script[r] :
    /\ c.do = "include" /\ Executes(r, c)
    /\ domains' = domains \cup {c.domain}
    /\ IF c.domain \in domains THEN UNCHANGED updated ELSE Sets(r, "domains")
    /\ UNCHANGED <<maps, excused>>

\* sed deletes the lines that start with the domain, also those that go on.
Exclude(r) ==
  \E c \in script[r] :
    /\ c.do = "exclude" /\ Executes(r, c)
    /\ LET d == c.domain
           gone == IF d \in domains THEN {d} \cup Extends[d] ELSE {} IN
       /\ domains' = domains \ gone
       /\ IF d \in domains THEN Sets(r, "domains") ELSE UNCHANGED updated
       /\ excused' = excused \cup (gone \ {d})
    /\ UNCHANGED maps

SetLine(r) ==
  \E c \in script[r] :
    /\ c.do = "set" /\ Executes(r, c)
    /\ maps' = [maps EXCEPT ![c.email] = c.destination]
    /\ IF maps[c.email] = c.destination THEN UNCHANGED updated ELSE Sets(r, "maps")
    /\ UNCHANGED <<domains, excused>>

UnsetLine(r) ==
  \E c \in script[r] :
    /\ c.do = "unset" /\ Executes(r, c)
    /\ maps' = [maps EXCEPT ![c.email] = None]
    /\ IF maps[c.email] = None THEN UNCHANGED updated ELSE Sets(r, "maps")
    /\ UNCHANGED <<domains, excused>>

\* commit(): reload, and postmap.
Reload(r) ==
  /\ phase[r] = "executes" /\ script[r] = {}
  /\ served' = [domains |-> IF "domains" \in updated[r] THEN domains ELSE served.domains,
                maps |-> IF "maps" \in updated[r] THEN maps ELSE served.maps]
  /\ phase' = [phase EXCEPT ![r] = "none"]
  /\ updated' = [updated EXCEPT ![r] = {}]
  /\ change' = [change EXCEPT ![r] = None]
  /\ UNCHANGED <<db, domains, maps, script, excused>>

Next ==
  \/ \E r \in Requests :
       \/ \E e \in Addresses : PutAddress(r, e) \/ RemoveAddress(r, e)
       \/ \E m \in Mailboxes : AddMailbox(r, m) \/ RemoveMailbox(r, m)
       \/ Commit(r) \/ Include(r) \/ Exclude(r) \/ SetLine(r) \/ UnsetLine(r) \/ Reload(r)
  \/ \E d \in Domains : ChangeMX(d)

Spec == Init /\ [][Next]_vars

-----------------------------------------------------------------------------
(* Properties *)

Quiet == \A r \in Requests : phase[r] = "none"

\* Once nothing is under way Postfix takes mail for the domains that have
\* addresses, and for no other: the query for the last address is made within the
\* transaction that deletes it.
MailIsTaken ==
  Quiet => \A d \in Domains \ (excused \cup {LocalDomain}) :
             d \in served.domains <=>
               d \in hosted /\ \E e \in Addresses : DomainOf[e] = d /\ address[e] # None

\* Where mail for e goes: to what its line says, or to the mailbox of its name.
Delivers(e) ==
  IF served.maps[e] # None THEN served.maps[e]
  ELSE {m \in mailboxes : DomainOf[e] = LocalDomain /\ m = NamesakeOf[e]}

\* The mail of an address goes to its mailboxes and forwards, though lines are left
\* out when they say nothing and mailboxes are deleted after lines were written.
MailGoesWhereAsked ==
  Quiet => \A e \in Addresses : DomainOf[e] \notin excused =>
             IF address[e] = None THEN served.maps[e] = None
             ELSE Delivers(e) = Destination(address[e])
=============================================================================
