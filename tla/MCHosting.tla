------------------------------- MODULE MCHosting -------------------------------
(* The components of Hosting on small constants, and the plans of accounts. *)
(* They share no state, so that a behaviour is about one of them,           *)
(* focus, and leaves the others alone.                                      *)
EXTENDS Naturals, Sequences, FiniteSets, TLC, Hosting

CONSTANTS
  \* WebServer: a script of each backend
  a1, p1, n1,
  \* MailAddresses: two addresses of a domain, and one of the local domain
  info, sales, box, example, home, mailbox,
  \* DomainZones
  top, www,
  \* BillingWizard
  worker1

VARIABLES
  focus,
  method, combinable, rates, contracts

web == <<file, locked, pc, apache, tries, others, disk, loaded, accidents>>
mail == <<address, mailboxes, hosted, domains, maps, postfix, mailChange, mailScript,
          postfixUpdated, mailPhase, excused>>
users == <<active, account, homes, login, reach, userPhase, writes, userScript, userOverlaps,
           skipped>>
mysql == <<databases, permision, created, there, table, granted, dbPhase, dbScript, dbUserScript,
           dbExcused>>
names == <<zoneToday, records, tops, serial, conf, zones, served, slave, copies, zonePhase,
           zoneChange, masterToDo, slaveToDo, deleted, zoneOverlaps>>
traffic == <<now, logs, data, lock, monitorPhase, window, output, counted, edges, moved,
             overlaps>>
pages == <<process, wizard, page, request, lastBilled, invoiced, mixed, raced>>
metrics == <<today, style, orders, saves, bills, found, bill, reported, measured, paid, strays,
             twice, spent>>
plans == <<method, combinable, rates, contracts>>
pricing == <<billDay, rating, tariff, registered, cancelled, billedUntil, excess, repriced>>

Backends == a1 :> "Apache2Controller" @@ p1 :> "PHPController" @@ n1 :> "Apache2ControllerAnubis"
DomainsOfAddresses == info :> example @@ sales :> example @@ box :> home
Namesakes == info :> None @@ sales :> None @@ box :> mailbox
NoneExtends == example :> {} @@ home :> {}
NamesAbove == top :> {} @@ www :> {top}

\* Bills of two days, and the simulation of one.
BillOrSimulation == {[until |-> 2, proforma |-> FALSE], [until |-> 1, proforma |-> TRUE]}

Contracting == INSTANCE Plans WITH
  Accounts <- {Main}, Plans <- {1, 2}, Default <- {1}, Multiple <- {2},
  Quantities <- {0, 2, 4}, Prices <- {1, 4}, MaxRates <- 4, MaxContracts <- 2,
  Units <- {0, 1, 2, 3, 5}

\* Two plans: one is cheaper from the second unit on, the other up to there.
Rate(p, q, c) == [plan |-> p, quantity |-> q, price |-> c]
TwoPlans == {<<Rate(1, 0, 4), Rate(1, 2, 1), Rate(2, 0, 2), Rate(2, 3, 5)>>}

Rated == INSTANCE Ratings WITH Combinable <- {1}
PricesOfUnits == Rated!UnitPrices(Methods, Tariffs, Cardinality(Concurrent))

\* What the proofs assume of the constants.
ASSUME HostingAssumption ==
  /\ Web!Assumption /\ Mail!Assumption /\ Unix!Assumption /\ MySQL!Assumption /\ Names!Assumption
  /\ Traffic!Assumption /\ Metrics!Assumption /\ Billing!Assumption
  /\ Pricing!Assumption

Init ==
  /\ focus \in {"web", "mail", "users", "mysql", "names", "traffic", "metrics", "plans",
               "pricing", "wizard"}
  /\ Web!Init /\ Mail!Init /\ Unix!Init /\ MySQL!Init /\ Names!Init /\ Traffic!Init /\ Metrics!Init
  /\ Contracting!Init /\ Pricing!Init /\ Billing!Init
  /\ focus # "web" => disk = [b \in Web!Backends |-> None]
  /\ focus # "mail" => hosted = {}
  /\ focus # "users" => active[Main] = TRUE
  /\ focus # "metrics" => style = "prepay"
  /\ focus # "plans" => method = "step" /\ combinable = {}
  /\ focus # "pricing" => \A o \in Concurrent : registered[o] = 0
  /\ \E r \in Requests : process[r] = worker1
  /\ focus # "wizard" => \A r \in Requests : process[r] = worker1

WebStep ==
  /\ focus = "web" /\ Web!Next
  /\ UNCHANGED <<focus, mail, users, mysql, names, traffic, metrics, plans, pricing, pages>>
MailStep ==
  /\ focus = "mail" /\ Mail!Next
  /\ UNCHANGED <<focus, web, users, mysql, names, traffic, metrics, plans, pricing, pages>>
UnixStep ==
  /\ focus = "users" /\ Unix!Next
  /\ UNCHANGED <<focus, web, mail, mysql, names, traffic, metrics, plans, pricing, pages>>
MySQLStep ==
  /\ focus = "mysql" /\ MySQL!Next
  /\ UNCHANGED <<focus, web, mail, users, names, traffic, metrics, plans, pricing, pages>>
NamesStep ==
  /\ focus = "names" /\ Names!Next
  /\ UNCHANGED <<focus, web, mail, users, mysql, traffic, metrics, plans, pricing, pages>>
TrafficStep ==
  /\ focus = "traffic" /\ Traffic!Next
  /\ UNCHANGED <<focus, web, mail, users, mysql, names, metrics, plans, pricing, pages>>
MetricsStep ==
  /\ focus = "metrics" /\ Metrics!Next
  /\ UNCHANGED <<focus, web, mail, users, mysql, names, traffic, plans, pricing, pages>>
ContractingStep ==
  /\ focus = "plans" /\ Contracting!Next
  /\ UNCHANGED <<focus, web, mail, users, mysql, names, traffic, metrics, pricing, pages>>
PricingStep ==
  /\ focus = "pricing" /\ Pricing!Next
  /\ UNCHANGED <<focus, web, mail, users, mysql, names, traffic, metrics, plans, pages>>
WizardStep ==
  /\ focus = "wizard" /\ Billing!Next
  /\ UNCHANGED <<focus, web, mail, users, mysql, names, traffic, metrics, plans, pricing>>

Next ==
  \/ WebStep \/ MailStep \/ UnixStep \/ MySQLStep \/ NamesStep
  \/ TrafficStep \/ MetricsStep \/ ContractingStep \/ PricingStep \/ WizardStep

Spec == Init /\ [][Next]_<<focus, web, mail, users, mysql, names, traffic, metrics, plans, pricing, pages>>

\* What the properties excuse is not followed further, but for requests that mix in one
\* process, while the user of one of them had no page of the wizard.  Metrics change once
\* more while the instance has one order.
Calm ==
  /\ accidents = {} /\ excused = {} /\ userOverlaps = {} /\ zoneOverlaps = {} /\ overlaps = {}
  /\ ~strays /\ ~twice /\ repriced = {} /\ raced = {}
  /\ saves > 3 => Len(orders) = 1
  /\ mixed # {} => (\E r \in Requests : request[r] # None) /\ (\E r \in Requests : page[r] = None)

Symmetry == Permutations(Requests)

-----------------------------------------------------------------------------
(* Properties, besides those of Hosting. *)

\* Any number of units is priced, one by one as all together.
UnitsArePriced == focus = "plans" => Contracting!UnitsArePriced
================================================================================
