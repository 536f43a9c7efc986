-------------------------------- MODULE Hosting --------------------------------
(***************************************************************************)
(* The services of a hosting, side by side, and what is asked of each: the *)
(* servers end as the database says.  They share no state.  Traffic that   *)
(* is counted, metrics and orders that are charged and the wizard of       *)
(* billing are here too, as what customers pay for.                        *)
(***************************************************************************)

CONSTANTS
  None, Requests,
  \* WebServer
  Scripts, BackendOf, Contents, MaxTries, MaxDeaths,
  \* MailAddresses
  Addresses, MailDomains, LocalDomain, DomainOf, Mailboxes, NamesakeOf, Extends,
  \* SystemUsers
  UnixUsers, Main, Away,
  \* Databases
  DatabaseNames, DatabaseUsers,
  \* DomainZones
  DomainNames, Ancestors, Versions, MaxZoneDay, MaxNumber,
  \* TrafficMonitor
  Objects, Monitorings, Asked, MaxTime, Day, Month, Old, MaxRows,
  \* OrderMetrics
  Billings, Values, Error, Period, Cuts, Delta, MaxDay, MaxOrders, MaxSaves, MaxBills,
  \* BillingWizard
  Processes, Orders, LastDay, Options, Ahead,
  \* OrderPricing
  Concurrent, LastPriced, RegisterDays, Points, Methods, Tariffs, UnitCosts, Nominal

VARIABLES
  file, locked, pc, apache, tries, others, disk, loaded, accidents,
  address, mailboxes, hosted, domains, maps, postfix, mailChange, mailScript, postfixUpdated,
  mailPhase, excused,
  active, account, homes, login, reach, userPhase, writes, userScript, userOverlaps, skipped,
  databases, permision, created, there, table, granted, dbPhase, dbScript, dbUserScript, dbExcused,
  zoneToday, records, tops, serial, conf, zones, served, slave, copies, zonePhase, zoneChange,
  masterToDo, slaveToDo, deleted, zoneOverlaps,
  now, logs, data, lock, monitorPhase, window, output, counted, edges, moved, overlaps,
  today, style, orders, saves, bills, found, bill, reported, measured, paid, strays, twice, spent,
  process, wizard, page, request, lastBilled, invoiced, mixed, raced,
  billDay, rating, tariff, registered, cancelled, billedUntil, excess, repriced

Web == INSTANCE WebServer WITH updated <- apache

Mail == INSTANCE MailAddresses WITH
  Domains <- MailDomains,
  served <- postfix, change <- mailChange, script <- mailScript, updated <- postfixUpdated,
  phase <- mailPhase

Unix == INSTANCE SystemUsers WITH
  Users <- UnixUsers, phase <- userPhase, script <- userScript, overlaps <- userOverlaps

MySQL == INSTANCE Databases WITH
  Names <- DatabaseNames, Users <- DatabaseUsers,
  phase <- dbPhase, userScript <- dbUserScript, excused <- dbExcused

Names == INSTANCE DomainZones WITH
  Domains <- DomainNames, MaxDay <- MaxZoneDay,
  today <- zoneToday, top <- tops, phase <- zonePhase, change <- zoneChange, overlaps <- zoneOverlaps

Traffic == INSTANCE TrafficMonitor WITH phase <- monitorPhase

Metrics == INSTANCE OrderMetrics

Billing == INSTANCE BillingWizard WITH Users <- Requests, billedUntil <- lastBilled

Pricing == INSTANCE OrderPricing WITH
  Orders <- Concurrent, LastDay <- LastPriced, Prices <- UnitCosts,
  today <- billDay, method <- rating

-----------------------------------------------------------------------------
(* Properties: each is about its component. *)

\* Apache serves what was configured once no script is at work.
ServedAsConfigured == Web!ServedAsConfigured

\* Postfix takes the mail of the domains that have addresses, and delivers it to
\* what the addresses ask for.
MailArrives == Mail!MailIsTaken /\ Mail!MailGoesWhereAsked

\* Who may log in is who is active, and the main user reaches the files of all.
UsersAgree == Unix!LoginsAgree /\ Unix!MainReachesAll

\* A user of MySQL has the privileges on a database the panel says.
GrantsAgree == MySQL!GrantsAgree

\* The master serves the records of all domains, and a slave that needs no transfer
\* serves the same.
ZonesAgree == Names!MasterServesAll /\ Names!SlavesHaveIt

\* Each line of the logs that is behind is counted, and once.
CountedOnce == Traffic!CountedOnce /\ Traffic!NothingForgotten

\* Aggregation changes the traffic of no month.
SumsAreKept == Traffic!SumsAreKept

\* Lines charge what was measured; an instance has one active order, which can be
\* billed with the metrics that are kept.
ChargedAsMeasured ==
  Metrics!ChargedAsMeasured /\ Metrics!OneActiveOrder /\ Metrics!MetricsSuffice

\* What an order consumed is paid once it is billed.
ConsumptionIsPaid == Metrics!ConsumptionIsPaid

\* The wizard bills what the user confirmed, and no day again.
BilledAsConfirmed == Billing!BilledAsConfirmed /\ Billing!NoDayAgain

\* Orders that concur pay for their days what the units of these days cost.
PaidByDays == Pricing!PaidByDays
================================================================================
