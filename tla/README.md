# Orchestra in TLA+

[Django Orchestra](../src/README.md) is the control panel of a hosting provider: people and
programs change models (accounts, mailboxes, databases, domains, orders, bills) in a database, and
the panel configures the servers accordingly and charges for the services.  This directory holds
TLA+ modules that model the parts of it where order matters, configurations that check them with
TLC, and theorems about them that TLAPS proves for every value of the constants.

* [What is here](#what-is-here)
* [The system](#the-system): its components, their state, operations and hazards
* [The modules](#the-modules): how state and actions correspond to the code
* [The runs](#the-runs): what each checks, its bounds, its fairness
* [The proofs](#the-proofs): what is proved, from which assumptions and how
* [Where code and docs disagree](#where-code-and-docs-disagree)
* [What the models show besides](#what-the-models-show-besides)
* [What is only model-checked](#what-is-only-model-checked) and
  [what is not modelled](#what-is-not-modelled)
* [The plan](#the-plan)

Paths below are relative to `src/orchestra/`; `contrib/` is left out where it is clear.

## What is here

    OrderedSet
        |
    OperationCollector ---- Services_proofs                  which operations a request has pending
    Deployment <= RequestCycle ---- RequestCycle_proofs      when they are executed
    BackendExecution ------ BackendExecution_proofs          what their logs say
    PaymentTransactions --- PaymentTransactions_proofs       how bills are charged at the bank
    BillLedger <= BillClosing ----- Accounting_proofs        how bills are numbered and closed
    OrderCompensation ----- OrderCompensation_proofs         which days lines charge and discount
    MailQueue ------------- MailQueue_proofs                 how mails are sent
    Hosting                                                  services, each by itself
      WebServer             )                                who reloads Apache
      MailAddresses         )                                the tables of Postfix
      SystemUsers           ) Services_proofs                the users of a UNIX server
      Databases             )                                the privileges of MySQL
      DomainZones           )                                zones of Bind and their slaves
      TrafficMonitor        ) Accounting_proofs              how traffic is counted and summed
      BillingWizard         )                                what users confirm and what is billed
      OrderMetrics          ) Charging_proofs                orders and the charge of their metrics
      OrderPricing          )                                the prices of orders that concur
    MCHosting = Hosting and
      Plans, Ratings                                         the rates of accounts and what they cost

`A <= B` says that B implements the abstract specification A (`INSTANCE A WITH ...`, checked as a
property and proved).  `MCx.tla` extends a module for model checking, with its `.cfg`.  PROJECT.json
lists the runs with their properties, the lines of the source behind every definition, the hazards
with the properties that cover them, the theorems, the findings, and for each property a slip (an
operator under the comment "A slip: ...", which no action uses) that breaks it.

Run `tlc -config MCx.cfg MCx` for a run and `tlapm X_proofs.tla` for a proof.

## The system

### Orchestration (`orchestration/`)

*State.*  The pending operations of a request, an ordered set of (backend, instance, action) that
carry a copy of the instance; the transaction of the request; generated scripts; one thread and one
`BackendLog` per script; the configuration of the servers.

*Operations.*  Signals of every model reach `OperationsMiddleware.collect`, which feeds
`manager.collect`; when the response is ready `process_response` generates the scripts, commits and
has `manager.execute` run them, in threads or one after the other; `ServiceBackend.execute` runs the
groups of commands of a script by OpenSSH, Paramiko or Python, and `keep_log` stores what happened.

*What is hard.*  The order of the signals of a cascade; requests that save the same rows at once and
deploy them after their locks are gone; exceptions, commits that fail and processes that die between
the database and the servers, which share no transaction; threads that change the object another
thread reads.

*What makes it correct.*  All that changed is pending and nothing that was deleted is recreated;
scripts carry committed states only; whatever is committed is executed and logged; a server is taken
back to an older state by no script but one that a later commit overtook; a log says what happened.

### How the components interact

A service saved in a request touches most of the panel: its signals are collected by
orchestration, update its order, and its account; the commit of the request makes all of it
visible at once, and the scripts follow.  Monitors run as tasks, execute through orchestration and
store what they measure, which becomes the metric of orders.  Billing turns orders into lines of
open bills and moves the dates of the orders in the same transaction; closing a bill creates a
transaction of payments; both send mails through the queue.  What they share is the database, at
the isolation level READ COMMITTED, one transaction for each request; no view takes a lock on what
it reads.  Threads of a process share its connections, its module globals and the objects of its
admin classes.

### Bills and payments (`bills/`, `payments/`)

*State.*  A bill with its lines, which is open or closed, its number and its transactions; each
transaction has a state, a bill, and maybe a process, that holds the files sent to the bank.

*Operations.*  `Bill.close`, `get_number`, `send`; the change views; actions over selections of
transactions and processes: process, mark as executed, secured or rejected, abort, commit, delete,
reissue.  `orders/billing.py` adds lines to the open bill of an account.

*What is hard.*  No view locks or reads again what it read: the page of a user shows a state that
others leave behind, and `save()` writes all columns back.  Numbers are computed from those given.
Actions on lists and on processes check less than those on pages.

*What makes it correct.*  A bill is closed once, with the next number, and charged its total, and
what is closed stays so, unless a request writes it on what it read before another wrote; nothing is
added to what charges a bill in full; secured and rejected are final; the files are what the panel
says they are.

### Orders and services (`orders/`, `services/`, `plans/`)

*State.*  An order runs from the day it was registered to the day it was cancelled and is billed
until some day; metrics have a history; services say how they are billed and priced, plans give
rates.

*Operations.*  Orders are created, updated and cancelled by the signals of the services
(`update_by_instance`).  `ServiceHandler.generate_bill_lines` finds what to bill until when, assigns
the days that cancelled orders have paid to others (compensations), cuts the rest in periods,
prices and discounts them; `commit` moves the dates of the orders.  A wizard of three pages drives
it: options, related orders, confirmation.

*What is hard.*  Long sequences of registrations, billings and cancellations; intervals, fixed
dates, months of different lengths; a day must not be charged twice nor be given twice; concurrent
billings and updates.

*What makes it correct.*  Every day of an order is charged once and none after its cancellation;
credits are of days that were paid, are taken from who gave them, and are used once; prices follow
the number of orders there really were, day by day; whatever the rates and contracts of an account,
the steps of a rating add up to the units that are priced.

### Mailer (`mailer/`, `LockFile` of `utils/sys.py`)

*State.*  A queue of messages with a state and a number of retries; a lock that is a file; what each
sender has read of the queue, and its connection.

*Operations.*  The e-mail backend of Django writes messages, and a thread sends the critical ones
at once; cron runs `bin/orchestra-beat` every minute, which starts `send_pending` when a message is
due, in a process of its own and under a lock: queued messages first, then the deferred whose
delay is over; `cleanup_messages` deletes the old ones.

*What is hard.*  Deliveries and their record share no transaction; the lock expires and is removed
by whoever ends; rows are saved from copies; some errors of SMTP are caught, others end everything.

*What makes it correct.*  What is recorded as sent was delivered once and nothing sent is queued
again, but for a message that two senders had, after the lock was overrun; all that is queued is sent
or given up.

### Hosting (`websites/`, `webapps/`, `mailboxes/`, `systemusers/`, `accounts/`, `databases/`, `domains/`)

*State.*  Rows of the services, and what their scripts leave on the servers: files that several
backends share (`reload.apache2`, the tables of Postfix, `named.conf.local`), users and groups,
databases and the privileges MySQL has in tables and in memory, zones and the copies of slaves.

*Operations.*  Saves and deletes, of services and of what they relate to (signals of mailboxes,
`notify_related` of accounts, domains that become tops); the scripts of `save()`, `delete()` and
`commit()`, that test and change the server.

*What is hard.*  Scripts are generated before the commit and executed after it, at the same time
as others; they look at the server they find; under `set -e` one command that fails ends the
script, and what it was to do for other instances with it; an `exit 0` does so as a success.

*What makes it correct.*  Once nothing is under way, the server is as the rows say.

### Resources (`resources/`)

*State.*  `MonitorData` by object, the lock of the task `monitor`, logs of the servers.

*Operations.*  `monitor`, periodic or asked for an object; scripts that count the lines of logs
between two dates; sums of a month; `cleanup_old_monitors`.

*What is hard.*  Windows begin where the last data of each object says; monitors fail in the middle
of their output, overlap, and logs rotate; old rows become their sum.

*What makes it correct.*  Each line is counted once, but for those that rotate while they are read
and the objects two monitorings work on at once; and sums are kept.

### The rest

| Component | State and operations | What is hard | What would make it correct |
|---|---|---|---|
| `orchestrate()`, the `orchestrate` command (`orchestration/managers.py`) | operations in the locals of a thread, restored on exit | nesting, exceptions, threads without locals | scripts of a block run once, and those of an outer block in it |
| `clone` of connections (`utils/db.py`) | the connections of the process | two threads that clone at once | each thread gets its own back |
| `runiterator` (`utils/sys.py`) | pipes read until the process ends | output that arrives with the exit | no output is lost |
| Tasks (`tasks/`) | the state of a task, a schedule of beats | states saved by threads that fail | a task that ended says so |
| Lists, SaaS, VPS, miscellaneous, certificates, contacts, history, issues, settings, panel, API, installation | models, forms, views, shell scripts | they share orchestration; scripts are text | — |

## The modules

### OrderedSet, OperationCollector: what is pending

`OrderedSet` models `utils/python.py` as a set of keys with a strict total order over them, so that
theorems about it need no sequences; `Add` keeps the place of a key that is there, `MoveToEnd` is a
discard and an add, of several keys in some order when they come from a Python set.

`OperationCollector` follows one backend: collect() treats backends one by one and their
operations never meet.  `operations` is `request.pending_operations`.  *Mains* are instances of
its model, *relateds* those of its related models: FKs reach their main by an attribute that
Django caches, M2Ms a set of mains by a manager that asks the database.  What a copy of an
instance holds is abstracted to whether it is the last state saved (`latest`).  One action for
every signal the middleware and the receivers listen to: `SaveMain` (with the early return for
ignored fields), `DeleteMain`, `SaveRelated`, `CreateFK`, `DeleteRelated`, `AddLinks`
(`m2m_changed`, `post_add`), and `RemoveLinks`, which nothing listens to.  Every action does all
that `collect()` does: `Candidates` leaves out the mains with a pending delete, `ScheduleSaves`
and `ScheduleDelete` are the two branches.  Routes are a constant, as they do not change in a
request.

### Deployment, RequestCycle: when it is executed

`Deployment` promises: a transaction commits newer states of some instances and adds them to what is
to do; each is applied to its server, or given up, once; nothing else reaches a server.

`RequestCycle` is the middleware.  A worker goes through `ProcessRequest`, `SaveObject` (a row other
transactions wrote is waited for, as PostgreSQL does), `ViewReturns` or `ProcessException` (which
rolls back and leaves the operations pending, the status deciding later), and one of
`ProcessResponseIdle`, `ProcessResponseFails`, `ProcessResponse`; then `manager.execute` with one
`Launch` per script, `ScriptEnds`, and `SendResponse` when the synchronous threads are joined.
`Crash` ends a process anywhere.  States of instances are versions, fresh at each save.  What is in
execution when a newer version of the same instance is committed goes to the history `overtaken`:
its script may end after the one of the newer version.  A 500 is Django's answer to an exception: no
view of the panel returns one by itself.  `ORCHESTRATION_DISABLE_EXECUTION`, a setting of
installations that execute nothing, is left out.
`writes` and `pending` are kept apart because the code does: what makes them agree is part of the
invariant.  Which operations are pending for a save is `OperationCollector`'s matter, what happens
in a script `BackendExecution`'s.

### BackendExecution: what the log says

For each log its thread (`StartGroup`, `PrepareRaises`, `GroupEnds`, `SaveLog`, `ExecuteReturns`,
`KeepLog`) and the request that reads it (`Look`, `LookAgain`).  `state` is the attribute of the
object both share, `row` what is saved, since the loop of `execute()` asks one and `get_messages`
the other.  `GroupLists` are the contents a backend can have: one group per method, of which there
are two.  Outputs and exit codes are abstracted to the state they give the log (`Outcomes`).

### PaymentTransactions: charging at the bank

A user opens a page (`Select`, `SelectProcess`, `AddIsValid`) and confirms it later (`Mark`,
`Process`, `ExecuteProcess`, `AbortProcess`, `CommitProcess`, `DeleteProcess`, `AddIsSaved`); what
others did in between is seen only where the code reads again.  Transactions come from `CloseBill`,
which charges the whole bill and does not look at what charges it already, and from users, who add
one of any amount (`Amounts`) to a bill, open or closed: `Transaction.clean` refuses it when the
valid ones cover the total (`Covered`).  The lines of an open bill may add up to anything, so that
there the form may be accepted or not.  `Offered` is `get_change_view_actions`; `Bulk` lets actions
be used from lists, where selections are not checked.  Files are abstracted to the transactions in
them: what the methods write in a file is left out, and kept which transactions it is of.  Two actions
model requests that fail whole: `CommitProcess`, whose action calls a method processes do not have,
and `DeleteProcessFails`.  The page of a transaction also lets its amount be edited: that is left out.

### BillLedger, BillClosing: closing bills

`BillLedger` is the promise: a bill is closed in one step, with the next number of a year and one
charge of what its lines add up to, and never changes after.  Of a bill that a request wrote on reads
that did not hold any more (`Disturb`) it promises less: no other bill suffers, no transaction is
taken back, and if the bill loses its number, that number is the only hole.

`BillClosing` is what requests do, any of them at any bill: read it (`StartClose`, `StartEdit`,
`StartBilling`), get a number (`GetNumber`), save all columns and the transaction with one commit
(`SaveClosed`, or `NumberIsTaken` when the unique number is another's by then), mail it
(`MailClosed`), save an edition (`SaveEdit`), add lines (`AddLines`).  A closing holds an instance
that is open, a draft, and has the total of its lines as its form computed it (`Computed`); a change
view holds the columns it read (`Read`).  The histories say what became of it: `shared` are the bills
at which two requests were at once; `spoilt` those of which a request wrote what did not hold any
more, closing again what another closed, opening again what was closed, or adding lines to it;
`lost` the numbers that such writes replaced; `drafts` the bills of which a draft was sent.  `Mails`
are the ways in which bills are closed: only, or with "close, send and download" in a list or on the
page of a bill.  `NextNumber` is computed in the order of text, as `get_number` does: past `Limit`,
the last number with `BILLS_NUMBER_LENGTH` digits, it stops moving.

### OrderCompensation: which days are charged

The orders of an account for one prepaid service with compensation, at its nominal price, until a
fixed point.  Dates are numbers; lines are the days they charge (`charged`) and discount
(`credited`).  `StartBilling` chooses orders and givers as `bill_with_orders` and the querysets of
orders do, `NextReceiver`, `ApplyCompensation` and `ReceiverIsDone` are the loops of
`assign_compensations` and `helpers.compensate`, `FinishBilling` the lines of
`generate_bill_lines` and the dates that a commit saves.  `Minus`, `Meet`, `Leftover` are
`Interval` arithmetic and `apply_compensation`, which remembers of a credit what *each* piece of
an order leaves of it: a bag. `IsFirst` lets the sort leave any order of a cycle first, as the
comparison of orders has cycles.

### MailQueue: how mails are sent

`send_pending` is a process that goes through `Acquire` (looks at the lock), `Touch` (creates it
and reads the queue), `Pick` (the next copy by priority, with what `send_message` saves first),
`Retry` (the query of deferred messages) and `Release`, or `SenderRaises` when an exception ends
it. `send_message` is `Open`, `Deliver`, `Refuse`, `Sent` and `Defer`, of a sender or of the
thread of a critical message (`SendAtOnce`, `ThreadRaises`).  `copies` are what a process read, as
the code saves columns of them.  `Crash` leaves the file of the lock.  Time is in what is over:
`DelayPasses`, `LockExpires`.  The lock may expire while a sender is at work, and two may look at it
before either touches it: `overrun` says that it happened, `beside` counts the senders that then
started beside another, and `doubled` are the messages that one read while another had them.
`Scenes` are the messages and senders that are explored together.  A thread has its own connection,
which goes with it: two messages of one request share one in the code.

### Hosting, MCHosting: the services, one at a time

The components below share no state, as they are about different servers and tables.  `Hosting`
has instances of nine of them, with their properties, for the proofs; `MCHosting` extends it with
`Plans` and explores each (`focus`) while the others stay at a fixed
initial state: one run holds ten state spaces, side by side and not multiplied.  Each component has
an operator `Assumption` about its constants, which the theorems assume and `HostingAssumption` has
TLC evaluate.  Each module says in history variables what
its properties excuse (`accidents`, `excused`, `overlaps`, `skipped`, `deleted`, `strays`, `twice`,
`spent`, `repriced`, `mixed`, `raced`).
The constraint `Calm` does not follow a behaviour further than an accident, an overlap or an excuse
of a whole domain, as the properties say little of it after; what is excused of single users,
databases, zones and orders (`skipped`, `dbExcused`, `deleted`, `spent`) is followed, and so are the
first mix-ups of the wizard of billing (`mixed`).  It also ends an instance with two orders after
three saves, and lets one with a single order be saved a fourth time.

*WebServer.*  `coordinate_apache_reload`, the end of the scripts of Apache, PHP and Anubis,
command by command: `Prepare` writes the line, `SaveSite`, `DeleteSite`, `SaveFirewalled`,
`SaveOptions` change the configuration, `Take` moves the file away (the lock), `Wait` sleeps and
`GiveUp` ends after `MaxTries`, `Look` asks who else is there, `Reload`, `Unlock`, `WriteBack`,
`Mark`, `PutBack` end it. The script of Anubis writes the file back whether or not it changed
(`Overwrites`).  What undoes the protocol is in `accidents`.

*MailAddresses.*  Rows of addresses and mailboxes; `AddMailbox` and `RemoveMailbox` do what the
signals do to addresses in the same transaction; `Generate` makes the commands, with the query
`is_last_domain` made within it; `Include`, `Exclude`, `SetLine`, `UnsetLine` are one test and
change of a file each, `Reload` ends the script.  The commands of a script are about different
lines, so that a script is a set of them, executed in any order, the order of the code among them.
`Delivers` is Postfix.

*SystemUsers.*  An account, its main user and others; `SwitchAccount` is `disable` and `enable` with
`notify_related`; a script has a command per user, each of which may fail: `HomeIsMissing` (exit 0),
`GroupIsMissing`, `NothingToDelete`.

*Databases.*  Two scripts per request, executed by two threads: databases (`Reset`, `Grant`, `Drop`,
`Revoke`, `DbFlush`) and users (`CreateUser`, `DropUser`, `UserFlush`).  `table` is what MySQL has
stored, `granted` what it obeys.  The sleep of 1.5 seconds is left to chance: `GrantTooEarly`.

*DomainZones.*  `Create`, `ChangeRecords` and `Delete` with `refresh_serial`, `get_parent` and the
subdomains a new top domain takes.  Names are a forest, of which a domain has the set of those it may
be below (`Ancestors`).  Whatever rows a request writes, the script it leaves to each server is about
one zone: `masterToDo` and `slaveToDo` are the requests whose script is to come, `MasterSave`,
`MasterDelete`, `SlaveRuns` and `Restart` the scripts; `Transfer` is what Bind does when a serial grows.  A zone is the version of the records
of each domain in it.

*TrafficMonitor.*  `Monitor` and `MonitorObject` begin, under the lock, which may expire at any time,
or without it; `Reads` opens the log and `Execute` its rotation, and add up the lines inside the
window of each object: those that are rotated in between (`moved`) are found in both (`again`), and
count twice; `Store` saves what was printed, one object
after the other, `StoreRaises` and `Crash` in the middle; `Cleanup` is `monthly_sum_old_values`.  Rows that are
deleted keep their place (`there`), as identifiers are not used again.

*OrderMetrics.*  `Save` and `Commits` are a request that saves the instance: it reads the active
orders, then creates one, stores a metric (`Store`: too small a change is not kept, that of the
same day is overwritten), or cancels.  The metrics of an order are a set of rows, which their days
order, as no two are created on one day.  `Bill` and `CommitBill` are a billing:
`get_billing_point`, in which an order takes the point that was cached by those before it, thus
the first day at which one of them or itself was cancelled; `Recharge` for what was paid in
advance, `Charge` for what is due, `get_metric` in all of its branches, those that raise included
(`ChargeRaises`).  Pieces of a metric are a set too: what is left of a discount when the loop comes
to a piece is what those that end before it leave (`Left`).  `Cleanup` deletes old metrics.
`spent` notes the orders that were recharged for a peak while their metric is already below the one
they paid in advance.

*Ratings* has no state: `step_price` (with `ComputeSteps` and `Merge`), `match_price` and
`best_price` are functions of the rates and of the units, loop by loop as in `plans/ratings.py`,
and `AccumulatedPrice` and `PositionPrice` are the two ways of `Service.get_price`.  `Merge` is
RECURSIVE: its loop ends when the units are reached, and no theorem is stated over it.

*Plans.*  `AddRate`, `DeleteRate`, `Contract` and `Leave` are the pages of the panel; `by_account`
are the rates an account gets, one for each row of the join with the contracts (`Copies`).

*OrderPricing.*  `Bill` is `bill_with_orders` of a service with rates and no pricing period: the
orders that are billed and those that count with them, in the order of a comparison that may have
cycles (`Sorted`), the chunks (`Split` by each order in turn, which is what the recursion of
`get_chunks` does), a price for the position of each order in each chunk, and a line that is never
above the nominal price.  `excess` is what it charges beyond the same computed day by day.  The
prices of units are a constant (`Prices`), which `MCHosting` computes by `Ratings`.

*BillingWizard.*  `page` is what the browser of a user shows and `FromPage` what it sends: the
hidden fields of the template.  `wizard` is the one `BillSelectedOrders` of each process: `Call`
sets `queryset`, `context` and `options`, `AskOptions`, `AskRelated`, `Preview` and `Confirm` read
them, `Leave` deletes them and commits; a request in a thread of the same process that finds them
deleted ends with AttributeError (`Missing`).  `setupnginx` configures workers without threads,
where users share a process (`process`) but never at once; the development server has threads.
What `create_bills` writes are the days that are `invoiced`.

## The runs

| Run | What it asks | Bounds, and why they are enough |
|---|---|---|
| `collector` | all orders of signals of one request | 3 mains (one without routes), 2 FKs, 1 M2M: the signals of a cascade involve one main and what relates to it; the second and third main give order to compare and a route to miss; 18,608 states |
| `request_cycle` | safety with crashes and threads, that servers go back only as said, that all that is committed is executed, and that the cycle implements `Deployment` | 2 workers, 2 instances whose routes are asynchronous, one with a backend that serializes and runs in line because of it; 2 saves of each: two requests on the same row commit in one order and run their scripts in the other, or meet on rows of both kinds; 192,978 states |
| `execution` | what logs and messages say | 2 logs with any of the contents, joined: logs only meet in the messages, where one looked at while another is pending matters; 11,892 states |
| `payments_lists` | files and processes agree whatever actions are used on whatever selection | 1 user, 3 transactions of 2 bills (one is a credit), 2 processes: a selection gets two processes when it has both kinds; 1.5 million states |
| `payments_pages` | nothing joins what covers a closed bill, no revival, nothing charged unsent, when only pages of single objects are used | a bill of 2, with transactions of 1 (a part), 2 (all of it) and -2 (a refund), before and after it is closed; 3 transactions of 2 bills, 2 processes; without `process_execute`, which revives; 310,457 states |
| `bill_closing` | numbers, charges, and that closing implements `BillLedger`, whoever is at a bill at once | 2 bills, 2 users, 2 years, 2 numbers before digits run out, totals 0 and 1, at most 2 transactions of a bill: two requests meet at one bill, which is closed twice, opened again or gets lines, or at two, which collide on a number, over the end of the year and of the digits; 2.35 million states |
| `draft_sent` | *violation*: "close, send and download" from the page of a bill sends the draft | 1 bill, 1 user |
| `order_compensation` | each day charged once, compensated once; credits real and gone when given | 3 orders (two givers and a receiver, or the other way) over 4 days, registered on the first two, billed until any: pieces before, between and after credits; 1.9 million states |
| `credit_used_twice` | *violation*: a day of credit is discounted twice | 4 orders: two givers and two receivers are needed |
| `mail_queue` | deliveries are recorded, sent is final, only overruns of the lock double a message, the queue drains | `Scenes`: two senders at a message of the queue or at a critical one, and one sender at both; one delay, connections closed after each message, one death, one start beside a sender at work, any of the addresses that cannot be encoded: a sender that takes over from a dead one, or from one whose lock expired, waits for the lock of another, and a thread between them; 976,257 states |
| `hosting` | each service, and what it leaves on servers or in bills, one at a time | see below; 2.25 million states |
| `metric_recharged` | *violation*: what was recharged is recharged again | 1 order over a period of four days, 3 saves, 3 billings |

The parts of `hosting`:

| Part | Properties | Bounds |
|---|---|---|
| web | `ServedAsConfigured` | a script of each of the three backends, 2 sleeps (5 in the code), one death; 108,000 states |
| mail | `MailArrives` | two addresses of a domain, so that one can be the last, and one named as a mailbox of the local domain; 2 requests that overlap, again and again; 180,000 |
| users | `UsersAgree` | the main user, one with its home inside that of the main one, and another; 181,000 |
| mysql | `GrantsAgree` | one database and two users, that share it or not; 211,000 |
| names | `ZonesAgree` | a domain and its subdomain, 2 versions of records, 2 days with 4 serials (100 in the code): the numbers of a day run out; 268,000 |
| traffic | `CountedOnce`, `SumsAreKept` | an object, a periodic and an asked monitoring, 5 instants in 3 months, 3 rows: scripts overlap by request or as the lock expires, and logs rotate between their two reads; 380,426. With two objects, of which a monitoring that fails in the middle stores one, the run is too long: `TrafficIsCountedOnce` is of any number of them |
| metrics | `ChargedAsMeasured` (with `OneActiveOrder`, `MetricsSuffice`), `ConsumptionIsPaid` | 4 days in periods of 3, values that differ by less and by more than the error of 1; 2 orders and 3 saves, or one order and 4, and 3 billings, in 2 requests of each kind: a peak is recharged, a metric falls within a period that was paid, a second order follows a cancelled one; 496,000 |
| plans | `UnitsArePriced` (`AllUnitsArePriced`, `PositionsAddUp`, `FollowsTheRates`, no plan that is not combined is dearer than alone) | up to 4 rates of 2 plans (a default one and one that can be contracted twice, combinable or not), from units 0, 2 and 4 on, at a price above and one below the nominal; 0 to 5 units: steps that are cut, merged, repeated, completed; 34,000 |
| pricing | `PaidByDays` | 3 orders over 4 days, two plans, one cheap for the first unit and one from the second on: orders that begin and end within the period of others; 39,000 |
| wizard | `BilledAsConfirmed`, with `NoDayAgain` | 2 users in one process or in two, 2 orders, a bill of two days or a pro forma of one: pages grow stale while another bills, related orders are picked, requests mix; 352,000 |

*Counters that are bounded:* `MaxVersion` (saves of an instance), `MaxYear`, `MaxTotal`,
`MaxCharges`, `LastDay`, `MaxCrashes`, `MaxBeside`, `MaxTries`, `MaxDeaths`, `MaxDay`, `MaxNumber`,
`MaxTime`, `MaxRows`, `MaxOrders`, `MaxSaves`, `MaxBills`, `MaxRates`, `MaxContracts`.  They appear in
guards or domains, and no theorem depends on their values.

*Deadlock.*  `CHECK_DEADLOCK FALSE` is there where the system may stop because all is done
(`execution`: all logs told) or because a bound is reached (the last day; on the pages of payments,
all transactions and processes used up; all scripts of the web ended).  The other runs always have a
next step, and are checked.

*Symmetry* is over transactions and processes, bills and users, and the requests of
`hosting`, for runs without liveness only.  Instances are not symmetric (some are asynchronous)
nor are orders (they are compared by identifier).

*Fairness.*  `request_cycle` is under weak fairness of `Launch`, the loop of `execute()` in a
running thread, and of the end of the script of each instance.  `execution` is under weak fairness
of each thread and of the request.  Threads are scheduled by the operating system; a connection
that dies is ended by `ServerAliveInterval` (`utils/sys.py`), and that a remote script ends is
assumed: the code puts no limit on it.  `mail_queue` is under weak fairness of each sender, as
cron starts `send_pending` again and again (`bin/orchestra-beat`, and a start with nothing due
changes nothing), of each thread, and of the passing of delays and of the lock.  Nothing is
assumed of users, views, crashes, the server of mails or the outcome of scripts.

## The proofs

No theorem bounds the number of instances, workers, logs, bills, users, orders, days, messages or
senders, but for the assumptions listed here, which are in the statement of the theorem; the
assumptions on constants are the `ASSUME`s of the modules.

| Module | Theorems | Assuming | Along |
|---|---|---|---|
| `Services_proofs` | `TypeCorrect`, `NeverSavesDeleted`, `AllChangesCollected`, `SavesAreLastState` (of `OperationCollector`) | `~StaleReads` in the last only | `CollectorInv` |
| | `PrivilegesAgreeWithRows`, `LoginsAgreeWithRows`, `ApacheServesWhatIsConfigured`, `ZonesAgreeWithRows`, `MailArrivesWhereAsked` | the `Assumption` of the component | `GrantsInv`, `UsersInv`, `WebInv`, `ZonesInv`, `MailInv` |
| `Accounting_proofs` | `BillsInvariant`, `EachChargedItsTotal`, `SpoiltByOverlapOnly`, `NumbersHaveNoHoles`, `ClosedStaysAsItIs`, `ImplementsLedger` | — | `BillsInv` |
| | `WizardBillsAsConfirmed`, `TrafficIsCountedOnce`, `UsageIsKept` | the `Assumption` of the component | `WizardInv`, `TrafficInv`, `ValuesAreNatural` |
| `Charging_proofs` | `MetricsAreKept`, `MetricsAreMeasured`, `MetricsAreCharged` | the `Assumption` of the component; `Period <= Delta + 2` in the last | `MetricsInv` |
| | `MetricsArePaid` | the `Assumption` of the component | `MetricsInv` and `PaidInv` |
| | `OrdersPayByDays` | the `Assumption` of the component | `PricingInv` |
| `RequestCycle_proofs` | `TypeCorrect`, `CycleInvariant`, `ExecutedWasCommitted`, `NoCommitForgotten`, `CycleKeepsPromise`, `SerializedAreAlone`, `ServersOnlyAdvance` | `HandledErrors = FALSE` but for types and `SerializedAreAlone` | `CycleInv`, `AloneInv`, `UpToDateInv` |
| `BackendExecution_proofs` | `TypeCorrect`, `ExecutionInvariant`, `SuccessIsEarned`, `StopsAtFailure`, `ToldOfRealErrors` | `ForcedEmpty = {}` but for types, `Joined` in the last | `ExecutionInv`, `ToldInv` |
| `PaymentTransactions_proofs` | `TypeCorrect`, `FilesOfOneUser`, `SentForAnyUsers`, `CoveredGetsNoMore`, `RejectedForGood` | one user for the second, `Bulk = FALSE` for the third, both and no `process_execute` for the last two (`OnPages`) | `FilesInv`, `SentInv`, `ChargedInv` |
| `OrderCompensation_proofs` | `BillingInvariant`, `TypeCorrect`, `EachDayBilledOnce`, `EachDayCompensatedOnce`, `CreditsWerePaid`, `GivenDaysAreGone`, `CreditsStayReal`, `NothingAfterCancellation` | — | `TypeOK /\ BillingInv` |
| `MailQueue_proofs` | `TypeCorrect`, `QueueInvariant`, `RecordsAreTrue`, `DoubledByOverrunOnly`, `StrandedByAccidentOnly`, `SentStaysSent` | — | `QueueInv`, with `Twice` and `LastTries` |

Why the invariants are what they are:

* **CollectorInv.**  That saves of deleted instances are never pending needs that every main a
  related instance still reaches in memory, and whose row is gone, has its delete pending if it has
  a route; that no change is lost needs that a related instance whose links are removed was saved
  before, when its mains were collected.  The lemmas at the head of the section show that adding,
  discarding and moving leave an ordered set.
* **CycleInv.**  What a request executes was committed because until its commit `writes` and
  `pending` are the same set, and the rows in it are locked (`WritesAreNew`): the version it commits
  is newer than the committed one and no other transaction has the row.  With `HandledErrors` the
  first part fails, and so does the property.
* **AloneInv.**  A serialized script implies that its request serializes, thus launches nothing
  beside it and nothing asynchronous, and that the request is still executing when it runs.
  **UpToDateInv**: what is in execution is what is committed, or was overtaken; so a server is behind
  the database and goes back by overtaken scripts only, whatever the number of workers.
* **ExecutionInv** says, for each point of a thread, what the object, the row and the history are.
  **ToldInv** adds that a joined request looks at logs that no thread changes any more.
* **FilesInv.**  What is about to be processed waits for it, thus is in no process; this is what a
  second user breaks between the page and the confirmation.  **SentInv** carries what a page offered
  until it is confirmed, and survives other users because files never lose transactions.
  **ChargedInv** does the same for what is not rejected and for bills that are not covered yet,
  which other users could change under an open page.
* **BillsInv.**  Nobody is kept off a bill, so the invariant says what remains true when requests meet.
  `AloneHolds`: what a request read of its bill is still so, or the bill is in `shared`; for that,
  two requests at one bill are in it as soon as the second starts (`AloneAtBill`).  `NumbersKept`: the
  numbers that were ever given in a year (`Spent`), those that were replaced included, are the first
  ones, and all before the one a request got were given (`RequestHolds`), so that a hole can only be
  a number that was lost.  `RowsInv` are the properties, of bills that are not spoilt.  No two bills
  ever have the same number (`Unique`): the database refuses it.
* **BillingInv.**  `Charges` says that the days before `Start` are charged, and none from it if
  the order may be billed again; `Credits` that what is pending, left, applied or used lies
  between the cancellation of its giver and what it is billed until, and within the period of its
  receiver; `Given` that a giver will be billed until a day no later than all it gave; `Separate`
  that pieces do not overlap and with what was applied make up the period.  That lines may end
  beyond the billing point is handled by `Credits`: all credits end by the cancellation of the
  receiver. The proof holds for whatever order `IsFirst` leaves first.
* **QueueInv.**  `Alone`: unless the lock was overrun, it is not fresh when a sender starts, thus
  nobody is at work, and it stays fresh while the sender works.  `Sole`: messages that are not doubled
  are in the batch of one sender.  So nobody else changes the rows of which it has copies
  (`Rows`), but for critical messages, which their threads change.  For these `Twice` counts what
  may still go out: once from the thread, until it delivers or defers, and once from senders,
  until one records it; a thread that defers late gives its turn to the senders.  `LastTries`: who
  tries a message for the last time has it in hand until it gives it up.

Those of the services head the sections of `Services_proofs`, `Accounting_proofs` and
`Charging_proofs`, and each was an invariant of a run of TLC before it was proved.  The excuses of a property are in its invariant: what is said is said of what is not
excused, and a step that would break it adds to the excuses.  The theorems are about
`Component!Spec` with any constants; that components share no state is how `Hosting` is written.

* **WizardInv.**  `PagesPart` follows what was on a page: a request that mixed with no other is alone
  in its process, thus what the shared object has is what its page sent (`HandedOver`), and the
  orders and days of a page are those it was computed from (`Truthful`), unless they were raced
  since.  `LinesPart` follows days: an order is invoiced up to `lastBilled` and no further unless it
  was raced (`InvoicedUpTo`), and the lines a request is about to commit go on from there without
  holes (`PendingLines`).
* **TrafficInv.**  Of an object without overlaps one monitoring is at work (`OneAtWork`), from the date
  of its last row on (`ContinuesThere`), behind which all that was counted lies (`CountedBehind`) and
  all that was to count is (`Remembered`, but for lines at the edges of windows).  Between the two reads
  of a script, what it found and is in the rotation by now was moved (`HasReadLog`), and nothing else
  is found again (`HasReadBoth`): such lines are counted twice at most.  That the last row
  has the last date (`LastIsLatest`) survives `Cleanup`, which changes and deletes rows of past
  months, because the last of a group of rows keeps its date.
* **Sums of months** (`UsageIsKept`, an action property).  `Sum` is a fold over a set of rows, which the
  community modules define by a CHOOSE of a recursive function.  The proof shows that this function
  exists, and what adding a row and uniting two sets does to a sum, by induction over finite sets,
  in a form that needs no operator as a parameter: a set that has the empty set, and with a set also
  those of one element more, has all finite sets (`OfAllFiniteSets`).  Then a group of rows is
  replaced by one of the same month with their sum, and other groups are not touched
  (`CleanupKeepsSums`).
* **MetricsInv.**  The rows of an order are of days of their own and each was last seen before the next
  begins (`RowsInOrder`), thus one of them is in effect on each day, and it is near what was measured
  in it (`RowsMeasured`).  `get_metric` makes its pieces of rows in effect (`IsPiece`), which is all a
  line needs.  Where no two requests saved at once there is one active order, and those before it
  were over when it began (`OrdersFollow`): their cancellation does not cut what it is billed.  That
  active orders can be billed needs a row as old as the day they were last billed and the day they
  are billed until (`StillBegins`): `cleanup_metrics` keeps the rows of the last `Delta` days before
  the last billing and one before these, which is enough when orders are billed in advance, or a
  period has no more than `Delta + 2` days.
* **PaidInv.**  That what was consumed is paid is no invariant by itself: an order that is billed in
  advance has paid for days to come, and the next billing counts on it.  The invariant says that what
  was paid covers the days consumed and those to come at the metric that was billed (`PaidFor`), of
  orders and of the bills that are about to be written (`WillPay`), where no two billings were open at
  once (`OneBills`).  The proof gives each day a weight (`Weight`), what it consumed at least or, if it
  is to come, the last metric, and shows that pieces of a metric whose days cover an interval cost no
  less than the weights of its days (`FromCovers`, by induction over the days), that the net of pieces
  is all they cost less the discount, and no less than nothing, piece by piece (induction over pieces
  as their ends order them), and that a recharge leaves what is to come paid, but for the orders that
  are in `spent`.  Sums are those of `UsageIsKept`.
* **PricingInv.**  What the lines of a billing charge beyond the price of their days is added to
  `excess`, so that `PaidByDays` needs little but dates besides itself (`DatesInOrder`): an order is not
  billed until a day before it was registered, thus no line goes back.  The proof is about the step,
  whose chunks are a recursion over the orders.
  `DividePeriod` follows it: the chunks are pairwise disjoint and cover the period, and each names the
  orders that are there on its days, in the line they stand in.  It holds of one chunk, and cutting
  chunks at the dates of one order more (`SplitDivides`) and naming it (`OrderIsTaken`) keeps it
  (`ChunksDivide`, by induction over the number of orders).  So each day of an order is in one chunk
  (`DayOfChunk`), whose price is that of its place on that day (`ChunkOfOrder`), and the sum over chunks
  of days by price is the sum over days (`PricedOfDays`), of which a line charges those it begins and
  ends with (`LineIsRight`).  Of the prices of units it is assumed that they are natural numbers, and
  nothing of how they depend on the number of units.
* **GrantsInv.**  Scripts are followed from behind: for each user and database, what the table says
  *with the commands that are to come* is what the rows say.  A script resets before it grants and
  flushes at its end (`OrderedScript`, `EndsFlushing`), and one request is at work on a database that
  is not excused (`OneWorks`).  A command of the other script, that drops a user, can only take what
  is no longer wanted (`KeepsUsers`), and memory lags behind the table only while a flush is to come
  (`InMemory`).
* **UsersInv.**  A command that is still to come is about the row as it is seen by its request
  (`OrderedAs`), the rows being those of its transaction while that is open; a row is written by one
  transaction at a time (`OneTransaction`).  The groups of the main user are those of a list made when
  its script was generated, thus of nobody else's work (`Reached`).
* **WebInv.**  Whoever began and is not counted yet has its line in the file, in the one that is locked
  or in the hands of who has the lock (`LinesTrue`); there is no file without somebody at work
  (`FilesAttended`); and if Apache has not read what is on disk, somebody who is at work, or a line
  that was left behind, is going to reload it (`ToReload`).  All this holds as long as there was no
  accident, and each accident breaks one part.
* **ZonesInv.**  Requests are at work on zones that are not below each other (`Separate`), so that each
  changes its own region; in it, rows are either as the request read them or as it wrote them
  (`ChangesRegion`).  Where no script is to come, the servers are configured for the top domains
  (`Configured`).  The slave needs that files are the older, the further they are from the database
  (`SerialsGrow`), and that no zone below one that is to be deleted is configured (`NoneBelow`).  That
  every domain is in the zone of its highest ancestor (`TopsRight`) needs that names are a forest.
* **MailInv.**  Of every line of the two files either it is right, or a command is to come that makes
  it so (`DomainFollows`, `LineFollows`), each as the request that has touched it sees the database.
  Domains that two requests touch are excused (`TouchedOnce`), though the addresses they write are
  never the same (`OpenApart`).  A line may only be left out while the mailbox of that name exists
  (`MailboxesThere`): deleting it writes its addresses again.

`CycleKeepsPromise` and `ImplementsLedger` are refinements: initial states map to initial states,
and each action to a step or a stutter of the abstract specification, `ProcessResponse` to
`Commit`, `ScriptEnds` to `Apply` or `GiveUp`, `Crash` to `GiveUp`; `SaveClosed` to `Close`, or to
`Disturb` if what it read does not hold;
`SaveEdit` and `AddLines` to `ChangeLines`, `Disturb` or a stutter.

## Where code and docs disagree

* **A day of credit is used twice** (`credit_used_twice`).  After a credit cuts an order in pieces,
  another credit is compared with each piece, and what each leaves of it is offered to the next
  order, the days used in another piece included.  With three orders there is no second receiver,
  thus the four of this run; `order_compensation` shows that the rest of the bookkeeping holds.
* **A recharge is charged again** (`metric_recharged`).  When the metric of an order paid in
  advance grows, `bill_with_metric` charges the difference, and leaves the order before it sets
  `new_billed_metric`: the next billing compares with the metric that was billed first and charges
  the days to come again.  `test_mailbox_with_recharge` expects no bill of a billing with nothing
  new.
* **The draft is sent** (`draft_sent`).  The action "Close, send and download bills in one shot."
  closes the instances of its formset and sends those of its queryset.  In a list they are the same
  ones, as the queryset has an order; on the page of a bill it has none (`admin/utils.py:83`), the
  formset queries again, and what is mailed and downloaded is the bill as it was read open, whose
  template says DRAFT, without its number.

## What the models show besides

Each of these was met by changing a constant of a run or in the excuses of a property; a reader of
the code may want to know.

Orchestration, payments and bills:

* Without the excuse `overtaken`, `ServersNeverGoBack` fails as soon as there are two workers: the
  locks of the rows go with the commit and the scripts run after it, so that two requests over one
  instance deploy in any order, with synchronous execution too, which the README of orchestration
  calls "very consistent".
* With `process_execute` in `Used` and `Bulk = FALSE`, `SecuredIsFinal` fails: marking a process as
  executed marks all its transactions, the secured ones too; TODO.md says it "should not override
  higher transaction states".
* Without the excuse `spoilt`, `ChargedItsTotal` and `ClosedIsFinal` fail: two requests that read a bill
  open both close it, against the assertion "Bill not in Open state."; it gets two transactions, and
  the number of the second, which leaves a hole.  A change form loaded before a bill is closed opens
  it again on save, without its number, and the billing of orders adds lines to closed bills, which
  nothing charges.
* A bill that was charged by hand while it was open is charged again when it is closed: `Bill.close`
  creates its transaction and looks at no other (`CoveredIsDone` is about closed bills).
* A refund that is rejected is not created again: `Transaction.clean` compares what is charged, then
  zero, with a total below zero, and refuses.
* With `HandledErrors = TRUE`, `OnlyCommittedIsExecuted` fails: a view that saves and then raises
  Http404 or PermissionDenied is rolled back, its response is not a 500, and what it saved is
  deployed.  No view of the panel is known to do so.
* With `Joined = FALSE`, `ErrorsToldAreReal` fails: `get_messages` asks a log for success and then
  for its end; one that succeeds in between is told as an error.
* A log with `force_empty_action_execution` runs nothing, ends as RECEIVED, and is reported.
* With two users, files and processes disagree: both confirm the processing of a transaction.
* On lists, rejected transactions are revived and bills charged twice.
* Past `Limit`, the next number is taken for ever: no bill of the type can be closed until January.
* A giver loses all days from the first it gave, those that nobody used included, and what is
  applied beyond the billing point of its receiver may not be discounted: credit is lost.
* No process is ever committed, and a list of processes cannot be deleted: both actions raise.

Mailer:

* Without the excuse `doubled`, `DeliveriesRecorded` and `SentIsFinal` fail: a second sender starts when
  the lock expires under the first, or looks at it at the same instant, delivers the same messages,
  and what it saves last is what remains; and whoever ends first removes the lock of the other.
* An address that is not ASCII raises a UnicodeEncodeError: `send_pending` ends with it, and as
  the message is still queued, it ends every batch to come before the messages after it are tried
  (the last disjunct of `QueueDrains`).
* A process that dies between the record of the last try of a message and `defer()` leaves it
  deferred for ever: no query asks for it (`Stranded`).
* A critical message may go out twice, as `send_pending` sees it queued while its thread sends it.
* Read only: the second recipient of a mail gets `DEFAULT_FROM_EMAIL`, as `message` is rebound in
  the loop (`mailer/backends.py:36`).

Hosting (each is an excuse of a property, and without it the property fails):

* *Web.*  Six things leave Apache as it was: a file that is written while another is put back
  (`overwritten`), two scripts of one backend (`twin`), the mark of an earlier script of the backend
  (`mark`), a lock that is waited for too long (`slow`), options of PHP that are removed without a
  reload (`options`), a script that dies (`death`).
* *Mail.*  Deleting the only mailbox of an address leaves an empty line; excluding a domain
  removes those whose name starts with it (`Extends`); a change of MX tells no backend of mail. 
  Read only: a mailbox with a dot in its name makes `delete_forwards` raise; the backend of
  Mailman appends `exit` before it reloads.
* *Users.*  A user that is added while its account is disabled is never created, and the script
  that enables the account fails at its group, with the users after it; a missing home skips the
  rest of the script with success.
* *Databases.*  A grant that comes before its user fails and leaves privileges deleted and not
  flushed; a change of `permision` tells no backend of databases.
* *Zones.*  Two domains created at once may leave a subdomain as a top; a zone that is deleted and
  created on the same day has a serial its slave may not ask for; concurrent changes get the same
  serial; after the last number of a day, saves raise until the next.
* *Traffic.*  Lines in the very second a window ends are never counted; a monitoring that was
  asked for counts what another counts, and so does one whose lock has expired; the lines of a log
  that is rotated between the two reads of a script are counted twice by it.  Read only: lines of Postfix of December belong to the
  next year in January; the triggers of monitors use the last backend of a loop.
* *Metrics.*  An order that is cancelled on or after what it is billed until is billed no more, so
  that the last days of postpaid orders are never charged; with `Cuts = FALSE` cancelled orders
  are charged on. The last piece of a metric begins when the metric was created, so that one that
  does not change is charged from then on again.  An order registered, billed and cancelled on one
  day, or cancelled and cleaned of its metrics, makes the billing of its account raise
  (`ChargeRaises`).  An order paid in advance that is recharged for a peak, while its metric is by
  then below what it paid for, keeps `billed_metric`: the days it has paid in excess are counted
  again at the next billing, and what it consumes may never be paid (`spent`).  With `Period > Delta
  + 2` an active order that is paid afterwards may lose the metric its period begins with, and
  billing raises (`MetricsSuffice`): with `ORDERS_BILLED_METRIC_CLEANUP_DAYS` at its 40, an annual
  service is one.  Two saves at once create two active orders, and whatever saves the instance
  raises from then on.

Plans and prices:

* Without the excuse `repriced`, `PaidByDays` fails: when an order that was billed until some day is
  billed together with one whose period begins earlier, the chunks cover both, and the first order
  pays the days it had paid before once more (as far as the nominal price of its new days allows).
* With a single combinable plan, `step_price` prices the last plan instead of it, as the loop
  rebinds `rates` (`plans/ratings.py:82`): with a plan that is not combinable after it, the
  combinable one is ignored, and an account pays more than with that plan alone.
  The last part of `UnitsArePriced` is for this reason about plans that are not combined.
* A plan that is contracted twice and has no rate for the first unit gets steps of negative
  quantities, so that the prices of single units are not those of the total (`GoesBack`).
* The rates of a default plan come once for each contract of any account (`plans/models.py:66`), as
  the join with the contracts is not restricted to the account: what one account contracts widens
  the cheap blocks of all.
* `match_price` completes the missing first block of all plans by the first quantity of the first
  plan.
* What a rate has above the nominal price is not charged by lines (`handlers.py:291`).
* The related orders that are picked on the second page of the wizard of billing are in the preview
  and not in the bills: `select_related` adds them to `self.queryset` and not to the context, whose
  orders are the hidden fields of the confirmation (`orders/actions.py:71`).
* Two billings at once charge the same days, and the last to commit may set `billed_until` back, so
  that these days are charged again (`services/handlers.py:660`).

## What is only model-checked

* Liveness (`CommitsAreExecuted`, `LogsFinish`, `QueueDrains`): TLAPS does not do fairness nor
  ENABLED.
* `UnitsArePriced` (`Plans`): the steps of a rating are a RECURSIVE definition over a sequence of
  rates, which rules out theorems in every module that reaches it, and what it computes, like the
  folds and `SelectSeq` that read its result, is induction over data.  The proofs about
  `OrderPricing` take its results as a constant.
* `SentAsClosed`, `CreditUsedOnce` and `NothingLeftToCharge` do not hold, see the section on disagreements.
* Induction over data, where its hypothesis cannot be written as a set: the library's theorems take
  operators as parameters.  Elsewhere sums are sets or bags, order is a relation, and sequences are
  taken apart by their length.

What is proved and in no run of its own: the types of the modules with proofs, and, as conjuncts
of invariants, `ExecutedOnce`, `SynchronousScriptsJoined`, `NothingRunsAfterFailure`,
`NumbersInSequence` and `ClosedIsFinal`.  No run spends a property on types: where there is no
proof, `TypeOK` is there to be read, and added to a configuration when a module is changed.

## What is not modelled

PROJECT.json lists every component.  In short: scripts, configuration files, PDFs, templates and
SEPA XML are text, abstracted to what they are about; forms' validation but for the checks that
guard a change of state; the REST API, which writes fields of models as the change views do;
`ORCHESTRATION_DISABLE_EXECUTION`;
sending bills that are closed already, and their mark `is_sent`; editing the amount of a transaction;
caches of queries.  Vendored code (`djcelery`), installation and static assets are left aside.  In
the modelled components: refunds, one-time billing, pricing by registrations and renewals,
amendments and `undo_billing`.  Of hosting: what the scripts write in files (virtual hosts,
filters, quotas, FPM pools), mailboxes on disk, permissions of directories, monitors of disk, the
applications, lists, SaaS and VPS, whose scripts share nothing.

The map covers a small share of the lines of the repository.  Most of the rest is what TLA+ has
nothing to say about: administration, forms, serializers, views of the panel, texts of
configuration, settings, translations, migrations and commands of installation, which keep no
state or whose steps are one transaction each.

## The plan

What is left, in the order of how much depends on it.

1. **Pricing.**  `bill_registered_or_renew_events`, whose metric counts registrations and renewals
   of a period; the compensations of concurrent orders; `get_pricing_slots`, whose StopIteration
   (`handlers.py:239`) ends as a RuntimeError; annual postpaid services, that subtract a
   `relativedelta` from a number (`:176`).
2. **BillingRounds.**  A composition of `BillingWizard` with lines and bills, `undo_billing` (which
   increments `nlines` before it is assigned) and amendments.  Abstract specification: each day of
   each order is on one line of one bill that is not undone.
3. **Orchestrate, ConnectionClone, RunIterator.**  The context manager and its thread locals;
   clones of the connections by several threads; output that comes with the exit, and multibyte
   characters cut at the end of a chunk.
4. **Tasks and triggers.**  States of tasks that threads save; the triggers of monitors.

Every safety property of the passing runs but `UnitsArePriced` is stated by a theorem.  Next to prove
is a composition of `OperationCollector` and `RequestCycle` in which the pending operations of a
request are those of a collector.
