----------------------------- MODULE OrderMetrics ------------------------------
(***************************************************************************)
(* The orders an instance has of a service that is charged by a metric, as *)
(* the disk of a mailbox: requests that save the instance create the order *)
(* and store its metric, or cancel it; a billing charges what was stored.  *)
(*                                                                         *)
(* Billing points are the first days of periods.  The price of a day is    *)
(* the metric of that day.  A request reads when it begins and writes when *)
(* it commits; none is under way at midnight.                              *)
(***************************************************************************)
EXTENDS Integers, Sequences, FiniteSetsExt

CONSTANTS
  Requests,  \* requests that save or delete the instance
  Billings,  \* requests that bill
  Values,    \* of the metric
  Error,     \* ORDERS_METRIC_ERROR: changes as small are not stored
  Period,    \* days of a billing period
  Cuts,      \* whether on_cancel is not NOTHING
  Delta,     \* ORDERS_BILLED_METRIC_CLEANUP_DAYS
  MaxDay, MaxOrders,
  MaxSaves, MaxBills,  \* requests of each kind, in all
  None

VARIABLES
  today,
  style,    \* payment_style of the service: prepay or postpay
  orders,   \* the orders of the instance, by id
  saves, bills, \* how many requests have saved the instance, and billed
  found,    \* found[r]: the active orders r read, or None
  bill,     \* bill[b]: what the billing b is to write, or None
  reported, \* history: reported[i]: the metric of order i as last seen
  measured, \* history: measured[i][d]: the same at the end of day d
  paid,     \* history: paid[i]: all that was charged of i
  strays,   \* history: whether two requests saved the instance at once
  twice,    \* history: whether two billings were at work at once
  spent     \* history: orders a recharge of which spent what was paid for days to come

history == <<reported, measured, paid, strays, twice, spent>>
vars == <<today, style, orders, saves, bills, found, bill, reported, measured, paid, strays, twice,
          spent>>

Days == 0 .. MaxDay
Ids == 1 .. MaxOrders
Rows == [created_on : Days, updated_on : Days, value : Values]

Ends == 0 .. MaxDay + Period
OrderTypes ==
  [registered_on : Days, cancelled_on : Days \cup {None}, billed_on : Days \cup {None},
   billed_until : Ends \cup {None}, billed_metric : Values \cup {None}, metrics : SUBSET Rows]
Charges ==
  [lines : SUBSET [ini : Ends, end : Ends, metric : Values, net : Nat],
   billed_until : Ends \cup {None}, billed_metric : Values \cup {None}]

TypeOK ==
  /\ today \in Days
  /\ style \in {"prepay", "postpay"}
  /\ orders \in Seq(OrderTypes) /\ Len(orders) <= MaxOrders
  /\ saves \in 0 .. MaxSaves /\ bills \in 0 .. MaxBills
  /\ found \in [Requests -> (SUBSET Ids) \cup {None}]
  /\ DOMAIN bill = Billings
  /\ \A b \in Billings : bill[b] # None => \E ids \in SUBSET DOMAIN orders : bill[b] \in [ids -> Charges]
  /\ reported \in [Ids -> Nat] /\ measured \in [Ids -> [Days -> Nat]]
  /\ paid \in [Ids -> Nat]
  /\ strays \in BOOLEAN /\ twice \in BOOLEAN /\ spent \subseteq Ids

\* Constants are of their types, and None is neither a day, a metric nor a set of orders.
Assumption ==
  /\ Values \subseteq Nat /\ Error \in Nat
  /\ Period \in Nat \ {0} /\ Delta \in Nat /\ Cuts \in BOOLEAN
  /\ MaxDay \in Nat /\ MaxOrders \in Nat /\ MaxSaves \in Nat /\ MaxBills \in Nat
  /\ None \notin Nat /\ \A ids \in SUBSET Ids : ids # None

Init ==
  /\ today = 0
  /\ style \in {"prepay", "postpay"}
  /\ orders = << >>
  /\ saves = 0 /\ bills = 0
  /\ found = [r \in Requests |-> None]
  /\ bill = [b \in Billings |-> None]
  /\ reported = [i \in Ids |-> 0]
  /\ measured = [i \in Ids |-> [d \in Days |-> 0]]
  /\ paid = [i \in Ids |-> 0]
  /\ strays = FALSE /\ twice = FALSE /\ spent = {}

Active == {i \in DOMAIN orders : orders[i].cancelled_on = None}

-----------------------------------------------------------------------------
(* Metrics *)

Stored(value) == [created_on |-> today, updated_on |-> today, value |-> value]

Differs(value, last) == value > last + Error \/ value < last - Error \/ (value = 0 /\ last > 0)

\* Rows are created on different days, in the order of their ids.
latest(metrics) == CHOOSE row \in metrics : \A other \in metrics : other.created_on <= row.created_on

Updated(metrics, value) ==
  (metrics \ {latest(metrics)})
    \cup {[latest(metrics) EXCEPT !.value = value, !.updated_on = today]}

\* A slip: the last value is changed, whatever its day.
StoreLast(metrics, value) == IF metrics = {} THEN {Stored(value)} ELSE Updated(metrics, value)

\* MetricStorage.objects.store: a row for a day, the last value of it; none if the
\* value is about the same as before.
Store(metrics, value) ==
  IF metrics = {} THEN {Stored(value)}
  ELSE IF latest(metrics).created_on = today THEN Updated(metrics, value)
  ELSE IF Differs(value, latest(metrics).value) THEN metrics \cup {Stored(value)}
  ELSE Updated(metrics, latest(metrics).value)

Before(metrics, end) == {row \in metrics : row.created_on < end}

\* get_metric finds nothing it can begin with, and raises.
Raises(metrics, ini, end) == \A row \in Before(metrics, end) : row.created_on > ini

\* A piece up to each change after ini.
Changes(metrics, ini, end) ==
  {LET previous == latest(Before(metrics, row.created_on)) IN
     [ini |-> Max({previous.created_on, ini}), end |-> row.created_on, metric |-> previous.value] :
       row \in {other \in Before(metrics, end) : other.created_on > ini}}

\* get_metric(ini, end, changes=True): the changes, and a last piece, which begins with
\* its row, be it before ini.
get_metric(metrics, ini, end) ==
  LET row == latest(Before(metrics, end)) IN
  Changes(metrics, ini, end) \cup {[ini |-> row.created_on, end |-> end, metric |-> row.value]}

-----------------------------------------------------------------------------
(* Requests that save the instance *)

\* update_by_instance looks for the active orders.
Save(r) ==
  /\ found[r] = None /\ saves < MaxSaves
  /\ saves' = saves + 1
  /\ found' = [found EXCEPT ![r] = Active]
  /\ strays' = (strays \/ \E q \in Requests : found[q] # None)
  /\ UNCHANGED <<today, style, orders, bills, bill, reported, measured, paid, twice, spent>>

Commits(r) ==
  /\ found[r] # None
  /\ found' = [found EXCEPT ![r] = None]
  /\ UNCHANGED <<today, style, saves, bills, bill, measured, paid, strays, twice, spent>>

NewOrder(value) ==
  [registered_on |-> today, cancelled_on |-> None, billed_on |-> None, billed_until |-> None,
   billed_metric |-> None, metrics |-> {Stored(value)}]

CreateOrder(r, value) ==
  /\ Commits(r)
  /\ found[r] = {} /\ Len(orders) < MaxOrders
  /\ orders' = Append(orders, NewOrder(value))
  /\ reported' = [reported EXCEPT ![Len(orders) + 1] = value]

UpdateOrder(r, value) ==
  /\ Commits(r)
  /\ \E i \in Ids :
       /\ found[r] = {i}
       /\ orders' = [orders EXCEPT ![i].metrics = Store(@, value)]
       /\ reported' = [reported EXCEPT ![i] = value]

\* The instance no longer matches, or is deleted, for which orders may be many.
CancelOrders(r) ==
  /\ Commits(r)
  /\ found[r] # {}
  /\ orders' = [i \in DOMAIN orders |->
       IF i \in found[r] THEN [orders[i] EXCEPT !.cancelled_on = today] ELSE orders[i]]
  /\ UNCHANGED reported

\* A single active order was expected, or an instance that does not match has none.
ChangesNothing(r) ==
  /\ Commits(r)
  /\ Cardinality(found[r]) # 1
  /\ UNCHANGED <<orders, reported>>

-----------------------------------------------------------------------------
(* Billing *)

\* get_billing_point: that of the order before it is taken as it is, cut or not, so that
\* all that come after a cancelled order are billed as it is.
get_billing_point(i, ids) ==
  LET point == IF style = "prepay" THEN (today \div Period + 1) * Period
               ELSE (today \div Period) * Period IN
  Min({point} \cup {orders[j].cancelled_on :
                      j \in {k \in ids : k <= i /\ Cuts /\ orders[k].cancelled_on # None}})

\* Pieces are not before a day.
From(ini, pieces) == {[piece EXCEPT !.ini = Max({@, ini})] : piece \in pieces}

Total(of, some) == MapThenSumSet(LAMBDA x : of[x], some)

Price(pieces) == [piece \in pieces |-> piece.metric * (piece.end - piece.ini)]

\* What remains of a discount after a piece.
Left(pieces, discount, piece) ==
  discount - Total(Price(pieces), {other \in pieces : other.end <= piece.end})

\* Each piece costs its price, less what remained of the discount after those before it.
Net(pieces, discount) ==
  [piece \in pieces |->
     LET price == Price(pieces)[piece] IN
     price - Max({0, Min({price, Left(pieces, discount, piece) + price})})]

Lines(pieces, net) ==
  {[ini |-> piece.ini, end |-> piece.end, metric |-> piece.metric, net |-> net[piece]] :
     piece \in pieces}

NoLines == [lines |-> {}, until |-> 0]

\* A slip: what was paid in advance is all there is to pay.
NoRecharge(o, bp) == NoLines

\* The recharges of an order that was billed in advance: pieces since it was billed,
\* of which what was billed is discounted, if that is less than all.
Recharge(o, bp) ==
  LET end == Min({bp, o.billed_until})
      pieces == From(o.billed_on, get_metric(o.metrics, o.billed_on, end))
      discount == o.billed_metric * (end - o.billed_on)
      net == Net(pieces, discount)
      charged == {piece \in pieces : net[piece] > 0} IN
  IF Total(Price(pieces), pieces) > discount
  THEN [lines |-> Lines(charged, net),
        until |-> IF charged = {} THEN end ELSE Max({piece.end : piece \in charged})]
  ELSE NoLines

Recharges(o) == style = "prepay" /\ o.billed_on # None

IsOver(o) == o.billed_until # None /\ o.cancelled_on # None /\ o.cancelled_on >= o.billed_until

Begins(o) == IF o.billed_until = None THEN o.registered_on ELSE o.billed_until

IsBilled(o, bp) == IsOver(o) \/ bp <= Begins(o)

\* bill_with_metric, of one order.
Charge(o, bp) ==
  LET recharge == IF Recharges(o) THEN Recharge(o, bp) ELSE NoLines
      pieces == From(recharge.until, get_metric(o.metrics, Begins(o), bp))
      charged == {piece \in pieces : piece.metric > 0} IN
  IF IsBilled(o, bp)
  THEN [lines |-> recharge.lines, billed_until |-> o.billed_until, billed_metric |-> o.billed_metric]
  ELSE [lines |-> recharge.lines \cup Lines(charged, Price(charged)),
        billed_until |-> bp, billed_metric |-> latest(Before(o.metrics, bp)).value]

ChargeRaises(o, bp) ==
  \/ Recharges(o) /\ Raises(o.metrics, o.billed_on, Min({bp, o.billed_until}))
  \/ ~IsBilled(o, bp) /\ Raises(o.metrics, Begins(o), bp)

\* An order is recharged, though its metric is now below what was billed of the days to
\* come, and as what was billed stays as it is (see Charge) those days count as paid.
Spends(o, bp) ==
  /\ Recharges(o) /\ IsBilled(o, bp) /\ Recharge(o, bp).lines # {}
  /\ latest(Before(o.metrics, bp)).value < o.billed_metric

\* Orders are billed, each with a copy of its row, unless one raises.
Bill(b) ==
  /\ bill[b] = None /\ bills < MaxBills
  /\ bills' = bills + 1
  /\ \E ids \in {DOMAIN orders} \cup {{i} : i \in DOMAIN orders} :
       LET point == [i \in ids |-> get_billing_point(i, ids)] IN
       /\ ids # {}
       /\ \A i \in ids : ~ChargeRaises(orders[i], point[i])
       /\ bill' = [bill EXCEPT ![b] = [i \in ids |-> Charge(orders[i], point[i])]]
       /\ spent' = spent \cup {i \in ids : Spends(orders[i], point[i])}
  /\ twice' = (twice \/ \E c \in Billings : bill[c] # None)
  /\ UNCHANGED <<today, style, orders, saves, found, reported, measured, paid, strays>>

Charged(lines) == Total([line \in lines |-> line.net], lines)

\* The orders that have a line are saved.
CommitBill(b) ==
  /\ bill[b] # None
  /\ bill' = [bill EXCEPT ![b] = None]
  /\ orders' = [i \in DOMAIN orders |->
       IF i \in DOMAIN bill[b] /\ bill[b][i].lines # {}
       THEN [orders[i] EXCEPT !.billed_on = today, !.billed_until = bill[b][i].billed_until,
                              !.billed_metric = bill[b][i].billed_metric]
       ELSE orders[i]]
  /\ paid' = [i \in Ids |-> paid[i] + IF i \in DOMAIN bill[b] THEN Charged(bill[b][i].lines) ELSE 0]
  /\ UNCHANGED <<today, style, saves, bills, found, reported, measured, strays, twice, spent>>

-----------------------------------------------------------------------------
(* The task cleanup_metrics, and time *)

\* A slip: the latest of them is deleted too.
KeepRecent(metrics, epoch) == {row \in metrics : row.updated_on >= epoch}

\* The latest of those that are old remains.
KeepLatest(metrics, epoch) ==
  {row \in metrics : row.updated_on >= epoch
                       \/ row = latest({other \in metrics : other.updated_on < epoch})}

Cleanup ==
  /\ orders' = [i \in DOMAIN orders |->
       IF orders[i].billed_on = None THEN orders[i]
       ELSE [orders[i] EXCEPT !.metrics = KeepLatest(@, orders[i].billed_on - Delta)]]
  /\ orders' # orders
  /\ UNCHANGED <<today, style, saves, bills, found, bill, history>>

Midnight ==
  /\ today < MaxDay
  /\ \A r \in Requests : found[r] = None
  /\ \A b \in Billings : bill[b] = None
  /\ today' = today + 1
  /\ measured' = [i \in Ids |-> [measured[i] EXCEPT ![today] = reported[i]]]
  /\ UNCHANGED <<style, orders, saves, bills, found, bill, reported, paid, strays, twice, spent>>

Next ==
  \/ \E r \in Requests :
       \/ Save(r) \/ CancelOrders(r) \/ ChangesNothing(r)
       \/ \E value \in Values : CreateOrder(r, value) \/ UpdateOrder(r, value)
  \/ \E b \in Billings : Bill(b) \/ CommitBill(b)
  \/ Cleanup \/ Midnight

Spec == Init /\ [][Next]_vars

-----------------------------------------------------------------------------
(* Properties *)

\* An instance has one active order of a service, unless two requests saved it at
\* once: then it has two, and whatever saves it raises until it is deleted.
OneActiveOrder == ~strays => Cardinality(Active) <= 1

Near(a, b) == a <= b + Error /\ b <= a + Error

\* A line charges each day that is over by what was measured in it, though changes
\* that are small are not stored, the last of a day overwrites the others and old
\* rows are deleted.
ChargedAsMeasured ==
  \A b \in Billings : bill[b] # None =>
    \A i \in DOMAIN bill[b] : \A line \in bill[b][i].lines :
      \A d \in line.ini .. line.end - 1 : d < today => Near(line.metric, measured[i][d])

\* What order i has consumed before a day, at least.
Consumed(i, end) ==
  LET days == orders[i].registered_on .. end - 1 IN
  Total([d \in days |-> Max({0, measured[i][d] - Error})], days)

\* Once an order was billed what it has consumed is paid, though it is billed in
\* advance of it and the metric changes: up to the day for those that are paid in
\* advance, up to the billing point for the others.  Cancelled orders are excused,
\* whose last days nobody charges, and those billed with one; so are those whose
\* recharges have spent what was paid for other days.
ConsumptionIsPaid ==
  [][\A b \in Billings : bill[b] # None /\ bill'[b] = None /\ ~strays /\ ~twice =>
       \A i \in DOMAIN bill[b] \ spent :
         (\A j \in DOMAIN bill[b] : orders[j].cancelled_on = None) =>
           paid'[i] >= Consumed(i, IF style = "prepay" THEN today ELSE (today \div Period) * Period)]_vars

\* Active orders can always be billed: what was deleted of their metrics is not
\* looked for.  Once they are cancelled it may be: then the billing of all raises.
MetricsSuffice ==
  ~strays => \A i \in Active : ~ChargeRaises(orders[i], get_billing_point(i, {i}))

\* An order that was billed today, and whose metric was not stored since, has nothing
\* to pay: as test_mailbox_with_recharge asks, where a second billing makes no bill.
NothingLeftToCharge ==
  ~strays /\ ~twice => \A i \in Active :
    LET o == orders[i] IN
    o.billed_on = today /\ (\A row \in o.metrics : row.updated_on < today) =>
      Charge(o, get_billing_point(i, {i})).lines = {}
=============================================================================
