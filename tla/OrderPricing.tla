----------------------------- MODULE OrderPricing ------------------------------
(***************************************************************************)
(* The billing of the orders of an account for a periodic service that has *)
(* rates and no pricing period (ServiceHandler.bill_concurrent_orders):    *)
(* the rates apply to how many orders there are at once, the first ones    *)
(* being those billed furthest.                                            *)
(*                                                                         *)
(* Dates are natural numbers, and the proportional size of a period is its *)
(* number of days.  Orders are billed until a fixed point; compensations,  *)
(* which come after the price, are those of OrderCompensation.             *)
(***************************************************************************)
EXTENDS Integers, Sequences, FiniteSets, FiniteSetsExt, Functions

CONSTANTS
  Orders,       \* identifiers of orders, which are numbers
  LastDay,      \* bound of the days that pass
  RegisterDays, \* the days orders may be registered on
  Points,       \* the days orders may be billed until
  Methods,      \* rate_algorithm: step, match, best
  Tariffs,      \* the rates the account may get (Rate.objects.by_account)
  Prices,       \* Prices[<<m, rates, n>>][k]: the price of the kth of n units
  Nominal       \* the nominal price of the service

VARIABLES
  today,
  method, tariff,  \* rate_algorithm and rates of the service
  registered, cancelled, billedUntil, \* the dates of each order
  excess,   \* history: what was charged of each order beyond the prices of the days
            \* it was billed
  repriced  \* history: orders billed together with one whose period began before
            \* they had been billed until

vars == <<today, method, tariff, registered, cancelled, billedUntil, excess, repriced>>

Days == 0 .. LastDay
Forever == LastDay + 1
Null == -1

Assumption ==
  /\ Orders \subseteq Nat /\ IsFiniteSet(Orders)
  /\ LastDay \in Nat /\ RegisterDays \subseteq Days /\ Points \subseteq Days
  /\ Nominal \in Nat
  /\ \A m \in Methods, rates \in Tariffs, n \in 1 .. Cardinality(Orders) :
       \A k \in 1 .. n : Prices[<<m, rates, n>>][k] \in Nat

TypeOK ==
  /\ today \in Days /\ method \in Methods /\ tariff \in Tariffs
  /\ registered \in [Orders -> Days] /\ cancelled \in [Orders -> 0 .. Forever]
  /\ billedUntil \in [Orders -> Days \cup {Null}]
  /\ excess \in [Orders -> Int] /\ repriced \subseteq Orders

Init ==
  /\ today = 0
  /\ method \in Methods /\ tariff \in Tariffs
  /\ registered \in [Orders -> RegisterDays]
  /\ cancelled = [o \in Orders |-> Forever]
  /\ billedUntil = [o \in Orders |-> Null]
  /\ excess = [o \in Orders |-> 0] /\ repriced = {}

NewDay ==
  /\ today < LastDay
  /\ today' = today + 1
  /\ UNCHANGED <<method, tariff, registered, cancelled, billedUntil, excess, repriced>>

Cancel(o) ==
  /\ registered[o] <= today /\ cancelled[o] = Forever
  /\ cancelled' = [cancelled EXCEPT ![o] = today]
  /\ UNCHANGED <<today, method, tariff, registered, billedUntil, excess, repriced>>

-----------------------------------------------------------------------------
(* The orders of a billing *)

Start(o) == IF billedUntil[o] = Null THEN registered[o] ELSE billedUntil[o]

BillingPoint(o, point) == Min({point, cancelled[o]})

\* Orders that are cancelled and billed, or billed until then, are left out.
Chosen(S, point) ==
  {o \in S : /\ ~(billedUntil[o] # Null /\ cancelled[o] < billedUntil[o])
             /\ billedUntil[o] < BillingPoint(o, point)}

\* new_billed_until, or the billed_until of the orders that are not billed now.
Until(o, new, point) == IF o \in new THEN BillingPoint(o, point) ELSE billedUntil[o]

\* pricing_orders: orders that were billed and have days in the period.
PricingOrders(ini, end) ==
  {o \in Orders : billedUntil[o] # Null /\ billedUntil[o] > ini /\ registered[o] < end}

\* cmp_billed_until_or_registered_on
Before(a, b) ==
  IF billedUntil[a] = billedUntil[b] THEN a < b
  ELSE IF billedUntil[a] # Null /\ billedUntil[b] # Null THEN billedUntil[b] < billedUntil[a]
  ELSE IF billedUntil[a] # Null THEN registered[b] < billedUntil[a]
  ELSE billedUntil[b] < registered[a]

\* What a sort by that comparison, which may have cycles, can answer: no order comes
\* right before one that precedes it.
Sorted(S) ==
  LET precedes == {e \in S \X S : Before(e[1], e[2])} IN
  {s \in [1 .. Cardinality(S) -> S] :
    IsInjective(s) /\ \A i \in 2 .. Len(s) : <<s[i], s[i - 1]>> \notin precedes}

-----------------------------------------------------------------------------
(* Chunks of the period *)

Chunk(ini, end, orders) == [ini |-> ini, end |-> end, orders |-> orders]

Has(chunk, o) == \E i \in DOMAIN chunk.orders : chunk.orders[i] = o

\* A slip: an order that is registered within a chunk has all of it.
SplitAtEnd(chunk, o, until) ==
  IF until = Null \/ until <= chunk.ini \/ registered[o] >= chunk.end THEN {chunk}
  ELSE LET last == Min({until, chunk.end}) IN
       {c \in {Chunk(last, chunk.end, chunk.orders)} : c.ini < c.end}
         \cup {Chunk(chunk.ini, last, Append(chunk.orders, o))}

\* A chunk is split into what comes before an order, the days of the order, and what
\* comes after.
Split(chunk, o, until) ==
  LET first == Max({registered[o], chunk.ini})
      last == Min({until, chunk.end})
  IN IF until = Null \/ until <= chunk.ini \/ registered[o] >= chunk.end THEN {chunk}
     ELSE {c \in {Chunk(chunk.ini, first, chunk.orders), Chunk(last, chunk.end, chunk.orders)} :
             c.ini < c.end}
          \cup {Chunk(first, last, Append(chunk.orders, o))}

\* helpers.get_chunks: the chunks after the first n orders, and after all of them.
get_chunks(porders, ini, end, new, point) ==
  LET after[n \in 0 .. Len(porders)] ==
        IF n = 0 THEN {Chunk(ini, end, << >>)}
        ELSE UNION {Split(c, porders[n], Until(porders[n], new, point)) : c \in after[n - 1]}
  IN after[Len(porders)]

\* The price of the unit at a position among a number of orders.
Price(metric, position) == Prices[<<method, tariff, metric>>][position]

Position(s, o) == CHOOSE i \in DOMAIN s : s[i] = o

Total(of, some) == MapThenSumSet(LAMBDA x : of[x], some)

\* What an order costs, chunk by chunk.
Priced(o, chunks) ==
  LET mine == {c \in chunks : Has(c, o)} IN
  Total([c \in mine |-> Price(Len(c.orders), Position(c.orders, o)) * (c.end - c.ini)], mine)

\* generate_line: what is cheaper than the nominal price is discounted from it, what
\* is dearer is not charged.
LineTotal(price, ini, end) == Min({price, Nominal * (end - ini)})

\* The price of a day: how many orders there are on that day, and how many of them up
\* to this one.
There(porders, d, new, point) ==
  {i \in DOMAIN porders : registered[porders[i]] <= d /\ d < Until(porders[i], new, point)}
DayPrice(o, d, porders, new, point) ==
  LET there == There(porders, d, new, point)
      first == {i \in there : i <= Position(porders, o)}
  IN Price(Cardinality(there), Cardinality(first))

ByDays(o, porders, new, point) ==
  LET ds == Start(o) .. BillingPoint(o, point) - 1
  IN LineTotal(Total([d \in ds |-> DayPrice(o, d, porders, new, point)], ds),
               Start(o), BillingPoint(o, point))

\* Orders that have a line are billed until the point.  What is asked of the orders
\* that are left out changes nothing, so that only those that are not are named.
Bill(new, point) ==
  LET ini == Min({Start(o) : o \in new})
      end == Max({BillingPoint(o, point) : o \in new})
  IN /\ \A o \in new : registered[o] <= today
     /\ point >= today
     /\ new # {} /\ Chosen(new, point) = new
     /\ \E porders \in Sorted(new \cup PricingOrders(ini, end)) :
          LET chunks == get_chunks(porders, ini, end, new, point)
              lines == {o \in new : \E c \in chunks : Has(c, o)}
          IN /\ excess' = [o \in Orders |->
                  IF o \in lines
                  THEN excess[o] - ByDays(o, porders, new, point)
                         + LineTotal(Priced(o, chunks), Start(o), BillingPoint(o, point))
                  ELSE excess[o]]
             /\ billedUntil' = [o \in Orders |->
                  IF o \in lines THEN BillingPoint(o, point) ELSE billedUntil[o]]
     /\ repriced' = repriced \cup {o \in new : billedUntil[o] > ini}
     /\ UNCHANGED <<today, method, tariff, registered, cancelled>>

Next ==
  \/ NewDay
  \/ \E o \in Orders : Cancel(o)
  \/ \E new \in SUBSET Orders, point \in Points : Bill(new, point)

Spec == Init /\ [][Next]_vars

-----------------------------------------------------------------------------
(* Properties. *)

\* An order pays for each of its days what the rates say of the orders there are on
\* that day and of its place among them, however the orders divide the period; it
\* never pays less.  What does not hold: orders that were billed until a day after
\* the period of another begins pay the days from there on again (repriced).
PaidByDays ==
  \A o \in Orders : excess[o] >= 0 /\ (excess[o] > 0 => o \in repriced)
================================================================================
