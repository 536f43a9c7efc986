---------------------------- MODULE Charging_proofs ----------------------------
(***************************************************************************)
(* Proofs about what orders are charged, by sums of Accounting_proofs:     *)
(*   - the charge of metrics (OrderMetrics), and that all of them is paid, *)
(*   - the prices of orders that concur (OrderPricing).                    *)
(* Each defines the invariant its properties follow from and shows that it *)
(* is inductive.  Constants have any values that the assumptions of the    *)
(* components allow.                                                       *)
(***************************************************************************)
EXTENDS Accounting_proofs

-----------------------------------------------------------------------------
(* The charge of metrics *)

\* Orders that were billed know until when and for which metric, those of the lines that
\* are pending too; all dates have come.
BilledTogether(o) ==
  /\ o.billed_on = None <=> o.billed_until = None
  /\ o.billed_on = None <=> o.billed_metric = None
HaveCome(o) ==
  /\ o.registered_on <= today
  /\ o.cancelled_on # None => o.cancelled_on <= today
  /\ o.billed_on # None => o.billed_on <= today
HasLines(b, i) == bill[b] # None /\ i \in DOMAIN bill[b] /\ bill[b][i].lines # {}
Complete(b, i) ==
  IsFiniteSet(bill[b][i].lines) /\ bill[b][i].billed_until # None /\ bill[b][i].billed_metric # None
DatesOfOrders ==
  /\ \A i \in DOMAIN orders : BilledTogether(orders[i]) /\ HaveCome(orders[i])
  /\ \A b \in Billings, i \in Metrics!Ids : HasLines(b, i) => Complete(b, i)

\* Rows of an order are of days of their own, and each was last seen before the next.
Follows(row, other) == other.updated_on <= row.created_on /\ other.created_on < row.created_on
RowsInOrder(o) ==
  /\ o.metrics # {} /\ IsFiniteSet(o.metrics)
  /\ \A row \in o.metrics :
       /\ o.registered_on <= row.created_on /\ row.created_on <= row.updated_on
       /\ row.updated_on <= today
       /\ \A other \in o.metrics \ {row} : Follows(row, other) \/ Follows(other, row)

\* The row of a day is about what was measured in it, and the last one what is reported.
InEffect(row, rows, d) ==
  /\ row \in rows /\ row.created_on <= d
  /\ \A other \in rows : other.created_on <= d => other.created_on <= row.created_on
RowsMeasured(i) ==
  /\ \A row \in orders[i].metrics, d \in Metrics!Days :
       d < today /\ InEffect(row, orders[i].metrics, d) => Metrics!Near(row.value, measured[i][d])
  /\ \A row \in orders[i].metrics :
       InEffect(row, orders[i].metrics, today) => Metrics!Near(row.value, reported[i])

\* Where no two requests saved at once, one is at work, which found the orders there are:
\* the last one, if any.  Those before were over when it began.
OneSaves ==
  /\ \A r, q \in Requests : found[r] # None /\ found[q] # None => r = q
  /\ \A r \in Requests : found[r] # None => found[r] = Metrics!Active
OrdersFollow ==
  \A i \in Metrics!Active, j \in DOMAIN orders : j # i =>
    /\ orders[j].cancelled_on # None
    /\ j < i => orders[j].cancelled_on <= orders[i].registered_on

\* The metrics of an active order go back to when it began, if it was never billed, or
\* to the day it was billed and until which it is billed.
GoesBack(rows, day) == \E row \in rows : row.created_on <= day
StillBegins(rows, on, until) ==
  /\ on < until + Period /\ (style = "prepay" => on < until)
  /\ \E row \in rows : row.created_on <= on /\ row.created_on <= until
KeptOf(i) ==
  LET o == orders[i] IN
  /\ o.billed_on = None => GoesBack(o.metrics, o.registered_on)
  /\ o.billed_on # None => StillBegins(o.metrics, o.billed_on, o.billed_until)
  /\ \A b \in Billings : HasLines(b, i) => StillBegins(o.metrics, today, bill[b][i].billed_until)
MetricsKept == \A i \in Metrics!Active : KeptOf(i)

\* Metrics are kept for as long as a period of billing, or orders are paid in advance.
KeptLongEnough == style = "prepay" \/ Period <= Delta + 2

MetricsInv ==
  /\ Metrics!TypeOK /\ DatesOfOrders
  /\ \A i \in DOMAIN orders : RowsInOrder(orders[i]) /\ RowsMeasured(i)
  /\ Metrics!ChargedAsMeasured
  /\ ~strays => OneSaves /\ OrdersFollow
  /\ ~strays /\ KeptLongEnough => MetricsKept

\* What was billed is paid, by an amount in all: days that are over by what was consumed in
\* them, and those to come by the metric that was billed, if they are paid in advance.
PaidFor(i, amount, on, until, metric) ==
  IF style = "prepay" THEN amount >= Metrics!Consumed(i, on) + metric * (until - on)
  ELSE until <= on /\ amount >= Metrics!Consumed(i, until)
OrderPaid(i) ==
  LET o == orders[i] IN
  o.billed_on # None => PaidFor(i, paid[i], o.billed_on, o.billed_until, o.billed_metric)

\* The same of a bill that is to be written, which pays all that was consumed, if it is of
\* no cancelled order.
Amount(b, i) == paid[i] + Metrics!Charged(bill[b][i].lines)
Due == IF style = "prepay" THEN today ELSE (today \div Period) * Period
WillPay(b, i) ==
  /\ HasLines(b, i) => PaidFor(i, Amount(b, i), today, bill[b][i].billed_until, bill[b][i].billed_metric)
  /\ (\A j \in DOMAIN bill[b] : orders[j].cancelled_on = None) => Amount(b, i) >= Metrics!Consumed(i, Due)
OneBills == \A b, c \in Billings : bill[b] # None /\ bill[c] # None => b = c
AllPay ==
  \A i \in Metrics!Active \ spent :
    OrderPaid(i) /\ \A b \in Billings : bill[b] # None /\ i \in DOMAIN bill[b] => WillPay(b, i)
PaidInv == ~strays /\ ~twice => OneBills /\ AllPay

\* The extremes of two numbers.
LEMMA ExtremesOfTwo ==
  ASSUME NEW a \in Int, NEW b \in Int
  PROVE  /\ Metrics!Max({a, b}) = (IF a >= b THEN a ELSE b)
         /\ Metrics!Min({a, b}) = (IF a <= b THEN a ELSE b)
  BY DEF Metrics!Max, Metrics!Min

\* The greatest of bounded numbers, and the least of some.
LEMMA GreatestNumber ==
  ASSUME NEW N \in Nat, NEW S \in SUBSET (0 .. N), S # {}
  PROVE  Metrics!Max(S) \in S /\ \A x \in S : x <= Metrics!Max(S)
  <1>1. PICK m \in S : \A x \in S : x <= m
    BY GreatestExists
  <1>2. m >= m /\ \A x \in S : m >= x
    BY <1>1
  <1>3. QED BY <1>2 DEF Metrics!Max

LEMMA LeastNumber ==
  ASSUME NEW N \in Nat, NEW S \in SUBSET (0 .. N), S # {}
  PROVE  Metrics!Min(S) \in S /\ \A x \in S : Metrics!Min(S) <= x
  <1> DEFINE T == {N - x : x \in S}
  <1>1. T \in SUBSET (0 .. N) /\ T # {}
    <2>1. \A x \in S : N - x \in 0 .. N
      OBVIOUS
    <2>2. QED BY <2>1
  <1>2. PICK t \in T : \A y \in T : y <= t
    <2> HIDE DEF T
    <2>1. QED BY <1>1, GreatestExists
  <1>3. PICK m \in S : t = N - m
    OBVIOUS
  <1>4. ASSUME NEW x \in S PROVE m <= x
    <2>1. N - x <= N - m
      BY <1>2, <1>3
    <2>2. QED BY <2>1
  <1>5. QED BY <1>4 DEF Metrics!Min

\* A total is a sum of values.
LEMMA TotalIsSum ==
  ASSUME NEW of, NEW S
  PROVE  Metrics!Total(of, S) = Traffic!Sum([x \in S |-> [value |-> of[x]]], S)
  <1> DEFINE rows == [x \in S |-> [value |-> of[x]]]
             IsTotal(g) == g = [s \in SUBSET S |-> IF s = {} THEN 0 ELSE of[First(s)] + g[s \ {First(s)}]]
  <1>1. \A s \in SUBSET S : s # {} => rows[First(s)].value = of[First(s)]
    BY FirstIsIn
  <1>2. ASSUME NEW g PROVE IsTotal(g) <=> IsSum(g, rows, S)
    <2> HIDE DEF rows
    <2>1. [s \in SUBSET S |-> IF s = {} THEN 0 ELSE of[First(s)] + g[s \ {First(s)}]]
            = [s \in SUBSET S |-> IF s = {} THEN 0 ELSE rows[First(s)].value + g[s \ {First(s)}]]
      BY <1>1
    <2>2. QED BY <2>1 DEF IsSum
  <1>3. (CHOOSE g : IsTotal(g)) = (CHOOSE g : IsSum(g, rows, S))
    <2> HIDE DEF rows, IsTotal
    <2>1. QED BY <1>2, Zenon
  <1>4. Metrics!Total(of, S) = (CHOOSE g : IsTotal(g))[S]
    BY DEF Metrics!Total, Metrics!MapThenSumSet, Metrics!MapThenFoldSet, First
  <1>5. QED BY <1>3, <1>4, SumIsSum DEF SumOver

\* A total of some of those values.
LEMMA TotalOfSome ==
  ASSUME NEW of, NEW S, NEW T \in SUBSET S, IsFiniteSet(S)
  PROVE  Metrics!Total(of, T) = Traffic!Sum([x \in S |-> [value |-> of[x]]], T)
  <1> DEFINE rows == [x \in S |-> [value |-> of[x]]]
             some == [x \in T |-> [value |-> of[x]]]
  <1>1. IsFiniteSet(T) /\ \A x \in T : rows[x].value = some[x].value
    BY FS_Subset
  <1> HIDE DEF rows
  <1>2. Metrics!Total(of, T) = Traffic!Sum(some, T)
    BY TotalIsSum
  <1> HIDE DEF some
  <1>3. QED BY <1>1, <1>2, SumOfSame DEF rows

\* How totals unfold.
LEMMA TotalStep ==
  ASSUME NEW of, NEW S, IsFiniteSet(S)
  PROVE  Metrics!Total(of, S) =
           IF S = {} THEN 0 ELSE of[First(S)] + Metrics!Total(of, S \ {First(S)})
  <1> DEFINE rows == [x \in S |-> [value |-> of[x]]]
  <1>1. S # {} => rows[First(S)].value = of[First(S)]
    BY FirstIsIn
  <1>2. Metrics!Total(of, S) = Traffic!Sum(rows, S)
    BY TotalIsSum
  <1>3. S \ {First(S)} \in SUBSET S
    OBVIOUS
  <1>4. Metrics!Total(of, S \ {First(S)}) = Traffic!Sum(rows, S \ {First(S)})
    BY <1>3, TotalOfSome
  <1> HIDE DEF rows
  <1>5. QED BY <1>1, <1>2, <1>4, SumStep

\* Totals of integers are integers.
LEMMA TotalIsInt ==
  ASSUME NEW of, NEW S, IsFiniteSet(S), \A x \in S : of[x] \in Int
  PROVE  Metrics!Total(of, S) \in Int
  <1> DEFINE A == {s \in SUBSET S : Metrics!Total(of, s) \in Int}
  <1>1. ASSUME NEW s \in SUBSET S, \A t \in SUBSET s : t # s => t \in A
        PROVE  s \in A
    <2>1. IsFiniteSet(s)
      BY FS_Subset
    <2>2. s # {} => s \ {First(s)} \in A /\ of[First(s)] \in Int
      BY <1>1, FirstIsIn
    <2>3. Metrics!Total(of, s) = IF s = {} THEN 0 ELSE of[First(s)] + Metrics!Total(of, s \ {First(s)})
      BY <2>1, TotalStep
    <2>4. s # {} => Metrics!Total(of, s \ {First(s)}) \in Int
      BY <2>2
    <2> HIDE DEF A
    <2>5. Metrics!Total(of, s) \in Int
      BY <2>2, <2>3, <2>4
    <2>6. QED BY <2>5 DEF A
  <1> HIDE DEF A
  <1>2. S \in A
    BY <1>1, OfAllFiniteSets
  <1>3. QED BY <1>2 DEF A

\* Those of natural numbers are natural, and any may be taken out.
LEMMA TotalIsNat ==
  ASSUME NEW of, NEW S, IsFiniteSet(S), \A x \in S : of[x] \in Nat
  PROVE  Metrics!Total(of, S) \in Nat
  <1> DEFINE rows == [x \in S |-> [value |-> of[x]]]
  <1>1. \A x \in S : rows[x].value \in Nat
    OBVIOUS
  <1> HIDE DEF rows
  <1>2. Traffic!Sum(rows, S) \in Nat
    BY <1>1, SumIsNat
  <1>3. QED BY <1>2, TotalIsSum DEF rows

-----------------------------------------------------------------------------
\* Rows have days, and the latest is one of them.
LEMMA LatestRow ==
  ASSUME Metrics!Assumption, NEW rows \in SUBSET Metrics!Rows, rows # {}
  PROVE  /\ Metrics!latest(rows) \in rows
         /\ \A other \in rows : other.created_on <= Metrics!latest(rows).created_on
  <1> DEFINE S == {row.created_on : row \in rows}
  <1>1. S \in SUBSET (0 .. MaxDay) /\ S # {} /\ MaxDay \in Nat
    BY DEF Metrics!Rows, Metrics!Days, Metrics!Assumption
  <1>2. PICK m \in S : \A x \in S : x <= m
    <2> HIDE DEF S
    <2>1. QED BY <1>1, GreatestExists
  <1>3. PICK row \in rows : row.created_on = m
    OBVIOUS
  <1>4. \A other \in rows : other.created_on <= row.created_on
    BY <1>2, <1>3
  <1>5. QED BY <1>3, <1>4 DEF Metrics!latest

\* A piece of what get_metric finds: a metric, which is that of the row in effect on each
\* of its days.
IsPiece(piece, rows, ini, end) ==
  /\ piece.ini \in Metrics!Ends /\ piece.end \in Metrics!Ends
  /\ piece.end <= end
  /\ ini < end => piece.ini < piece.end /\ ini < piece.end
  /\ DOMAIN piece = {"ini", "end", "metric"}
  /\ \E row \in rows :
       /\ piece.metric = row.value
       /\ \A d \in Metrics!Ends : piece.ini <= d /\ d < piece.end => InEffect(row, rows, d)

LEMMA PiecesOfMetric ==
  ASSUME Metrics!Assumption, NEW rows \in SUBSET Metrics!Rows,
         NEW ini \in Metrics!Ends, NEW end \in Metrics!Ends, ~ Metrics!Raises(rows, ini, end),
         NEW piece \in Metrics!get_metric(rows, ini, end)
  PROVE  IsPiece(piece, rows, ini, end)
  <1> DEFINE before == Metrics!Before(rows, end)
             last == Metrics!latest(before)
  <1>1. MaxDay \in Nat /\ Period \in Nat \ {0} /\ \A row \in rows : row.created_on \in 0 .. MaxDay
    BY DEF Metrics!Assumption, Metrics!Rows, Metrics!Days
  <1>2. PICK first \in rows : first.created_on < end /\ first.created_on <= ini
    BY <1>1 DEF Metrics!Raises, Metrics!Before, Metrics!Ends
  <1>3. last \in before /\ \A other \in before : other.created_on <= last.created_on
    BY <1>2, LatestRow DEF Metrics!Before
  <1>4. last \in rows /\ last.created_on < end
    BY <1>3 DEF Metrics!Before
  <1>5. CASE piece = [ini |-> last.created_on, end |-> end, metric |-> last.value]
    <2>1. \A d \in Metrics!Ends : last.created_on <= d /\ d < end => InEffect(last, rows, d)
      <3> SUFFICES ASSUME NEW d \in Metrics!Ends, last.created_on <= d, d < end,
                          NEW other \in rows, other.created_on <= d
                   PROVE  other.created_on <= last.created_on
        BY <1>4 DEF InEffect
      <3>1. other \in before
        BY <1>1 DEF Metrics!Before, Metrics!Days, Metrics!Ends
      <3>2. QED BY <1>3, <3>1
    <2>2. piece.ini = last.created_on /\ piece.end = end /\ piece.metric = last.value
          /\ DOMAIN piece = {"ini", "end", "metric"}
      BY <1>5
    <2>3. last.created_on \in 0 .. MaxDay
      BY <1>1, <1>4
    <2> HIDE DEF last
    <2>4. QED BY <1>1, <1>4, <2>1, <2>2, <2>3 DEF IsPiece, Metrics!Ends
  <1>6. CASE piece \in Metrics!Changes(rows, ini, end)
    <2>1. PICK row \in before :
            LET previous == Metrics!latest(Metrics!Before(rows, row.created_on)) IN
            /\ row.created_on > ini
            /\ piece = [ini |-> Metrics!Max({previous.created_on, ini}), end |-> row.created_on,
                        metric |-> previous.value]
      BY <1>6 DEF Metrics!Changes
    <2> DEFINE earlier == Metrics!Before(rows, row.created_on)
               previous == Metrics!latest(earlier)
    <2>2. row \in rows /\ row.created_on \in 0 .. MaxDay /\ row.created_on < end /\ row.created_on > ini
      BY <1>1, <2>1 DEF Metrics!Before
    <2>3. first \in earlier
      BY <1>1, <1>2, <2>2 DEF Metrics!Before, Metrics!Ends
    <2>4. previous \in earlier /\ \A other \in earlier : other.created_on <= previous.created_on
      BY <2>3, LatestRow DEF Metrics!Before
    <2>5. previous \in rows /\ previous.created_on < row.created_on /\ previous.created_on \in 0 .. MaxDay
      BY <1>1, <2>4 DEF Metrics!Before
    <2>6. piece.end = row.created_on /\ piece.metric = previous.value
          /\ DOMAIN piece = {"ini", "end", "metric"}
          /\ piece.ini = (IF previous.created_on >= ini THEN previous.created_on ELSE ini)
      BY <2>1, <2>5, ExtremesOfTwo DEF Metrics!Ends
    <2>7. \A d \in Metrics!Ends : piece.ini <= d /\ d < piece.end => InEffect(previous, rows, d)
      <3> SUFFICES ASSUME NEW d \in Metrics!Ends, piece.ini <= d, d < piece.end
                   PROVE  InEffect(previous, rows, d)
        OBVIOUS
      <3>1. previous.created_on <= d /\ d < row.created_on
        BY <1>1, <2>2, <2>5, <2>6 DEF Metrics!Days, Metrics!Ends
      <3>2. \A other \in rows : other.created_on <= d => other \in earlier
        BY <1>1, <2>2, <3>1 DEF Metrics!Before, Metrics!Ends
      <3>3. QED BY <2>4, <2>5, <3>1, <3>2 DEF InEffect
    <2> HIDE DEF previous, earlier, before
    <2>8. QED BY <1>1, <2>2, <2>5, <2>6, <2>7 DEF IsPiece, Metrics!Ends
  <1>7. QED BY <1>5, <1>6 DEF Metrics!get_metric

\* Images of finite sets are finite.
LEMMA ImageIsFinite ==
  ASSUME NEW S, IsFiniteSet(S), NEW f, f = [x \in S |-> f[x]]
  PROVE  IsFiniteSet({f[x] : x \in S})
  <1> DEFINE T == {f[x] : x \in S}
  <1>1. f \in [S -> T] /\ \A t \in T : \E s \in S : f[s] = t
    OBVIOUS
  <1>2. f \in Surjection(S, T)
    BY <1>1 DEF Surjection
  <1>3. QED BY <1>2, FS_Surjection

LEMMA FinitePieces ==
  ASSUME NEW rows, IsFiniteSet(rows), NEW ini, NEW end
  PROVE  IsFiniteSet(Metrics!get_metric(rows, ini, end))
  <1> DEFINE some == {other \in Metrics!Before(rows, end) : other.created_on > ini}
             f == [row \in some |->
                     LET previous == Metrics!latest(Metrics!Before(rows, row.created_on)) IN
                     [ini |-> Metrics!Max({previous.created_on, ini}), end |-> row.created_on,
                      metric |-> previous.value]]
  <1>1. IsFiniteSet(some)
    <2>1. some \in SUBSET rows
      BY DEF Metrics!Before
    <2>2. QED BY <2>1, FS_Subset
  <1>2. Metrics!Changes(rows, ini, end) = {f[row] : row \in some}
    BY DEF Metrics!Changes
  <1>3. f = [row \in some |-> f[row]]
    OBVIOUS
  <1> HIDE DEF f, some
  <1>4. IsFiniteSet(Metrics!Changes(rows, ini, end))
    BY <1>1, <1>2, <1>3, ImageIsFinite
  <1>5. QED BY <1>4, FS_AddElement DEF Metrics!get_metric

LEMMA FiniteFrom ==
  ASSUME NEW pieces, IsFiniteSet(pieces), NEW ini
  PROVE  IsFiniteSet(Metrics!From(ini, pieces))
  <1> DEFINE f == [piece \in pieces |-> [piece EXCEPT !.ini = Metrics!Max({@, ini})]]
  <1>1. Metrics!From(ini, pieces) = {f[piece] : piece \in pieces} /\ f = [piece \in pieces |-> f[piece]]
    BY DEF Metrics!From
  <1> HIDE DEF f
  <1>2. QED BY <1>1, ImageIsFinite

LEMMA FiniteLines ==
  ASSUME NEW pieces, IsFiniteSet(pieces), NEW net
  PROVE  IsFiniteSet(Metrics!Lines(pieces, net))
  <1> DEFINE f == [piece \in pieces |->
                     [ini |-> piece.ini, end |-> piece.end, metric |-> piece.metric, net |-> net[piece]]]
  <1>1. Metrics!Lines(pieces, net) = {f[piece] : piece \in pieces} /\ f = [piece \in pieces |-> f[piece]]
    BY DEF Metrics!Lines
  <1> HIDE DEF f
  <1>2. QED BY <1>1, ImageIsFinite

\* What a piece of a metric is that begins later, if need be.
IsPieceFrom(piece, rows, ini, end, day) ==
  /\ piece.ini \in Metrics!Ends /\ piece.end \in Metrics!Ends /\ piece.metric \in Values
  /\ day <= piece.ini /\ piece.end <= end
  /\ ini < end => ini < piece.end
  /\ ini < end /\ day <= ini => piece.ini < piece.end
  /\ \E row \in rows :
       /\ piece.metric = row.value
       /\ \A d \in Metrics!Ends : piece.ini <= d /\ d < piece.end => InEffect(row, rows, d)

LEMMA FromPieces ==
  ASSUME Metrics!Assumption, NEW rows \in SUBSET Metrics!Rows,
         NEW ini \in Metrics!Ends, NEW end \in Metrics!Ends, ~ Metrics!Raises(rows, ini, end),
         NEW day \in Metrics!Ends, NEW piece \in Metrics!From(day, Metrics!get_metric(rows, ini, end))
  PROVE  IsPieceFrom(piece, rows, ini, end, day)
  <1>1. PICK all \in Metrics!get_metric(rows, ini, end) :
          piece = [all EXCEPT !.ini = Metrics!Max({@, day})]
    BY DEF Metrics!From
  <1>2. IsPiece(all, rows, ini, end)
    BY PiecesOfMetric
  <1>3. /\ all.ini \in Int /\ day \in Int /\ MaxDay \in Nat /\ Period \in Nat
        /\ DOMAIN all = {"ini", "end", "metric"}
    BY <1>2 DEF IsPiece, Metrics!Ends, Metrics!Assumption
  <1>4. /\ piece.ini = (IF all.ini >= day THEN all.ini ELSE day)
        /\ piece.end = all.end /\ piece.metric = all.metric
    BY <1>1, <1>3, ExtremesOfTwo
  <1>5. PICK row \in rows :
          /\ all.metric = row.value
          /\ \A d \in Metrics!Ends : all.ini <= d /\ d < all.end => InEffect(row, rows, d)
    BY <1>2 DEF IsPiece
  <1>6. row.value \in Values
    BY DEF Metrics!Rows
  <1>7. \A d \in Metrics!Ends : piece.ini <= d /\ d < piece.end => InEffect(row, rows, d)
    BY <1>3, <1>4, <1>5 DEF Metrics!Ends
  <1>8. QED BY <1>2, <1>3, <1>4, <1>5, <1>6, <1>7 DEF IsPiece, IsPieceFrom, Metrics!Ends

\* A line charges what was in effect.
LineTypes == [ini : Metrics!Ends, end : Metrics!Ends, metric : Values, net : Nat]
LineTrue(line, rows) ==
  \E row \in rows :
    /\ line.metric = row.value
    /\ \A d \in Metrics!Ends : line.ini <= d /\ d < line.end => InEffect(row, rows, d)

\* An order that was billed in advance.
BilledBefore(o) ==
  o.billed_on \in Metrics!Days /\ o.billed_until \in Metrics!Ends /\ o.billed_metric \in Values

\* What recharges are.
LEMMA RechargeLines ==
  ASSUME Metrics!Assumption, NEW o \in Metrics!OrderTypes, RowsInOrder(o), BilledBefore(o),
         NEW bp \in Metrics!Ends,
         ~ Metrics!Raises(o.metrics, o.billed_on, Metrics!Min({bp, o.billed_until}))
  PROVE  LET r == Metrics!Recharge(o, bp) IN
         /\ r.lines \subseteq LineTypes /\ IsFiniteSet(r.lines)
         /\ \A line \in r.lines : LineTrue(line, o.metrics)
         /\ r.until \in Metrics!Ends /\ r.until <= o.billed_until
  <1>1. /\ MaxDay \in Nat /\ Period \in Nat /\ Values \subseteq Nat /\ o.metrics \in SUBSET Metrics!Rows
        /\ o.billed_on \in Metrics!Ends /\ o.billed_on \in Int /\ o.billed_metric \in Nat
        /\ o.billed_until \in Int /\ bp \in Int
    <2>1. MaxDay \in Nat /\ Period \in Nat /\ Values \subseteq Nat
      BY DEF Metrics!Assumption
    <2>2. o.metrics \in SUBSET Metrics!Rows
      BY DEF Metrics!OrderTypes
    <2>3. o.billed_on \in Metrics!Ends /\ o.billed_on \in Int
      BY <2>1 DEF BilledBefore, Metrics!Days, Metrics!Ends
    <2>4. o.billed_until \in Int /\ bp \in Int
      BY <2>1 DEF BilledBefore, Metrics!Ends
    <2>5. o.billed_metric \in Nat
      BY <2>1 DEF BilledBefore
    <2>6. QED BY <2>1, <2>2, <2>3, <2>4, <2>5
  <1> DEFINE end == Metrics!Min({bp, o.billed_until})
             read == Metrics!get_metric(o.metrics, o.billed_on, end)
             pieces == Metrics!From(o.billed_on, read)
             discount == o.billed_metric * (end - o.billed_on)
             net == Metrics!Net(pieces, discount)
             charged == {piece \in pieces : net[piece] > 0}
             lines == Metrics!Lines(charged, net)
             until == IF charged = {} THEN end ELSE Metrics!Max({piece.end : piece \in charged})
  <1>2. end \in Metrics!Ends /\ end \in Int /\ end <= o.billed_until
    <2>1. end = IF bp <= o.billed_until THEN bp ELSE o.billed_until
      BY <1>1, ExtremesOfTwo
    <2>2. QED BY <1>1, <2>1 DEF BilledBefore, Metrics!Ends
  <1>3. IsFiniteSet(pieces)
    BY FinitePieces, FiniteFrom DEF RowsInOrder
  <1> HIDE DEF end
  <1>4. ASSUME NEW piece \in pieces
        PROVE  /\ piece.ini \in Metrics!Ends /\ piece.end \in Metrics!Ends /\ piece.metric \in Values
               /\ piece.end <= end /\ LineTrue(piece, o.metrics)
    <2>a. /\ end \in Metrics!Ends /\ o.billed_on \in Metrics!Ends /\ o.metrics \in SUBSET Metrics!Rows
          /\ ~ Metrics!Raises(o.metrics, o.billed_on, end)
          /\ piece \in Metrics!From(o.billed_on, Metrics!get_metric(o.metrics, o.billed_on, end))
      BY <1>1, <1>2 DEF end
    <2> HIDE DEF pieces
    <2>1. /\ piece.ini \in Metrics!Ends /\ piece.end \in Metrics!Ends /\ piece.metric \in Values
          /\ piece.end <= end
          /\ \E row \in o.metrics :
               /\ piece.metric = row.value
               /\ \A d \in Metrics!Ends : piece.ini <= d /\ d < piece.end => InEffect(row, o.metrics, d)
      BY <2>a, FromPieces DEF IsPieceFrom
    <2>2. QED BY <2>1 DEF LineTrue
  <1> HIDE DEF pieces
  <1>5. discount \in Int
    BY <1>1, <1>2
  <1> HIDE DEF discount
  <1>6. \A piece \in pieces : Metrics!Price(pieces)[piece] \in Int
    <2>a. ASSUME NEW piece \in pieces PROVE piece.metric \in Int
      <3>1. piece.metric \in Values
        BY <1>4
      <3>2. Values \subseteq Nat
        BY <1>1
      <3>3. piece.metric \in Nat
        BY <3>1, <3>2
      <3>4. QED BY <3>3
    <2>1. \A piece \in pieces : piece.metric \in Int /\ piece.end \in Int /\ piece.ini \in Int
      BY <1>1, <1>4, <2>a DEF Metrics!Ends
    <2>2. QED BY <2>1 DEF Metrics!Price
  <1>7. ASSUME NEW piece \in pieces PROVE net[piece] \in Int
    <2> DEFINE past == {other \in pieces : other.end <= piece.end}
               price == Metrics!Price(pieces)[piece]
               left == Metrics!Left(pieces, discount, piece)
               rest == left + price
               both == Metrics!Min({price, rest})
    <2>1. IsFiniteSet(past) /\ \A other \in past : Metrics!Price(pieces)[other] \in Int
      BY <1>3, <1>6, FS_Subset
    <2>2. Metrics!Total(Metrics!Price(pieces), past) \in Int
      BY <2>1, TotalIsInt
    <2>3. left \in Int /\ price \in Int
      BY <1>5, <1>6, <2>2 DEF Metrics!Left
    <2>4. net[piece] = price - Metrics!Max({0, both})
      BY DEF Metrics!Net
    <2> HIDE DEF left, price, net
    <2>b. rest \in Int
      BY <2>3
    <2> HIDE DEF rest
    <2>5. both \in Int
      BY <2>3, <2>b, ExtremesOfTwo
    <2> HIDE DEF both
    <2>6. Metrics!Max({0, both}) \in Int
      BY <2>5, ExtremesOfTwo
    <2>7. QED BY <2>3, <2>4, <2>6
  <1> HIDE DEF net
  <1>8. charged \in SUBSET pieces /\ IsFiniteSet(charged)
    BY <1>3, FS_Subset
  <1>9. \A piece \in charged : net[piece] \in Nat
    BY <1>7
  <1> HIDE DEF charged
  <1>10. lines \subseteq LineTypes /\ IsFiniteSet(lines) /\ \A line \in lines : LineTrue(line, o.metrics)
    <2>1. IsFiniteSet(lines)
      BY <1>8, FiniteLines
    <2>2. ASSUME NEW line \in lines PROVE line \in LineTypes /\ LineTrue(line, o.metrics)
      <3>1. PICK piece \in charged :
              line = [ini |-> piece.ini, end |-> piece.end, metric |-> piece.metric, net |-> net[piece]]
        BY DEF Metrics!Lines
      <3>2. piece \in pieces /\ net[piece] \in Nat
        BY <1>8, <1>9
      <3>3. LineTrue(piece, o.metrics)
        BY <1>4, <3>2
      <3>4. LineTrue(line, o.metrics)
        BY <3>1, <3>3 DEF LineTrue
      <3>5. line \in LineTypes
        BY <1>4, <3>1, <3>2 DEF LineTypes
      <3>6. QED BY <3>4, <3>5
    <2> HIDE DEF lines
    <2>3. QED BY <2>1, <2>2
  <1>11. until \in Metrics!Ends /\ until <= o.billed_until
    <2>1. CASE charged = {}
      BY <1>2, <2>1
    <2>2. CASE charged # {}
      <3> DEFINE S == {piece.end : piece \in charged}
      <3>1. S \in SUBSET (0 .. MaxDay + Period) /\ S # {} /\ MaxDay + Period \in Nat
        BY <1>1, <1>4, <1>8, <2>2 DEF Metrics!Ends
      <3> HIDE DEF S
      <3>2. Metrics!Max(S) \in S
        BY <3>1, GreatestNumber
      <3>3. PICK piece \in charged : Metrics!Max(S) = piece.end
        BY <3>2 DEF S
      <3>4. piece \in pieces
        BY <1>8
      <3>5. until = piece.end
        BY <2>2, <3>3 DEF S
      <3>6. QED BY <1>1, <1>2, <1>4, <3>4, <3>5 DEF Metrics!Ends
    <2>3. QED BY <2>1, <2>2
  <1> HIDE DEF lines, until
  <1>12. CASE Metrics!Total(Metrics!Price(pieces), pieces) > discount
    <2>1. Metrics!Recharge(o, bp) = [lines |-> lines, until |-> until]
      BY <1>12 DEF Metrics!Recharge, lines, until, charged, net, discount, pieces, end
    <2>2. QED BY <1>10, <1>11, <2>1
  <1>13. CASE ~ (Metrics!Total(Metrics!Price(pieces), pieces) > discount)
    <2>1. Metrics!Recharge(o, bp) = [lines |-> {}, until |-> 0]
      BY <1>13 DEF Metrics!Recharge, Metrics!NoLines, discount, pieces, end
    <2>2. 0 \in Metrics!Ends /\ 0 <= o.billed_until
      BY <1>1 DEF BilledBefore, Metrics!Ends
    <2>3. QED BY <2>1, <2>2, FS_EmptySet
  <1>14. QED BY <1>12, <1>13

LEMMA ProductIsNat ==
  ASSUME NEW a \in Nat, NEW b \in Nat
  PROVE  a * b \in Nat
  OBVIOUS

\* What a charge is.
LEMMA ChargeLines ==
  ASSUME Metrics!Assumption, NEW o \in Metrics!OrderTypes, RowsInOrder(o), BilledTogether(o),
         NEW bp \in Metrics!Ends, ~ Metrics!ChargeRaises(o, bp)
  PROVE  LET c == Metrics!Charge(o, bp) IN
         /\ c \in Metrics!Charges /\ IsFiniteSet(c.lines)
         /\ \A line \in c.lines : LineTrue(line, o.metrics)
         /\ c.lines # {} => c.billed_until # None /\ c.billed_metric # None
  <1>1. /\ MaxDay \in Nat /\ Period \in Nat /\ Values \subseteq Nat /\ None \notin Nat
    BY DEF Metrics!Assumption
  <1>2. /\ o.metrics \in SUBSET Metrics!Rows /\ o.registered_on \in Metrics!Days
        /\ o.billed_on \in Metrics!Days \cup {None} /\ o.billed_until \in Metrics!Ends \cup {None}
        /\ o.billed_metric \in Values \cup {None}
    BY DEF Metrics!OrderTypes
  <1>0. \A d \in 0 .. MaxDay : d \in 0 .. MaxDay + Period
    BY <1>1
  <1>3. Metrics!Days \subseteq Metrics!Ends /\ Metrics!Ends \subseteq Nat /\ 0 \in Metrics!Ends
    BY <1>0, <1>1 DEF Metrics!Days, Metrics!Ends
  <1> DEFINE ini == Metrics!Begins(o)
             recharge == IF Metrics!Recharges(o) THEN Metrics!Recharge(o, bp) ELSE Metrics!NoLines
             pieces == Metrics!From(recharge.until, Metrics!get_metric(o.metrics, ini, bp))
             charged == {piece \in pieces : piece.metric > 0}
             lines == Metrics!Lines(charged, Metrics!Price(charged))
             last == Metrics!latest(Metrics!Before(o.metrics, bp))
  <1>4. ini \in Metrics!Ends
    BY <1>2, <1>3 DEF Metrics!Begins
  <1>5. /\ recharge.lines \subseteq LineTypes /\ IsFiniteSet(recharge.lines)
        /\ \A line \in recharge.lines : LineTrue(line, o.metrics)
        /\ recharge.until \in Metrics!Ends /\ recharge.until <= ini
        /\ recharge.lines # {} => o.billed_until # None /\ o.billed_metric # None
    <2>1. CASE Metrics!Recharges(o)
      <3>1. BilledBefore(o) /\ o.billed_until # None /\ o.billed_metric # None
        BY <1>2, <2>1 DEF Metrics!Recharges, BilledTogether, BilledBefore
      <3>2. ~ Metrics!Raises(o.metrics, o.billed_on, Metrics!Min({bp, o.billed_until}))
        BY <2>1 DEF Metrics!ChargeRaises
      <3> DEFINE r == Metrics!Recharge(o, bp)
      <3>3. /\ r.lines \subseteq LineTypes /\ IsFiniteSet(r.lines)
            /\ \A line \in r.lines : LineTrue(line, o.metrics)
            /\ r.until \in Metrics!Ends /\ r.until <= o.billed_until
        BY <3>1, <3>2, RechargeLines
      <3>4. ini = o.billed_until /\ recharge = r
        BY <2>1, <3>1 DEF Metrics!Begins
      <3> HIDE DEF r, ini, recharge
      <3>5. QED BY <3>1, <3>3, <3>4
    <2>2. CASE ~ Metrics!Recharges(o)
      <3>1. recharge.lines = {} /\ recharge.until = 0
        BY <2>2 DEF Metrics!NoLines
      <3> HIDE DEF recharge, ini
      <3>2. 0 <= ini
        BY <1>3, <1>4
      <3>3. QED BY <1>3, <1>4, <3>1, <3>2, FS_EmptySet
    <2>3. QED BY <2>1, <2>2
  <1> HIDE DEF recharge, ini
  <1>6. CASE Metrics!IsBilled(o, bp)
    <2>1. Metrics!Charge(o, bp)
            = [lines |-> recharge.lines, billed_until |-> o.billed_until, billed_metric |-> o.billed_metric]
      BY <1>6 DEF Metrics!Charge, recharge
    <2>2. Metrics!Charge(o, bp) \in Metrics!Charges
      BY <1>2, <1>5, <2>1 DEF Metrics!Charges, LineTypes
    <2>3. QED BY <1>5, <2>1, <2>2
  <1>7. CASE ~ Metrics!IsBilled(o, bp)
    <2>0. ini \in Nat /\ bp \in Nat
      BY <1>3, <1>4
    <2>1. ini < bp
      <3>1. ~ (bp <= ini)
        BY <1>7 DEF Metrics!IsBilled, ini
      <3>2. QED BY <2>0, <3>1
    <2>2. ~ Metrics!Raises(o.metrics, ini, bp)
      BY <1>7 DEF Metrics!ChargeRaises, ini
    <2>3. last \in o.metrics /\ last.value \in Values
      <3>1. Metrics!Before(o.metrics, bp) # {} /\ Metrics!Before(o.metrics, bp) \in SUBSET o.metrics
        BY <2>2 DEF Metrics!Raises, Metrics!Before
      <3>2. last \in o.metrics
        BY <1>2, <3>1, LatestRow
      <3> HIDE DEF last
      <3>3. QED BY <1>2, <3>2 DEF Metrics!Rows
    <2> HIDE DEF last
    <2>4. IsFiniteSet(charged) /\ charged \in SUBSET pieces
      <3>1. IsFiniteSet(pieces)
        BY FinitePieces, FiniteFrom DEF RowsInOrder
      <3> HIDE DEF pieces
      <3>2. QED BY <3>1, FS_Subset
    <2>5. ASSUME NEW piece \in charged
          PROVE  /\ piece.ini \in Metrics!Ends /\ piece.end \in Metrics!Ends /\ piece.metric \in Values
                 /\ piece.ini < piece.end
                 /\ \E row \in o.metrics :
                      /\ piece.metric = row.value
                      /\ \A d \in Metrics!Ends : piece.ini <= d /\ d < piece.end => InEffect(row, o.metrics, d)
      <3>1. piece \in Metrics!From(recharge.until, Metrics!get_metric(o.metrics, ini, bp))
        BY <2>4
      <3> HIDE DEF charged, pieces
      <3>2. PICK day : day = recharge.until
        OBVIOUS
      <3>3. /\ day \in Metrics!Ends /\ day <= ini /\ o.metrics \in SUBSET Metrics!Rows
            /\ piece \in Metrics!From(day, Metrics!get_metric(o.metrics, ini, bp))
        BY <1>2, <1>5, <3>1, <3>2
      <3>4. QED BY <1>4, <2>1, <2>2, <3>3, FromPieces DEF IsPieceFrom
    <2> HIDE DEF charged
    <2>6. \A piece \in charged : Metrics!Price(charged)[piece] \in Nat
      <3> SUFFICES ASSUME NEW piece \in charged PROVE Metrics!Price(charged)[piece] \in Nat
        OBVIOUS
      <3>1. piece.metric \in Nat /\ piece.ini \in Nat /\ piece.end \in Nat /\ piece.ini < piece.end
        BY <1>1, <1>3, <2>5
      <3>2. piece.end - piece.ini \in Nat
        BY <3>1
      <3>3. piece.metric * (piece.end - piece.ini) \in Nat
        BY <3>1, <3>2, ProductIsNat
      <3>4. QED BY <3>3 DEF Metrics!Price
    <2>7. lines \subseteq LineTypes /\ IsFiniteSet(lines) /\ \A line \in lines : LineTrue(line, o.metrics)
      <3>1. IsFiniteSet(lines)
        BY <2>4, FiniteLines
      <3>2. ASSUME NEW line \in lines PROVE line \in LineTypes /\ LineTrue(line, o.metrics)
        <4>1. PICK piece \in charged :
                line = [ini |-> piece.ini, end |-> piece.end, metric |-> piece.metric,
                        net |-> Metrics!Price(charged)[piece]]
          BY DEF Metrics!Lines
        <4>2. LineTrue(line, o.metrics)
          BY <2>5, <4>1 DEF LineTrue
        <4>3. line \in LineTypes
          BY <2>5, <2>6, <4>1 DEF LineTypes
        <4>4. QED BY <4>2, <4>3
      <3> HIDE DEF lines
      <3>3. QED BY <3>1, <3>2
    <2>8. Metrics!Charge(o, bp)
            = [lines |-> recharge.lines \cup lines, billed_until |-> bp, billed_metric |-> last.value]
      BY <1>7 DEF Metrics!Charge, recharge, charged, last, ini
    <2> HIDE DEF lines
    <2>9. IsFiniteSet(recharge.lines \cup lines)
      BY <1>5, <2>7, FS_Union
    <2>10. Metrics!Charge(o, bp) \in Metrics!Charges
      BY <1>5, <2>3, <2>7, <2>8 DEF Metrics!Charges, LineTypes
    <2>11. bp # None /\ last.value # None
      BY <1>1, <1>3, <2>3
    <2>12. QED BY <1>5, <2>7, <2>8, <2>9, <2>10, <2>11
  <1>8. QED BY <1>6, <1>7

\* The last row of an order follows all others.
LEMMA LastRowFollows ==
  ASSUME Metrics!Assumption, NEW o, o.metrics \in SUBSET Metrics!Rows, RowsInOrder(o)
  PROVE  LET last == Metrics!latest(o.metrics) IN
         /\ last \in o.metrics
         /\ last \in Metrics!Rows
         /\ \A other \in o.metrics : other # last => Follows(last, other)
  <1>1. /\ Metrics!latest(o.metrics) \in o.metrics
        /\ \A other \in o.metrics : other.created_on <= Metrics!latest(o.metrics).created_on
    BY LatestRow DEF RowsInOrder
  <1> DEFINE last == Metrics!latest(o.metrics)
  <1> HIDE DEF last
  <1>2. last \in o.metrics /\ \A other \in o.metrics : other.created_on <= last.created_on
    BY <1>1 DEF last
  <1>3. ASSUME NEW other \in o.metrics, other # last PROVE Follows(last, other)
    <2>1. Follows(last, other) \/ Follows(other, last)
      BY <1>2, <1>3 DEF RowsInOrder
    <2>2. other.created_on \in Nat /\ last.created_on \in Nat
      BY <1>2 DEF Metrics!Rows, Metrics!Days, Metrics!Assumption
    <2>3. QED BY <1>2, <2>1, <2>2 DEF Follows
  <1>4. QED BY <1>2, <1>3 DEF last

\* What storing does: the last row is seen again, with some value, or a row is added.
SeenAgain(last, value) == [created_on |-> last.created_on, updated_on |-> today, value |-> value]
LEMMA StoreCases ==
  ASSUME Metrics!Assumption, NEW o, o.metrics \in SUBSET Metrics!Rows, RowsInOrder(o), NEW value
  PROVE  LET last == Metrics!latest(o.metrics)
             new == Metrics!Store(o.metrics, value)
             rest == o.metrics \ {last} IN
         \/ last.created_on = today /\ new = rest \cup {SeenAgain(last, value)}
         \/ /\ last.created_on # today /\ ~ Metrics!Differs(value, last.value)
            /\ new = rest \cup {SeenAgain(last, last.value)}
         \/ last.created_on # today /\ new = o.metrics \cup {Metrics!Stored(value)}
  <1> DEFINE last == Metrics!latest(o.metrics)
  <1>1. last \in Metrics!Rows /\ o.metrics # {}
    BY LastRowFollows DEF RowsInOrder
  <1>2. ASSUME NEW v
        PROVE  Metrics!Updated(o.metrics, v) = (o.metrics \ {last}) \cup {SeenAgain(last, v)}
    <2>1. [last EXCEPT !.value = v, !.updated_on = today] = SeenAgain(last, v)
      <3> HIDE DEF last
      <3>1. last = [created_on |-> last.created_on, updated_on |-> last.updated_on, value |-> last.value]
        BY <1>1 DEF Metrics!Rows
      <3>2. PICK c, u, w : last = [created_on |-> c, updated_on |-> u, value |-> w]
        BY <3>1
      <3> DEFINE a == [last EXCEPT !.value = v]
      <3>3. a = [created_on |-> c, updated_on |-> u, value |-> v]
        BY <3>2
      <3>4. [last EXCEPT !.value = v, !.updated_on = today] = [a EXCEPT !.updated_on = today]
        BY <3>2
      <3>5. last.created_on = c
        BY <3>2
      <3> HIDE DEF a
      <3>6. [a EXCEPT !.updated_on = today] = [created_on |-> c, updated_on |-> today, value |-> v]
        BY <3>3
      <3>7. QED BY <3>4, <3>5, <3>6 DEF SeenAgain
    <2>2. QED BY <2>1 DEF Metrics!Updated
  <1>3. Metrics!Store(o.metrics, value) =
          IF last.created_on = today THEN Metrics!Updated(o.metrics, value)
          ELSE IF Metrics!Differs(value, last.value) THEN o.metrics \cup {Metrics!Stored(value)}
          ELSE Metrics!Updated(o.metrics, last.value)
    BY <1>1 DEF Metrics!Store
  <1> HIDE DEF last
  <1>4. QED BY <1>2, <1>3 DEF last

\* Rows of which the last was seen again, with a value, are in order and in effect as before.
SeesAgain(n, o, last, v) ==
  /\ n.metrics \in SUBSET Metrics!Rows
  /\ RowsInOrder(n)
  /\ \A row \in o.metrics : \E other \in n.metrics : other.created_on = row.created_on
  /\ \A row \in n.metrics, d \in Metrics!Days : InEffect(row, n.metrics, d) =>
       \/ InEffect(row, o.metrics, d)
       \/ row = SeenAgain(last, v) /\ InEffect(last, o.metrics, d)
  /\ \A row \in n.metrics : InEffect(row, n.metrics, today) => row = SeenAgain(last, v)

\* Seeing the last row again keeps rows in order; before today the same are in effect.
LEMMA SeenAgainRows ==
  ASSUME Metrics!Assumption, today \in Metrics!Days,
         NEW o, o.metrics \in SUBSET Metrics!Rows, o.registered_on \in Metrics!Days, RowsInOrder(o),
         NEW n, n.registered_on = o.registered_on, NEW v \in Values,
         n.metrics = (o.metrics \ {Metrics!latest(o.metrics)})
                        \cup {SeenAgain(Metrics!latest(o.metrics), v)}
  PROVE  SeesAgain(n, o, Metrics!latest(o.metrics), v)
  <1> DEFINE last == Metrics!latest(o.metrics)
             seen == SeenAgain(last, v)
  <1>1. /\ last \in o.metrics /\ last \in Metrics!Rows
        /\ \A other \in o.metrics : other # last => Follows(last, other)
    BY LastRowFollows
  <1> HIDE DEF last
  <1>2. seen.created_on = last.created_on /\ seen.updated_on = today /\ seen.value = v
    BY DEF SeenAgain
  <1>3. seen \in Metrics!Rows
    BY <1>1 DEF Metrics!Rows, SeenAgain
  <1> HIDE DEF seen
  <1>4. n.metrics = (o.metrics \ {last}) \cup {seen}
    BY DEF last, seen
  <1>5. today \in Nat /\ o.registered_on \in Nat
        /\ \A row \in o.metrics : row.created_on \in Nat /\ row.updated_on \in Nat
    BY DEF Metrics!Assumption, Metrics!Days, Metrics!Rows
  <1>6. last.created_on \in Nat /\ last.created_on <= today
    <2>1. last.created_on \in Nat /\ last.updated_on \in Nat
      BY <1>1, <1>5
    <2>2. last.created_on <= last.updated_on /\ last.updated_on <= today
      BY <1>1 DEF RowsInOrder
    <2>3. QED BY <1>5, <2>1, <2>2
  <1>7. RowsInOrder(n)
    <2>1. IsFiniteSet(n.metrics) /\ n.metrics # {}
      <3>1. IsFiniteSet(o.metrics \ {last})
        BY FS_Subset DEF RowsInOrder
      <3>2. QED BY <1>4, <3>1, FS_AddElement
    <2>2. ASSUME NEW row \in n.metrics
          PROVE  /\ n.registered_on <= row.created_on /\ row.created_on <= row.updated_on
                 /\ row.updated_on <= today
      <3>1. CASE row = seen
        BY <1>1, <1>2, <1>5, <1>6, <3>1 DEF RowsInOrder
      <3>2. CASE row \in o.metrics
        BY <3>2 DEF RowsInOrder
      <3>3. QED BY <1>4, <3>1, <3>2
    <2>3. ASSUME NEW row \in n.metrics, NEW other \in n.metrics \ {row}
          PROVE  Follows(row, other) \/ Follows(other, row)
      <3>1. CASE row = seen
        <4>1. Follows(last, other)
          BY <1>1, <1>4, <3>1
        <4>2. QED BY <1>2, <3>1, <4>1 DEF Follows
      <3>2. CASE other = seen
        <4>1. Follows(last, row)
          BY <1>1, <1>4, <3>2
        <4>2. QED BY <1>2, <3>2, <4>1 DEF Follows
      <3>3. CASE row # seen /\ other # seen
        BY <1>4, <3>3 DEF RowsInOrder
      <3>4. QED BY <3>1, <3>2, <3>3
    <2>4. QED BY <2>1, <2>2, <2>3 DEF RowsInOrder
  <1>8. \A row \in o.metrics : \E other \in n.metrics : other.created_on = row.created_on
    BY <1>2, <1>4
  <1>9. ASSUME NEW row \in n.metrics, NEW d \in Metrics!Days, InEffect(row, n.metrics, d)
        PROVE  InEffect(row, o.metrics, d) \/ (row = seen /\ InEffect(last, o.metrics, d))
    <2>1. row.created_on <= d /\ \A other \in n.metrics : other.created_on <= d => other.created_on <= row.created_on
      BY <1>9 DEF InEffect
    <2>2. \A other \in o.metrics : other.created_on <= d => other.created_on <= row.created_on
      BY <1>2, <1>4, <2>1
    <2>3. QED BY <1>1, <1>2, <1>4, <2>1, <2>2 DEF InEffect
  <1>10. ASSUME NEW row \in n.metrics, InEffect(row, n.metrics, today)
         PROVE  row = seen
    <2>1. seen.created_on <= row.created_on
      BY <1>2, <1>4, <1>6, <1>10 DEF InEffect
    <2>2. row # seen => row \in o.metrics /\ row.created_on < last.created_on
      BY <1>1, <1>4 DEF Follows
    <2>3. QED BY <1>2, <1>4, <1>5, <1>6, <2>1, <2>2
  <1>11. n.metrics \in SUBSET Metrics!Rows
    BY <1>3, <1>4
  <1>12. SeesAgain(n, o, last, v)
    BY <1>7, <1>8, <1>9, <1>10, <1>11 DEF SeesAgain, seen
  <1>13. QED BY <1>12 DEF last

\* Storing keeps rows in order and their days; before today the same is in effect, and
\* today about what was stored.
LEMMA StoreRows ==
  ASSUME Metrics!Assumption, today \in Metrics!Days,
         NEW o, o.metrics \in SUBSET Metrics!Rows, o.registered_on \in Metrics!Days, RowsInOrder(o),
         NEW value \in Values,
         NEW n, n.registered_on = o.registered_on, n.metrics = Metrics!Store(o.metrics, value)
  PROVE  /\ n.metrics \in SUBSET Metrics!Rows
         /\ RowsInOrder(n)
         /\ \A row \in o.metrics : \E other \in n.metrics : other.created_on = row.created_on
         /\ \A row \in n.metrics, d \in Metrics!Days : d < today /\ InEffect(row, n.metrics, d) =>
              \E old \in o.metrics : InEffect(old, o.metrics, d) /\ old.value = row.value
         /\ \A row \in n.metrics : InEffect(row, n.metrics, today) => Metrics!Near(row.value, value)
  <1> DEFINE last == Metrics!latest(o.metrics)
             new == Metrics!Stored(value)
  <1>1. /\ last \in o.metrics /\ last \in Metrics!Rows
        /\ \A other \in o.metrics : other # last => Follows(last, other)
    BY LastRowFollows
  <1>2. /\ today \in Nat /\ Error \in Nat /\ Values \subseteq Nat /\ o.registered_on \in Nat
        /\ \A row \in o.metrics :
             row.created_on \in Nat /\ row.updated_on \in Nat /\ row.value \in Values
    BY DEF Metrics!Assumption, Metrics!Days, Metrics!Rows
  <1>3. /\ last.created_on \in Nat /\ last.updated_on \in Nat /\ last.value \in Nat /\ value \in Nat
        /\ last.created_on <= last.updated_on /\ last.updated_on <= today /\ last.created_on <= today
    <2>1. /\ last.created_on \in Nat /\ last.updated_on \in Nat /\ last.value \in Nat /\ value \in Nat
      BY <1>1, <1>2
    <2>2. last.created_on <= last.updated_on /\ last.updated_on <= today
      BY <1>1 DEF RowsInOrder
    <2>3. QED BY <1>2, <2>1, <2>2
  <1>4. last.value \in Values
    BY <1>1, <1>2
  <1>5. \/ last.created_on = today /\ n.metrics = (o.metrics \ {last}) \cup {SeenAgain(last, value)}
        \/ /\ last.created_on # today /\ ~ Metrics!Differs(value, last.value)
           /\ n.metrics = (o.metrics \ {last}) \cup {SeenAgain(last, last.value)}
        \/ last.created_on # today /\ n.metrics = o.metrics \cup {new}
    BY StoreCases
  <1> HIDE DEF last, new
  <1>6. CASE last.created_on = today /\ n.metrics = (o.metrics \ {last}) \cup {SeenAgain(last, value)}
    <2>1. /\ n.metrics \in SUBSET Metrics!Rows /\ RowsInOrder(n)
          /\ \A row \in o.metrics : \E other \in n.metrics : other.created_on = row.created_on
          /\ \A row \in n.metrics, d \in Metrics!Days : InEffect(row, n.metrics, d) =>
               \/ InEffect(row, o.metrics, d)
               \/ row = SeenAgain(last, value) /\ InEffect(last, o.metrics, d)
          /\ \A row \in n.metrics : InEffect(row, n.metrics, today) => row = SeenAgain(last, value)
      <3>1. SeesAgain(n, o, last, value)
        BY <1>6, SeenAgainRows DEF last
      <3>2. QED BY <3>1 DEF SeesAgain
    <2>2. ASSUME NEW row \in n.metrics, NEW d \in Metrics!Days, d < today, InEffect(row, n.metrics, d)
          PROVE  \E old \in o.metrics : InEffect(old, o.metrics, d) /\ old.value = row.value
      <3>1. d \in Nat
        BY DEF Metrics!Days, Metrics!Assumption
      <3>2. ~ InEffect(last, o.metrics, d)
        BY <1>2, <1>6, <2>2, <3>1 DEF InEffect
      <3>3. InEffect(row, o.metrics, d)
        BY <2>1, <2>2, <3>2
      <3>4. QED BY <3>3 DEF InEffect
    <2>3. SeenAgain(last, value).value = value /\ Metrics!Near(value, value)
      BY <1>2, <1>3 DEF SeenAgain, Metrics!Near
    <2>4. QED BY <2>1, <2>2, <2>3
  <1>7. CASE /\ last.created_on # today /\ ~ Metrics!Differs(value, last.value)
             /\ n.metrics = (o.metrics \ {last}) \cup {SeenAgain(last, last.value)}
    <2> DEFINE v == last.value
    <2>0. v \in Values /\ n.metrics = (o.metrics \ {last}) \cup {SeenAgain(last, v)}
      BY <1>4, <1>7
    <2> HIDE DEF v
    <2>1. /\ n.metrics \in SUBSET Metrics!Rows /\ RowsInOrder(n)
          /\ \A row \in o.metrics : \E other \in n.metrics : other.created_on = row.created_on
          /\ \A row \in n.metrics, d \in Metrics!Days : InEffect(row, n.metrics, d) =>
               \/ InEffect(row, o.metrics, d)
               \/ row = SeenAgain(last, v) /\ InEffect(last, o.metrics, d)
          /\ \A row \in n.metrics : InEffect(row, n.metrics, today) => row = SeenAgain(last, v)
      <3>1. SeesAgain(n, o, last, v)
        BY <2>0, SeenAgainRows DEF last
      <3>2. QED BY <3>1 DEF SeesAgain
    <2> USE DEF v
    <2>2. SeenAgain(last, last.value).value = last.value
      BY DEF SeenAgain
    <2>3. Metrics!Near(last.value, value)
      BY <1>2, <1>3, <1>7 DEF Metrics!Near, Metrics!Differs
    <2>4. ASSUME NEW row \in n.metrics, NEW d \in Metrics!Days, InEffect(row, n.metrics, d)
          PROVE  \E old \in o.metrics : InEffect(old, o.metrics, d) /\ old.value = row.value
      <3>1. CASE InEffect(row, o.metrics, d)
        BY <3>1 DEF InEffect
      <3>2. CASE row = SeenAgain(last, last.value) /\ InEffect(last, o.metrics, d)
        BY <1>1, <2>2, <3>2
      <3>3. QED BY <2>1, <2>4, <3>1, <3>2
    <2>5. QED BY <2>1, <2>2, <2>3, <2>4
  <1>8. CASE last.created_on # today /\ n.metrics = o.metrics \cup {new}
    <2>1. new.created_on = today /\ new.updated_on = today /\ new.value = value
      BY DEF new, Metrics!Stored
    <2>2. new \in Metrics!Rows
      BY DEF new, Metrics!Stored, Metrics!Rows
    <2>3. last.created_on < today
      BY <1>2, <1>3, <1>8
    <2>4. \A row \in o.metrics : Follows(new, row)
      <3> SUFFICES ASSUME NEW row \in o.metrics PROVE Follows(new, row)
        OBVIOUS
      <3>1. row.updated_on <= today
        BY DEF RowsInOrder
      <3>2. row.created_on < today
        BY <1>1, <1>2, <1>3, <2>3 DEF Follows
      <3>3. QED BY <2>1, <3>1, <3>2 DEF Follows
    <2>5. RowsInOrder(n)
      <3>1. IsFiniteSet(n.metrics) /\ n.metrics # {}
        BY <1>8, FS_AddElement DEF RowsInOrder
      <3>2. ASSUME NEW row \in n.metrics
            PROVE  /\ n.registered_on <= row.created_on /\ row.created_on <= row.updated_on
                   /\ row.updated_on <= today
        <4>1. CASE row = new
          <5>1. o.registered_on <= last.created_on
            BY <1>1 DEF RowsInOrder
          <5>2. QED BY <1>2, <1>3, <2>1, <4>1, <5>1
        <4>2. CASE row \in o.metrics
          BY <4>2 DEF RowsInOrder
        <4>3. QED BY <1>8, <4>1, <4>2
      <3>3. ASSUME NEW row \in n.metrics, NEW other \in n.metrics \ {row}
            PROVE  Follows(row, other) \/ Follows(other, row)
        <4>1. CASE row = new \/ other = new
          BY <1>8, <2>4, <4>1
        <4>2. CASE row # new /\ other # new
          BY <1>8, <4>2 DEF RowsInOrder
        <4>3. QED BY <4>1, <4>2
      <3>4. QED BY <3>1, <3>2, <3>3 DEF RowsInOrder
    <2>6. ASSUME NEW row \in n.metrics, NEW d \in Metrics!Days, d < today, InEffect(row, n.metrics, d)
          PROVE  InEffect(row, o.metrics, d)
      <3>1. d \in Nat
        BY DEF Metrics!Days, Metrics!Assumption
      <3>2. row # new
        BY <1>2, <2>1, <2>6, <3>1 DEF InEffect
      <3>3. QED BY <1>8, <2>6, <3>2 DEF InEffect
    <2>7. ASSUME NEW row \in n.metrics, InEffect(row, n.metrics, today) PROVE row = new
      <3>1. today <= row.created_on
        BY <1>2, <1>8, <2>1, <2>7 DEF InEffect
      <3>2. row # new => row.created_on < today
        BY <1>8, <2>1, <2>4 DEF Follows
      <3>3. QED BY <1>2, <1>8, <3>1, <3>2
    <2>8. Metrics!Near(value, value)
      BY <1>2, <1>3 DEF Metrics!Near
    <2>9. \A row \in n.metrics, d \in Metrics!Days : d < today /\ InEffect(row, n.metrics, d) =>
            \E old \in o.metrics : InEffect(old, o.metrics, d) /\ old.value = row.value
      BY <2>6 DEF InEffect
    <2>10. n.metrics \in SUBSET Metrics!Rows
      BY <1>8, <2>2
    <2>11. QED BY <1>8, <2>1, <2>5, <2>7, <2>8, <2>9, <2>10
  <1>9. QED BY <1>5, <1>6, <1>7, <1>8

\* What remains of rows after a cleanup are the last ones, one of which is older, if
\* any was deleted.
LEMMA KeptRows ==
  ASSUME Metrics!Assumption,
         NEW o, o.metrics \in SUBSET Metrics!Rows, RowsInOrder(o), NEW epoch \in Int,
         NEW n, n.registered_on = o.registered_on, n.metrics = Metrics!KeepLatest(o.metrics, epoch)
  PROVE  /\ n.metrics \in SUBSET o.metrics
         /\ RowsInOrder(n)
         /\ \A row \in n.metrics, d \in Metrics!Days :
              InEffect(row, n.metrics, d) => InEffect(row, o.metrics, d)
         /\ n.metrics = o.metrics \/ \E row \in n.metrics : row.created_on < epoch
  <1> DEFINE older == {row \in o.metrics : row.updated_on < epoch}
             last == Metrics!latest(older)
  <1>1. \A row \in o.metrics : row.created_on \in Nat /\ row.updated_on \in Nat
    BY DEF Metrics!Assumption, Metrics!Days, Metrics!Rows
  <1>2. n.metrics = {row \in o.metrics : row.updated_on >= epoch \/ row = last}
    BY DEF Metrics!KeepLatest
  <1>3. older # {} => last \in older /\ \A other \in older : other.created_on <= last.created_on
    <2>1. older \in SUBSET Metrics!Rows
      OBVIOUS
    <2> HIDE DEF older
    <2>2. QED BY <2>1, LatestRow
  <1>4. \A row \in o.metrics : row \notin older => row.updated_on >= epoch
    BY <1>1
  <1> HIDE DEF last
  <1>5. \A row \in n.metrics : row.updated_on >= epoch \/ (row = last /\ row \in older)
    <2> SUFFICES ASSUME NEW row \in n.metrics, ~ (row.updated_on >= epoch)
                 PROVE  row = last /\ row \in older
      OBVIOUS
    <2>1. row \in o.metrics /\ row = last
      BY <1>2
    <2>2. QED BY <1>4, <2>1
  <1>6. n.metrics \in SUBSET o.metrics /\ n.metrics # {}
    <2>1. CASE older = {}
      <3>1. \A row \in o.metrics : row.updated_on >= epoch
        BY <1>4, <2>1
      <3>2. QED BY <1>2, <3>1 DEF RowsInOrder
    <2>2. CASE older # {}
      BY <1>2, <1>3, <2>2
    <2>3. QED BY <2>1, <2>2
  <1>7. \A row \in o.metrics : row.created_on <= row.updated_on
    BY DEF RowsInOrder
  <1>8. ASSUME NEW row \in n.metrics, NEW other \in o.metrics, row.created_on < other.created_on
        PROVE  other \in n.metrics
    <2>1. row \in o.metrics /\ row # other
      BY <1>1, <1>6, <1>8
    <2>2. Follows(row, other) \/ Follows(other, row)
      BY <2>1 DEF RowsInOrder
    <2>3. Follows(other, row)
      BY <1>1, <1>8, <2>1, <2>2 DEF Follows
    <2>4. CASE row.updated_on >= epoch
      <3>1. other.updated_on >= epoch
        BY <1>1, <1>7, <2>1, <2>3, <2>4 DEF Follows
      <3>2. QED BY <1>2, <3>1
    <2>5. CASE row = last /\ row \in older
      <3>1. other \notin older
        BY <1>1, <1>3, <1>8, <2>1, <2>5
      <3>2. QED BY <1>2, <1>4, <3>1
    <2>6. QED BY <1>5, <2>4, <2>5
  <1>9. RowsInOrder(n)
    <2>1. IsFiniteSet(n.metrics)
      BY <1>6, FS_Subset DEF RowsInOrder
    <2>2. QED BY <1>6, <2>1 DEF RowsInOrder
  <1>10. ASSUME NEW row \in n.metrics, NEW d \in Metrics!Days, InEffect(row, n.metrics, d)
         PROVE  InEffect(row, o.metrics, d)
    <2>1. row \in o.metrics /\ row.created_on <= d
      BY <1>6, <1>10 DEF InEffect
    <2>2. ASSUME NEW other \in o.metrics, other.created_on <= d
          PROVE  other.created_on <= row.created_on
      <3>1. CASE other \in n.metrics
        BY <1>10, <2>2, <3>1 DEF InEffect
      <3>2. CASE other \notin n.metrics
        BY <1>1, <1>8, <2>1, <3>2
      <3>3. QED BY <3>1, <3>2
    <2>3. QED BY <2>1, <2>2 DEF InEffect
  <1>11. n.metrics = o.metrics \/ \E row \in n.metrics : row.created_on < epoch
    <2>1. CASE older = {}
      BY <1>2, <1>4, <2>1
    <2>2. CASE older # {}
      <3>1. last \in n.metrics /\ last \in o.metrics /\ last.updated_on < epoch
        BY <1>2, <1>3, <2>2
      <3>2. last.created_on < epoch
        BY <1>1, <1>7, <3>1
      <3>3. QED BY <3>1, <3>2
    <2>3. QED BY <2>1, <2>2
  <1>12. QED BY <1>6, <1>9, <1>10, <1>11

\* Billing points.
Point == IF style = "prepay" THEN (today \div Period + 1) * Period ELSE (today \div Period) * Period

LEMMA PointOfDay ==
  ASSUME Metrics!Assumption, today \in Metrics!Days
  PROVE  /\ Point \in Metrics!Ends /\ today < Point + Period
         /\ style = "prepay" => today < Point
  <1> DEFINE q == today \div Period
             r == today % Period
  <1>1. today \in Nat /\ Period \in Nat /\ Period > 0 /\ MaxDay \in Nat /\ today <= MaxDay
    BY DEF Metrics!Assumption, Metrics!Days
  <1>2. q \in Nat /\ r \in Nat /\ r < Period /\ today = q * Period + r
    BY <1>1
  <1>3. (q + 1) * Period = q * Period + Period
    BY <1>1, <1>2
  <1>4. q * Period \in Nat
    BY <1>1, <1>2, ProductIsNat
  <1>5. Point = (IF style = "prepay" THEN q * Period + Period ELSE q * Period)
    BY <1>3 DEF Point
  <1> DEFINE p == q * Period
  <1>6. Point = (IF style = "prepay" THEN p + Period ELSE p) /\ p \in Nat /\ today = p + r
    BY <1>2, <1>4, <1>5
  <1> HIDE DEF p, r, q
  <1>7. QED BY <1>1, <1>2, <1>6 DEF Metrics!Ends

\* The order i has a row in rows, whose orders are of their types.
LEMMA OrdersAre ==
  ASSUME Metrics!Assumption, Metrics!TypeOK
  PROVE  /\ Len(orders) \in Nat /\ DOMAIN orders = 1 .. Len(orders) /\ DOMAIN orders \subseteq Metrics!Ids
         /\ orders = [i \in 1 .. Len(orders) |-> orders[i]]
         /\ \A i \in DOMAIN orders : /\ orders[i] \in Metrics!OrderTypes
                                     /\ orders[i].metrics \in SUBSET Metrics!Rows
                                     /\ orders[i].registered_on \in Metrics!Days
                                     /\ orders[i].cancelled_on \in Metrics!Days \cup {None}
                                     /\ orders[i].billed_on \in Metrics!Days \cup {None}
                                     /\ orders[i].billed_until \in Metrics!Ends \cup {None}
                                     /\ orders[i].billed_metric \in Values \cup {None}
  <1>1. orders \in Seq(Metrics!OrderTypes) /\ Len(orders) <= MaxOrders
    BY DEF Metrics!TypeOK
  <1>2. /\ Len(orders) \in Nat /\ DOMAIN orders = 1 .. Len(orders)
        /\ orders = [i \in 1 .. Len(orders) |-> orders[i]]
        /\ \A i \in DOMAIN orders : orders[i] \in Metrics!OrderTypes
    BY <1>1
  <1>3. DOMAIN orders \subseteq Metrics!Ids
    BY <1>1, <1>2 DEF Metrics!Ids, Metrics!Assumption
  <1>4. QED BY <1>2, <1>3 DEF Metrics!OrderTypes

LEMMA NumbersAre ==
  ASSUME Metrics!Assumption
  PROVE  /\ MaxDay \in Nat /\ Period \in Nat /\ Period > 0 /\ Delta \in Nat /\ Error \in Nat
         /\ MaxOrders \in Nat /\ Values \subseteq Nat /\ None \notin Nat
         /\ \A ids \in SUBSET Metrics!Ids : ids # None
         /\ \A d \in Metrics!Days : d \in Metrics!Ends /\ d \in Nat /\ d <= MaxDay /\ d # None
         /\ \A d \in Metrics!Ends : d \in Nat /\ d # None
  <1>1. /\ MaxDay \in Nat /\ Period \in Nat /\ Period > 0 /\ Delta \in Nat /\ Error \in Nat
        /\ MaxOrders \in Nat /\ Values \subseteq Nat /\ None \notin Nat
        /\ \A ids \in SUBSET Metrics!Ids : ids # None
    BY DEF Metrics!Assumption
  <1>2. \A d \in 0 .. MaxDay : d \in 0 .. MaxDay + Period /\ d \in Nat /\ d <= MaxDay /\ d # None
    BY <1>1
  <1>3. \A d \in 0 .. MaxDay + Period : d \in Nat /\ d # None
    BY <1>1
  <1>4. QED BY <1>1, <1>2, <1>3 DEF Metrics!Days, Metrics!Ends

LEMMA PointOfOrder ==
  ASSUME Metrics!Assumption, Metrics!TypeOK, NEW ids \in SUBSET DOMAIN orders, NEW i \in ids
  PROVE  LET bp == Metrics!get_billing_point(i, ids) IN
         /\ bp \in Metrics!Ends
         /\ bp = Point \/ \E j \in ids : /\ j <= i /\ orders[j].cancelled_on # None
                                         /\ bp = orders[j].cancelled_on
  <1> DEFINE S == {Point} \cup {orders[j].cancelled_on :
                      j \in {k \in ids : k <= i /\ Cuts /\ orders[k].cancelled_on # None}}
  <1>1. today \in Metrics!Days
    BY DEF Metrics!TypeOK
  <1>2. Metrics!get_billing_point(i, ids) = Metrics!Min(S)
    BY DEF Metrics!get_billing_point, Point
  <1>3. \A x \in S : \/ x = Point
                     \/ \E j \in ids : j <= i /\ orders[j].cancelled_on # None /\ x = orders[j].cancelled_on
    OBVIOUS
  <1>4. Point \in S
    OBVIOUS
  <1> HIDE DEF S
  <1>5. \A x \in S : x \in Metrics!Ends
    <2> SUFFICES ASSUME NEW x \in S PROVE x \in Metrics!Ends
      OBVIOUS
    <2>1. CASE x = Point
      BY <1>1, <2>1, PointOfDay
    <2>2. ASSUME NEW j \in ids, orders[j].cancelled_on # None, x = orders[j].cancelled_on
          PROVE  x \in Metrics!Ends
      <3>1. orders[j].cancelled_on \in Metrics!Days \cup {None}
        BY OrdersAre
      <3>2. QED BY <2>2, <3>1, NumbersAre
    <2>3. QED BY <1>3, <2>1, <2>2
  <1>6. MaxDay + Period \in Nat /\ S \in SUBSET (0 .. MaxDay + Period) /\ S # {}
    BY <1>4, <1>5, NumbersAre DEF Metrics!Ends
  <1>7. Metrics!Min(S) \in S
    BY <1>6, LeastNumber
  <1>8. QED BY <1>2, <1>3, <1>5, <1>7

-----------------------------------------------------------------------------
\* The parts of the invariant about each order.
OrdersPart == \A i \in DOMAIN orders : RowsInOrder(orders[i]) /\ RowsMeasured(i)

\* Steps that change no order, nor what was billed or measured.
LEMMA QuietMetrics ==
  ASSUME MetricsInv,
         UNCHANGED <<today, style, orders, bill, measured, reported>>
  PROVE  /\ DatesOfOrders' /\ OrdersPart' /\ (Metrics!ChargedAsMeasured)'
         /\ OrdersFollow => OrdersFollow'
         /\ (Metrics!Active)' = Metrics!Active
         /\ KeptLongEnough' <=> KeptLongEnough
         /\ MetricsKept => MetricsKept'
  <1>1. DatesOfOrders'
    BY DEF MetricsInv, DatesOfOrders, BilledTogether, HaveCome, HasLines, Complete
  <1>2. OrdersPart'
    BY DEF MetricsInv, OrdersPart, RowsInOrder, RowsMeasured
  <1>3. (Metrics!ChargedAsMeasured)'
    BY DEF MetricsInv, Metrics!ChargedAsMeasured
  <1>4. (Metrics!Active)' = Metrics!Active
    BY DEF Metrics!Active
  <1>5. OrdersFollow => OrdersFollow'
    BY <1>4 DEF OrdersFollow
  <1>6. KeptLongEnough' <=> KeptLongEnough
    BY DEF KeptLongEnough
  <1>7. MetricsKept => MetricsKept'
    BY <1>4 DEF MetricsKept, KeptOf, GoesBack, StillBegins, HasLines
  <1>8. QED BY <1>1, <1>2, <1>3, <1>4, <1>5, <1>6, <1>7

LEMMA ActiveAre ==
  ASSUME Metrics!Assumption, Metrics!TypeOK
  PROVE  Metrics!Active \in SUBSET Metrics!Ids /\ Metrics!Active # None
  <1>1. DOMAIN orders \subseteq Metrics!Ids
    BY OrdersAre
  <1>2. Metrics!Active \in SUBSET Metrics!Ids
    BY <1>1 DEF Metrics!Active
  <1>3. QED BY <1>2, NumbersAre

LEMMA SaveMetricStep ==
  ASSUME Metrics!Assumption, MetricsInv, NEW r \in Requests, Metrics!Save(r)
  PROVE  MetricsInv'
  <1>1. /\ found[r] = None /\ saves < MaxSaves /\ saves' = saves + 1
        /\ found' = [found EXCEPT ![r] = Metrics!Active]
        /\ strays' = (strays \/ \E q \in Requests : found[q] # None)
        /\ UNCHANGED <<today, style, orders, bills, bill, reported, measured, paid, twice, spent>>
    BY DEF Metrics!Save
  <1>2. Metrics!TypeOK
    BY DEF MetricsInv
  <1>3. found \in [Requests -> (SUBSET Metrics!Ids) \cup {None}] /\ saves \in 0 .. MaxSaves
        /\ strays \in BOOLEAN
    BY <1>2 DEF Metrics!TypeOK
  <1>4. Metrics!TypeOK'
    <2>1. saves' \in 0 .. MaxSaves
      BY <1>1, <1>3 DEF Metrics!Assumption
    <2>2. found' \in [Requests -> (SUBSET Metrics!Ids) \cup {None}]
      BY <1>1, <1>2, <1>3, ActiveAre
    <2>3. strays' \in BOOLEAN
      BY <1>1, <1>3
    <2>4. QED BY <1>1, <1>2, <2>1, <2>2, <2>3 DEF Metrics!TypeOK
  <1>5. /\ DatesOfOrders' /\ OrdersPart' /\ (Metrics!ChargedAsMeasured)'
        /\ OrdersFollow => OrdersFollow'
        /\ (Metrics!Active)' = Metrics!Active
        /\ KeptLongEnough' <=> KeptLongEnough
        /\ MetricsKept => MetricsKept'
    BY <1>1, QuietMetrics
  <1>6. ~strays' => ~strays /\ OneSaves'
    <2> SUFFICES ASSUME ~strays' PROVE ~strays /\ OneSaves'
      OBVIOUS
    <2>1. ~strays /\ \A q \in Requests : found[q] = None
      BY <1>1
    <2>2. \A q \in Requests : found'[q] # None => q = r
      BY <1>1, <1>3, <2>1
    <2>3. found'[r] = (Metrics!Active)'
      BY <1>1, <1>3, <1>5
    <2>4. QED BY <2>1, <2>2, <2>3 DEF OneSaves
  <1>7. QED BY <1>4, <1>5, <1>6 DEF MetricsInv, OrdersPart

\* What the end of a request leaves: no request is at work, if one was alone.
LEMMA CommitsMetric ==
  ASSUME Metrics!Assumption, MetricsInv, NEW r \in Requests, Metrics!Commits(r)
  PROVE  /\ found[r] # None /\ found' = [found EXCEPT ![r] = None]
         /\ found' \in [Requests -> (SUBSET Metrics!Ids) \cup {None}]
         /\ UNCHANGED <<today, style, saves, bills, bill, measured, paid, strays, twice, spent>>
         /\ ~strays => OneSaves' /\ found[r] = Metrics!Active
  <1>1. /\ found[r] # None /\ found' = [found EXCEPT ![r] = None]
        /\ UNCHANGED <<today, style, saves, bills, bill, measured, paid, strays, twice, spent>>
    BY DEF Metrics!Commits
  <1>2. found \in [Requests -> (SUBSET Metrics!Ids) \cup {None}]
    BY DEF MetricsInv, Metrics!TypeOK
  <1>3. ASSUME ~strays PROVE OneSaves' /\ found[r] = Metrics!Active
    <2>1. OneSaves
      BY <1>3 DEF MetricsInv
    <2>2. \A q \in Requests : found'[q] = None
      BY <1>1, <1>2, <2>1 DEF OneSaves
    <2>3. QED BY <1>1, <2>1, <2>2 DEF OneSaves
  <1>4. QED BY <1>1, <1>2, <1>3

LEMMA NothingMetricStep ==
  ASSUME Metrics!Assumption, MetricsInv, NEW r \in Requests, Metrics!ChangesNothing(r)
  PROVE  MetricsInv'
  <1>1. Metrics!Commits(r) /\ UNCHANGED <<orders, reported>>
    BY DEF Metrics!ChangesNothing
  <1>2. /\ found' \in [Requests -> (SUBSET Metrics!Ids) \cup {None}]
        /\ UNCHANGED <<today, style, saves, bills, bill, measured, paid, strays, twice, spent>>
        /\ ~strays => OneSaves'
    BY <1>1, CommitsMetric
  <1>3. /\ DatesOfOrders' /\ OrdersPart' /\ (Metrics!ChargedAsMeasured)'
        /\ OrdersFollow => OrdersFollow'
        /\ KeptLongEnough' <=> KeptLongEnough
        /\ MetricsKept => MetricsKept'
    BY <1>1, <1>2, QuietMetrics
  <1>4. Metrics!TypeOK'
    BY <1>1, <1>2 DEF MetricsInv, Metrics!TypeOK
  <1>5. QED BY <1>2, <1>3, <1>4 DEF MetricsInv, OrdersPart

\* The pending bills, and their lines, where orders are added or changed.
LEMMA BillsStay ==
  ASSUME Metrics!Assumption, MetricsInv, UNCHANGED <<today, bill, measured>>, DOMAIN orders \subseteq DOMAIN orders'
  PROVE  /\ DOMAIN bill' = Billings
         /\ \A b \in Billings : bill'[b] # None =>
              \E ids \in SUBSET DOMAIN orders' : bill'[b] \in [ids -> Metrics!Charges]
         /\ (Metrics!ChargedAsMeasured)'
         /\ \A b, i : HasLines(b, i)' <=> HasLines(b, i)
         /\ \A b \in Billings : \A i : HasLines(b, i) => i \in DOMAIN orders
         /\ \A b \in Billings, i \in Metrics!Ids : HasLines(b, i)' =>
              Complete(b, i)'
  <1>1. /\ DOMAIN bill = Billings
        /\ \A b \in Billings : bill[b] # None =>
             \E ids \in SUBSET DOMAIN orders : bill[b] \in [ids -> Metrics!Charges]
    BY DEF MetricsInv, Metrics!TypeOK
  <1>2. (Metrics!ChargedAsMeasured)'
    BY DEF MetricsInv, Metrics!ChargedAsMeasured
  <1>3. \A b, i : HasLines(b, i)' <=> HasLines(b, i)
    BY DEF HasLines
  <1>4. \A b \in Billings : \A i : HasLines(b, i) => i \in DOMAIN orders
    BY <1>1 DEF HasLines
  <1>5. \A b \in Billings, i \in Metrics!Ids : HasLines(b, i)' =>
          Complete(b, i)'
    BY <1>3 DEF MetricsInv, DatesOfOrders, Complete
  <1>6. QED BY <1>1, <1>2, <1>3, <1>4, <1>5

LEMMA CreateMetricStep ==
  ASSUME Metrics!Assumption, MetricsInv, NEW r \in Requests, NEW value \in Values,
         Metrics!CreateOrder(r, value)
  PROVE  MetricsInv'
  <1>0. PICK n : n = Len(orders) + 1
    OBVIOUS
  <1> DEFINE new == Metrics!NewOrder(value)
             row == Metrics!Stored(value)
  <1>1. /\ Metrics!Commits(r) /\ found[r] = {} /\ Len(orders) < MaxOrders
        /\ orders' = Append(orders, new) /\ reported' = [reported EXCEPT ![n] = value]
    BY <1>0 DEF Metrics!CreateOrder
  <1>2. /\ found' \in [Requests -> (SUBSET Metrics!Ids) \cup {None}]
        /\ UNCHANGED <<today, style, saves, bills, bill, measured, paid, strays, twice, spent>>
        /\ ~strays => OneSaves' /\ found[r] = Metrics!Active
    BY <1>1, CommitsMetric
  <1>3. Metrics!TypeOK /\ today \in Metrics!Days /\ orders \in Seq(Metrics!OrderTypes)
        /\ reported \in [Metrics!Ids -> Nat]
    BY DEF MetricsInv, Metrics!TypeOK
  <1>4. Len(orders) \in Nat /\ DOMAIN orders = 1 .. Len(orders)
    BY <1>3, OrdersAre
  <1>5. /\ new.registered_on = today /\ new.cancelled_on = None /\ new.billed_on = None
        /\ new.billed_until = None /\ new.billed_metric = None /\ new.metrics = {row}
        /\ row.created_on = today /\ row.updated_on = today /\ row.value = value
        /\ row \in Metrics!Rows
    BY <1>3 DEF Metrics!NewOrder, Metrics!Stored, Metrics!Rows
  <1>6. new \in Metrics!OrderTypes
    BY <1>3, <1>5 DEF Metrics!NewOrder, Metrics!OrderTypes
  <1> HIDE DEF new, row
  <1>7. /\ orders' \in Seq(Metrics!OrderTypes) /\ Len(orders') = n /\ n \in Metrics!Ids
        /\ DOMAIN orders' = 1 .. n /\ DOMAIN orders \subseteq DOMAIN orders' /\ n \notin DOMAIN orders
        /\ n \in DOMAIN orders' /\ orders'[n] = new /\ \A i \in DOMAIN orders : orders'[i] = orders[i]
        /\ \A i \in DOMAIN orders' : i = n \/ i \in DOMAIN orders
    <2>1. MaxOrders \in Nat
      BY NumbersAre
    <2>a. orders' = Append(orders, new) /\ orders \in Seq(Metrics!OrderTypes) /\ new \in Metrics!OrderTypes
      BY <1>1, <1>3, <1>6
    <2>b. orders' \in Seq(Metrics!OrderTypes) /\ Len(orders') = n
      BY <1>0, <2>a
    <2>c. orders'[n] = new
      BY <1>0, <2>a
    <2>d. \A i \in 1 .. Len(orders) : orders'[i] = orders[i]
      BY <2>a
    <2>2. /\ orders' \in Seq(Metrics!OrderTypes) /\ Len(orders') = n
          /\ orders'[n] = new /\ \A i \in 1 .. Len(orders) : orders'[i] = orders[i]
      BY <2>b, <2>c, <2>d
    <2>3. DOMAIN orders' = 1 .. n
      BY <2>2
    <2>4. n \in 1 .. MaxOrders
      BY <1>0, <1>1, <1>4, <2>1
    <2>5. \A i \in 1 .. n : i = n \/ i \in 1 .. Len(orders)
      BY <1>0, <1>4
    <2>6. n \notin 1 .. Len(orders) /\ \A i \in 1 .. Len(orders) : i \in 1 .. n
      BY <1>0, <1>4
    <2>7. n \in 1 .. n
      BY <2>4, NumbersAre
    <2>8. QED BY <1>4, <2>2, <2>3, <2>4, <2>5, <2>6, <2>7 DEF Metrics!Ids
  <1>8. reported' \in [Metrics!Ids -> Nat] /\ reported'[n] = value
        /\ \A i \in DOMAIN orders : reported'[i] = reported[i]
    <2>1. value \in Nat
      BY NumbersAre
    <2>2. QED BY <1>1, <1>3, <1>7, <2>1
  <1>9. /\ DOMAIN bill' = Billings
        /\ \A b \in Billings : bill'[b] # None =>
             \E ids \in SUBSET DOMAIN orders' : bill'[b] \in [ids -> Metrics!Charges]
        /\ (Metrics!ChargedAsMeasured)'
        /\ \A b, i : HasLines(b, i)' <=> HasLines(b, i)
        /\ \A b \in Billings : \A i : HasLines(b, i) => i \in DOMAIN orders
        /\ \A b \in Billings, i \in Metrics!Ids : HasLines(b, i)' =>
             Complete(b, i)'
    BY <1>2, <1>7, BillsStay
  <1>10. Metrics!TypeOK'
    <2>1. Len(orders') <= MaxOrders
      BY <1>0, <1>1, <1>4, <1>7, NumbersAre
    <2>2. QED BY <1>2, <1>3, <1>7, <1>8, <1>9, <2>1 DEF Metrics!TypeOK
  <1>11. today \in Nat /\ None \notin Nat /\ Error \in Nat /\ value \in Nat
    BY <1>3, NumbersAre
  <1>12. DatesOfOrders'
    <2>1. ASSUME NEW i \in DOMAIN orders' PROVE BilledTogether(orders[i])' /\ HaveCome(orders[i])'
      <3>1. CASE i = n
        BY <1>2, <1>5, <1>7, <1>11, <3>1 DEF BilledTogether, HaveCome
      <3>2. CASE i \in DOMAIN orders
        BY <1>2, <1>7, <3>2 DEF MetricsInv, DatesOfOrders, BilledTogether, HaveCome
      <3>3. QED BY <1>7, <3>1, <3>2
    <2>2. QED BY <1>9, <2>1 DEF DatesOfOrders
  <1>13. OrdersPart'
    <2>1. ASSUME NEW i \in DOMAIN orders' PROVE RowsInOrder(orders[i])' /\ RowsMeasured(i)'
      <3>1. CASE i = n
        <4>a. IsFiniteSet({row})
          BY FS_Singleton
        <4>b. orders'[i].metrics = {row} /\ orders'[i].registered_on = today /\ today <= today
          BY <1>5, <1>7, <1>11, <3>1
        <4>1. RowsInOrder(orders[i])'
          BY <1>2, <1>5, <4>a, <4>b DEF RowsInOrder
        <4>2. RowsMeasured(i)'
          <5>1. \A d \in Metrics!Days : d < today => ~ InEffect(row, {row}, d)
            BY <1>5, <1>11, NumbersAre DEF InEffect
          <5>2. Metrics!Near(row.value, value)
            BY <1>5, <1>11 DEF Metrics!Near
          <5>3. QED BY <1>2, <1>5, <1>7, <1>8, <3>1, <5>1, <5>2 DEF RowsMeasured
        <4>3. QED BY <4>1, <4>2
      <3>2. CASE i \in DOMAIN orders
        <4>1. RowsInOrder(orders[i])'
          BY <1>2, <1>7, <3>2 DEF MetricsInv, RowsInOrder
        <4>2. RowsMeasured(i)'
          BY <1>2, <1>7, <1>8, <3>2 DEF MetricsInv, RowsMeasured
        <4>3. QED BY <4>1, <4>2
      <3>3. QED BY <1>7, <3>1, <3>2
    <2>2. QED BY <2>1 DEF OrdersPart
  <1>14. ASSUME ~strays' PROVE OneSaves' /\ OrdersFollow' /\ (Metrics!Active)' = {n}
    <2>1. Metrics!Active = {}
      BY <1>1, <1>2, <1>14
    <2>a. \A i \in DOMAIN orders : orders'[i].cancelled_on # None
      BY <1>7, <2>1 DEF Metrics!Active
    <2>b. n \in DOMAIN orders' /\ orders'[n].cancelled_on = None
      BY <1>5, <1>7
    <2>2. (Metrics!Active)' = {n}
      BY <1>7, <2>a, <2>b DEF Metrics!Active
    <2>3. ASSUME NEW j \in DOMAIN orders', j # n
          PROVE  orders'[j].cancelled_on # None /\ orders'[j].cancelled_on <= orders'[n].registered_on
      <3>1. j \in DOMAIN orders
        BY <1>7, <2>3
      <3>2. orders[j].cancelled_on # None
        BY <2>1, <3>1 DEF Metrics!Active
      <3>3. orders[j].cancelled_on <= today
        BY <3>1, <3>2 DEF MetricsInv, DatesOfOrders, HaveCome
      <3>4. QED BY <1>5, <1>7, <3>1, <3>2, <3>3
    <2>4. OrdersFollow'
      BY <2>2, <2>3 DEF OrdersFollow
    <2>5. QED BY <1>2, <1>14, <2>2, <2>4
  <1>15. ASSUME ~strays' PROVE MetricsKept'
    <2>1. (Metrics!Active)' = {n}
      BY <1>14, <1>15
    <2>2. \A b \in Billings : ~ HasLines(b, n)'
      BY <1>7, <1>9
    <2>3. GoesBack(orders'[n].metrics, orders'[n].registered_on)
      BY <1>5, <1>7, <1>11 DEF GoesBack
    <2>4. orders'[n].billed_on = None
      BY <1>5, <1>7
    <2>5. KeptOf(n)'
      BY <2>2, <2>3, <2>4 DEF KeptOf, GoesBack
    <2>6. QED BY <2>1, <2>5 DEF MetricsKept
  <1>16. QED BY <1>10, <1>12, <1>13, <1>9, <1>14, <1>15 DEF MetricsInv, OrdersPart

\* An order keeps its first days, if its rows keep their days.
LEMMA KeptStays ==
  ASSUME UNCHANGED <<today, style, bill>>, NEW i, KeptOf(i),
         orders'[i].billed_on = orders[i].billed_on, orders'[i].billed_until = orders[i].billed_until,
         orders'[i].registered_on = orders[i].registered_on,
         \A row \in orders[i].metrics : \E other \in orders'[i].metrics : other.created_on = row.created_on
  PROVE  KeptOf(i)'
  <1>1. ASSUME NEW day, GoesBack(orders[i].metrics, day) PROVE GoesBack(orders'[i].metrics, day)
    BY <1>1 DEF GoesBack
  <1>2. ASSUME NEW on, NEW until, StillBegins(orders[i].metrics, on, until)
        PROVE  StillBegins(orders[i].metrics, on, until)'
    <2>1. PICK row \in orders[i].metrics : row.created_on <= on /\ row.created_on <= until
      BY <1>2 DEF StillBegins
    <2>2. PICK other \in orders'[i].metrics : other.created_on = row.created_on
      BY <2>1
    <2>3. \E x \in orders'[i].metrics : x.created_on <= on /\ x.created_on <= until
      BY <2>1, <2>2
    <2>4. QED BY <1>2, <2>3 DEF StillBegins
  <1>3. orders[i].billed_on = None => GoesBack(orders'[i].metrics, orders[i].registered_on)
    BY <1>1 DEF KeptOf
  <1>4. orders[i].billed_on # None => StillBegins(orders[i].metrics, orders[i].billed_on, orders[i].billed_until)
    BY DEF KeptOf
  <1>5. ASSUME orders'[i].billed_on # None
        PROVE  StillBegins(orders[i].metrics, orders[i].billed_on, orders[i].billed_until)'
    <2>1. PICK on, until : on = orders[i].billed_on /\ until = orders[i].billed_until
      OBVIOUS
    <2>2. StillBegins(orders[i].metrics, on, until)
      BY <1>4, <1>5, <2>1
    <2>3. StillBegins(orders[i].metrics, on, until)'
      BY <1>2, <2>2
    <2>4. QED BY <2>1, <2>3 DEF StillBegins
  <1>6. ASSUME NEW b \in Billings, HasLines(b, i)'
        PROVE  StillBegins(orders[i].metrics, today, bill[b][i].billed_until)'
    <2>1. PICK on, until : on = today /\ until = bill[b][i].billed_until
      OBVIOUS
    <2>2. HasLines(b, i)
      BY <1>6 DEF HasLines
    <2>3. StillBegins(orders[i].metrics, on, until)
      BY <2>1, <2>2 DEF KeptOf
    <2>4. StillBegins(orders[i].metrics, on, until)'
      BY <1>2, <2>3
    <2>5. QED BY <2>1, <2>4 DEF StillBegins
  <1>7. orders'[i].billed_on = None => GoesBack(orders[i].metrics, orders[i].registered_on)'
    BY <1>3 DEF GoesBack
  <1>8. QED BY <1>5, <1>6, <1>7 DEF KeptOf

LEMMA UpdateMetricStep ==
  ASSUME Metrics!Assumption, MetricsInv, NEW r \in Requests, NEW value \in Values,
         Metrics!UpdateOrder(r, value)
  PROVE  MetricsInv'
  <1>1. PICK i \in Metrics!Ids :
          /\ found[r] = {i}
          /\ orders' = [orders EXCEPT ![i].metrics = Metrics!Store(@, value)]
          /\ reported' = [reported EXCEPT ![i] = value]
    BY DEF Metrics!UpdateOrder
  <1>2. /\ found' \in [Requests -> (SUBSET Metrics!Ids) \cup {None}]
        /\ UNCHANGED <<today, style, saves, bills, bill, measured, paid, strays, twice, spent>>
        /\ ~strays => OneSaves' /\ found[r] = Metrics!Active
    BY CommitsMetric DEF Metrics!UpdateOrder
  <1>3. Metrics!TypeOK /\ today \in Metrics!Days /\ orders \in Seq(Metrics!OrderTypes)
        /\ Len(orders) <= MaxOrders /\ reported \in [Metrics!Ids -> Nat]
    BY DEF MetricsInv, Metrics!TypeOK
  <1>4. /\ Len(orders) \in Nat /\ DOMAIN orders = 1 .. Len(orders)
        /\ \A j \in DOMAIN orders : /\ orders[j] \in Metrics!OrderTypes
                                    /\ orders[j].metrics \in SUBSET Metrics!Rows
                                    /\ orders[j].registered_on \in Metrics!Days
    BY <1>3, OrdersAre
  <1> DEFINE new == Metrics!Store(orders[i].metrics, value)
  <1>5. DOMAIN orders' = DOMAIN orders /\ orders' = [j \in 1 .. Len(orders) |-> orders'[j]]
    BY <1>1, <1>4
  <1>6. \A j \in DOMAIN orders : j # i => orders'[j] = orders[j]
    BY <1>1, <1>4
  <1>7. ASSUME i \in DOMAIN orders
        PROVE  /\ orders'[i] = [orders[i] EXCEPT !.metrics = new] /\ orders'[i].metrics = new
               /\ orders'[i].registered_on = orders[i].registered_on
               /\ orders'[i].cancelled_on = orders[i].cancelled_on
               /\ orders'[i].billed_on = orders[i].billed_on
               /\ orders'[i].billed_until = orders[i].billed_until
               /\ orders'[i].billed_metric = orders[i].billed_metric
    <2>1. orders'[i] = [orders[i] EXCEPT !.metrics = new]
      BY <1>1, <1>4, <1>7
    <2> HIDE DEF new
    <2>2. orders[i] \in Metrics!OrderTypes
      BY <1>4, <1>7
    <2>3. QED BY <2>1, <2>2 DEF Metrics!OrderTypes
  <1>8. ASSUME i \in DOMAIN orders
        PROVE  LET n == orders'[i]
                   o == orders[i] IN
               /\ n.metrics \in SUBSET Metrics!Rows
               /\ RowsInOrder(n)
               /\ \A row \in o.metrics : \E other \in n.metrics : other.created_on = row.created_on
               /\ \A row \in n.metrics, d \in Metrics!Days : d < today /\ InEffect(row, n.metrics, d) =>
                    \E old \in o.metrics : InEffect(old, o.metrics, d) /\ old.value = row.value
               /\ \A row \in n.metrics : InEffect(row, n.metrics, today) => Metrics!Near(row.value, value)
    <2>1. PICK n, o : n = orders'[i] /\ o = orders[i]
      OBVIOUS
    <2>2. /\ o.metrics \in SUBSET Metrics!Rows /\ o.registered_on \in Metrics!Days /\ RowsInOrder(o)
          /\ n.registered_on = o.registered_on /\ n.metrics = Metrics!Store(o.metrics, value)
      BY <1>4, <1>7, <1>8, <2>1 DEF MetricsInv
    <2>3. QED BY <1>3, <2>1, <2>2, StoreRows
  <1> HIDE DEF new
  <1>9. /\ DOMAIN bill' = Billings
        /\ \A b \in Billings : bill'[b] # None =>
             \E ids \in SUBSET DOMAIN orders' : bill'[b] \in [ids -> Metrics!Charges]
        /\ (Metrics!ChargedAsMeasured)'
        /\ \A b \in Billings, k \in Metrics!Ids : HasLines(b, k)' =>
             Complete(b, k)'
    BY <1>2, <1>5, BillsStay
  <1>10. orders' \in Seq(Metrics!OrderTypes) /\ Len(orders') = Len(orders)
    <2>1. ASSUME NEW j \in 1 .. Len(orders) PROVE orders'[j] \in Metrics!OrderTypes
      <3>1. CASE j = i
        <4>1. orders'[i] = [orders[i] EXCEPT !.metrics = new] /\ new \in SUBSET Metrics!Rows
              /\ orders[i] \in Metrics!OrderTypes
          BY <1>4, <1>7, <1>8, <3>1
        <4>2. QED BY <3>1, <4>1 DEF Metrics!OrderTypes
      <3>2. CASE j # i
        BY <1>4, <1>6, <3>2
      <3>3. QED BY <3>1, <3>2
    <2>2. QED BY <1>4, <1>5, <2>1, FunctionIsSeq
  <1>11. reported' \in [Metrics!Ids -> Nat] /\ reported'[i] = value
         /\ \A j \in DOMAIN orders : j # i => reported'[j] = reported[j]
    <2>1. value \in Nat
      BY NumbersAre
    <2>2. QED BY <1>1, <1>3, <2>1
  <1>12. Metrics!TypeOK'
    BY <1>2, <1>3, <1>9, <1>10, <1>11 DEF Metrics!TypeOK
  <1>13. DatesOfOrders'
    <2>1. ASSUME NEW j \in DOMAIN orders' PROVE BilledTogether(orders[j])' /\ HaveCome(orders[j])'
      <3>1. BilledTogether(orders[j]) /\ HaveCome(orders[j])
        BY <1>5 DEF MetricsInv, DatesOfOrders
      <3>2. QED BY <1>2, <1>5, <1>6, <1>7, <3>1 DEF BilledTogether, HaveCome
    <2>2. QED BY <1>9, <2>1 DEF DatesOfOrders
  <1>14. OrdersPart'
    <2>1. ASSUME NEW j \in DOMAIN orders' PROVE RowsInOrder(orders[j])' /\ RowsMeasured(j)'
      <3>1. RowsInOrder(orders[j]) /\ RowsMeasured(j)
        BY <1>5 DEF MetricsInv
      <3>2. CASE j = i
        <4>1. i \in DOMAIN orders
          BY <1>5, <3>2
        <4>2. RowsInOrder(orders[j])'
          BY <1>2, <1>8, <3>2, <4>1 DEF RowsInOrder
        <4>3. ASSUME NEW row \in orders'[i].metrics, NEW d \in Metrics!Days, d < today,
                     InEffect(row, orders'[i].metrics, d)
              PROVE  Metrics!Near(row.value, measured[i][d])
          <5>1. PICK old \in orders[i].metrics : InEffect(old, orders[i].metrics, d) /\ old.value = row.value
            BY <1>8, <4>1, <4>3
          <5>2. QED BY <3>1, <3>2, <4>3, <5>1 DEF RowsMeasured
        <4>4. \A row \in orders'[i].metrics :
                InEffect(row, orders'[i].metrics, today) => Metrics!Near(row.value, reported'[i])
          BY <1>8, <1>11, <4>1
        <4>5. RowsMeasured(j)'
          BY <1>2, <3>2, <4>3, <4>4 DEF RowsMeasured
        <4>6. QED BY <4>2, <4>5
      <3>3. CASE j # i
        BY <1>2, <1>5, <1>6, <1>11, <3>1, <3>3 DEF RowsInOrder, RowsMeasured
      <3>4. QED BY <3>2, <3>3
    <2>2. QED BY <2>1 DEF OrdersPart
  <1>15. (Metrics!Active)' = Metrics!Active
    BY <1>5, <1>6, <1>7 DEF Metrics!Active
  <1>16. ASSUME ~strays' PROVE OneSaves' /\ OrdersFollow'
    <2>1. OrdersFollow
      BY <1>2, <1>16 DEF MetricsInv
    <2>2. \A j \in DOMAIN orders : /\ orders'[j].cancelled_on = orders[j].cancelled_on
                                   /\ orders'[j].registered_on = orders[j].registered_on
      BY <1>6, <1>7
    <2>3. Metrics!Active \subseteq DOMAIN orders
      BY DEF Metrics!Active
    <2>4. QED BY <1>2, <1>5, <1>15, <1>16, <2>1, <2>2, <2>3 DEF OrdersFollow
  <1>17. ASSUME ~strays', KeptLongEnough' PROVE MetricsKept'
    <2>1. MetricsKept
      BY <1>2, <1>17 DEF MetricsInv, KeptLongEnough
    <2>2. ASSUME NEW j \in Metrics!Active PROVE KeptOf(j)'
      <3>1. j \in DOMAIN orders /\ KeptOf(j)
        BY <2>1 DEF Metrics!Active, MetricsKept
      <3>2. /\ orders'[j].billed_on = orders[j].billed_on /\ orders'[j].billed_until = orders[j].billed_until
            /\ orders'[j].registered_on = orders[j].registered_on
            /\ \A row \in orders[j].metrics : \E other \in orders'[j].metrics : other.created_on = row.created_on
        BY <1>6, <1>7, <1>8, <3>1
      <3>3. QED BY <1>2, <3>1, <3>2, KeptStays
    <2>3. QED BY <1>15, <2>2 DEF MetricsKept
  <1>18. QED BY <1>9, <1>12, <1>13, <1>14, <1>16, <1>17 DEF MetricsInv, OrdersPart

LEMMA CancelMetricStep ==
  ASSUME Metrics!Assumption, MetricsInv, NEW r \in Requests, Metrics!CancelOrders(r)
  PROVE  MetricsInv'
  <1>1. /\ Metrics!Commits(r) /\ UNCHANGED reported
        /\ orders' = [i \in DOMAIN orders |->
             IF i \in found[r] THEN [orders[i] EXCEPT !.cancelled_on = today] ELSE orders[i]]
    BY DEF Metrics!CancelOrders
  <1>2. /\ found' \in [Requests -> (SUBSET Metrics!Ids) \cup {None}]
        /\ UNCHANGED <<today, style, saves, bills, bill, measured, paid, strays, twice, spent>>
        /\ ~strays => OneSaves' /\ found[r] = Metrics!Active
    BY <1>1, CommitsMetric
  <1>3. Metrics!TypeOK /\ today \in Metrics!Days /\ Len(orders) <= MaxOrders
    BY DEF MetricsInv, Metrics!TypeOK
  <1>4. /\ Len(orders) \in Nat /\ DOMAIN orders = 1 .. Len(orders)
        /\ \A j \in DOMAIN orders : orders[j] \in Metrics!OrderTypes
    BY <1>3, OrdersAre
  <1>5. DOMAIN orders' = DOMAIN orders /\ orders' = [j \in 1 .. Len(orders) |-> orders'[j]]
    BY <1>1, <1>4
  <1>6. ASSUME NEW j \in DOMAIN orders
        PROVE  /\ orders'[j] \in Metrics!OrderTypes
               /\ orders'[j].metrics = orders[j].metrics
               /\ orders'[j].registered_on = orders[j].registered_on
               /\ orders'[j].billed_on = orders[j].billed_on
               /\ orders'[j].billed_until = orders[j].billed_until
               /\ orders'[j].billed_metric = orders[j].billed_metric
               /\ orders'[j].cancelled_on = (IF j \in found[r] THEN today ELSE orders[j].cancelled_on)
    <2>1. orders[j] \in Metrics!OrderTypes
      BY <1>4
    <2>2. CASE j \in found[r]
      <3>1. orders'[j] = [orders[j] EXCEPT !.cancelled_on = today]
        BY <1>1, <2>2
      <3>2. QED BY <1>3, <2>1, <2>2, <3>1 DEF Metrics!OrderTypes
    <2>3. CASE j \notin found[r]
      BY <1>1, <2>1, <2>3
    <2>4. QED BY <2>2, <2>3
  <1>7. /\ DOMAIN bill' = Billings
        /\ \A b \in Billings : bill'[b] # None =>
             \E ids \in SUBSET DOMAIN orders' : bill'[b] \in [ids -> Metrics!Charges]
        /\ (Metrics!ChargedAsMeasured)'
        /\ \A b \in Billings, k \in Metrics!Ids : HasLines(b, k)' => Complete(b, k)'
    BY <1>2, <1>5, BillsStay
  <1>8. Metrics!TypeOK'
    <2>1. orders' \in Seq(Metrics!OrderTypes) /\ Len(orders') = Len(orders)
      BY <1>4, <1>5, <1>6, FunctionIsSeq
    <2>2. QED BY <1>1, <1>2, <1>3, <1>7, <2>1 DEF Metrics!TypeOK
  <1>9. today \in Nat /\ today # None
    BY <1>3, NumbersAre
  <1>10. DatesOfOrders'
    <2>1. ASSUME NEW j \in DOMAIN orders' PROVE BilledTogether(orders[j])' /\ HaveCome(orders[j])'
      <3>1. BilledTogether(orders[j]) /\ HaveCome(orders[j])
        BY <1>5 DEF MetricsInv, DatesOfOrders
      <3>2. QED BY <1>2, <1>5, <1>6, <1>9, <3>1 DEF BilledTogether, HaveCome
    <2>2. QED BY <1>7, <2>1 DEF DatesOfOrders
  <1>11. OrdersPart'
    <2>1. ASSUME NEW j \in DOMAIN orders' PROVE RowsInOrder(orders[j])' /\ RowsMeasured(j)'
      <3>1. RowsInOrder(orders[j]) /\ RowsMeasured(j)
        BY <1>5 DEF MetricsInv
      <3>2. QED BY <1>1, <1>2, <1>5, <1>6, <3>1 DEF RowsInOrder, RowsMeasured
    <2>2. QED BY <2>1 DEF OrdersPart
  <1>12. ASSUME ~strays' PROVE (Metrics!Active)' = {} /\ OneSaves'
    <2>1. \A j \in DOMAIN orders : orders'[j].cancelled_on # None
      BY <1>2, <1>6, <1>9, <1>12 DEF Metrics!Active
    <2>2. QED BY <1>2, <1>5, <1>12, <2>1 DEF Metrics!Active
  <1>13. ~strays' => OrdersFollow' /\ MetricsKept'
    BY <1>12 DEF OrdersFollow, MetricsKept
  <1>14. QED BY <1>7, <1>8, <1>10, <1>11, <1>12, <1>13 DEF MetricsInv, OrdersPart

LEMMA MidnightMetricStep ==
  ASSUME Metrics!Assumption, MetricsInv, Metrics!Midnight
  PROVE  MetricsInv'
  <1>1. /\ today < MaxDay /\ today' = today + 1
        /\ \A r \in Requests : found[r] = None
        /\ \A b \in Billings : bill[b] = None
        /\ measured' = [i \in Metrics!Ids |-> [measured[i] EXCEPT ![today] = reported[i]]]
        /\ UNCHANGED <<style, orders, saves, bills, found, bill, reported, paid, strays, twice, spent>>
    BY DEF Metrics!Midnight
  <1>2. /\ Metrics!TypeOK /\ today \in Metrics!Days /\ reported \in [Metrics!Ids -> Nat]
        /\ measured \in [Metrics!Ids -> [Metrics!Days -> Nat]]
    BY DEF MetricsInv, Metrics!TypeOK
  <1>3. today \in Nat /\ MaxDay \in Nat /\ \A d \in Metrics!Days : d \in Nat
    BY <1>2, NumbersAre
  <1>4. today' \in Metrics!Days
    BY <1>1, <1>3 DEF Metrics!Days
  <1>5. measured' \in [Metrics!Ids -> [Metrics!Days -> Nat]]
    BY <1>1, <1>2
  <1>6. Metrics!TypeOK'
    BY <1>1, <1>2, <1>4, <1>5 DEF Metrics!TypeOK
  <1>7. \A b, i : b \in Billings => ~ HasLines(b, i)'
    BY <1>1 DEF HasLines
  <1>8. DatesOfOrders'
    <2>1. ASSUME NEW i \in DOMAIN orders' PROVE BilledTogether(orders[i])' /\ HaveCome(orders[i])'
      <3>1. BilledTogether(orders[i]) /\ HaveCome(orders[i])
        BY <1>1 DEF MetricsInv, DatesOfOrders
      <3>2. /\ orders[i].registered_on \in Metrics!Days
            /\ orders[i].cancelled_on \in Metrics!Days \cup {None}
            /\ orders[i].billed_on \in Metrics!Days \cup {None}
        BY <1>1, <1>2, OrdersAre
      <3>3. \A d \in Metrics!Days : d <= today => d <= today'
        BY <1>1, <1>3
      <3>4. QED BY <1>1, <3>1, <3>2, <3>3 DEF BilledTogether, HaveCome
    <2>2. QED BY <1>7, <2>1 DEF DatesOfOrders
  <1>9. OrdersPart'
    <2>1. ASSUME NEW i \in DOMAIN orders' PROVE RowsInOrder(orders[i])' /\ RowsMeasured(i)'
      <3>1. RowsInOrder(orders[i]) /\ RowsMeasured(i) /\ i \in Metrics!Ids
            /\ orders[i].metrics \in SUBSET Metrics!Rows
        BY <1>1, <1>2, OrdersAre DEF MetricsInv
      <3>2. \A row \in orders[i].metrics : row.created_on \in Nat /\ row.updated_on \in Nat
        BY <1>3, <3>1 DEF Metrics!Rows
      <3>3. \A row \in orders[i].metrics : row.updated_on <= today'
        BY <1>1, <1>3, <3>1, <3>2 DEF RowsInOrder
      <3>4. RowsInOrder(orders[i])'
        BY <1>1, <3>1, <3>3 DEF RowsInOrder
      <3>5. measured'[i] = [measured[i] EXCEPT ![today] = reported[i]]
        BY <1>1, <3>1
      <3>6. \A d \in Metrics!Days : measured'[i][d] = IF d = today THEN reported[i] ELSE measured[i][d]
        BY <1>2, <3>1, <3>5
      <3>7. ASSUME NEW row \in orders[i].metrics, NEW d \in Metrics!Days, d < today',
                   InEffect(row, orders[i].metrics, d)
            PROVE  Metrics!Near(row.value, measured'[i][d])
        <4>1. CASE d = today
          BY <3>1, <3>6, <3>7, <4>1 DEF RowsMeasured
        <4>2. CASE d < today
          BY <1>3, <3>1, <3>6, <3>7, <4>2 DEF RowsMeasured
        <4>3. QED BY <1>1, <1>3, <3>7, <4>1, <4>2
      <3>8. ASSUME NEW row \in orders[i].metrics, InEffect(row, orders[i].metrics, today')
            PROVE  Metrics!Near(row.value, reported[i])
        <4>1. \A other \in orders[i].metrics : other.created_on <= today
          BY <1>3, <3>1, <3>2 DEF RowsInOrder
        <4>2. \A other \in orders[i].metrics : other.created_on <= today'
          BY <1>1, <1>3, <3>2, <4>1
        <4>3. InEffect(row, orders[i].metrics, today)
          BY <3>8, <4>1, <4>2 DEF InEffect
        <4>4. QED BY <3>1, <4>3 DEF RowsMeasured
      <3>9. RowsMeasured(i)'
        BY <1>1, <3>7, <3>8 DEF RowsMeasured
      <3>10. QED BY <3>4, <3>9
    <2>2. QED BY <2>1 DEF OrdersPart
  <1>10. (Metrics!ChargedAsMeasured)'
    BY <1>1 DEF Metrics!ChargedAsMeasured
  <1>11. (Metrics!Active)' = Metrics!Active
    BY <1>1 DEF Metrics!Active
  <1>12. ~strays' => OneSaves' /\ OrdersFollow'
    BY <1>1, <1>11 DEF MetricsInv, OneSaves, OrdersFollow
  <1>13. ASSUME ~strays', KeptLongEnough' PROVE MetricsKept'
    <2>1. MetricsKept
      BY <1>1, <1>13 DEF MetricsInv, KeptLongEnough
    <2>2. ASSUME NEW i \in Metrics!Active PROVE KeptOf(i)'
      <3>1. KeptOf(i)
        BY <2>1 DEF MetricsKept
      <3>2. QED BY <1>1, <1>7, <3>1 DEF KeptOf, GoesBack, StillBegins
    <2>3. QED BY <1>11, <2>2 DEF MetricsKept
  <1>14. QED BY <1>6, <1>8, <1>9, <1>10, <1>12, <1>13 DEF MetricsInv, OrdersPart

\* What remains of the metrics of an order after a cleanup still goes back to where it
\* is to be charged from.
LEMMA StillBeginsCleaned ==
  ASSUME Metrics!Assumption, KeptLongEnough, NEW rows \in SUBSET Metrics!Rows, NEW kept \in SUBSET rows,
         NEW billed \in Metrics!Days, NEW on \in Metrics!Days, billed <= on, NEW until \in Metrics!Ends,
         StillBegins(rows, on, until),
         kept = rows \/ \E row \in kept : row.created_on < billed - Delta
  PROVE  StillBegins(kept, on, until)
  <1>1. on \in Nat /\ billed \in Nat /\ until \in Nat /\ Delta \in Nat /\ Period \in Nat
    BY NumbersAre
  <1>2. on < until + Period /\ (style = "prepay" => on < until)
    BY DEF StillBegins
  <1>3. CASE kept = rows
    BY <1>3
  <1>4. ASSUME NEW row \in kept, row.created_on < billed - Delta PROVE StillBegins(kept, on, until)
    <2>1. row.created_on \in Nat
      <3>1. row \in Metrics!Rows
        OBVIOUS
      <3>2. QED BY <3>1, NumbersAre DEF Metrics!Rows
    <2>2. row.created_on <= on
      BY <1>1, <1>4, <2>1
    <2>3. row.created_on <= until
      <3>1. CASE style = "prepay"
        BY <1>1, <1>2, <2>1, <2>2, <3>1
      <3>2. CASE Period <= Delta + 2
        BY <1>1, <1>2, <1>4, <2>1, <3>2
      <3>3. QED BY <3>1, <3>2 DEF KeptLongEnough
    <2>4. QED BY <1>2, <2>2, <2>3 DEF StillBegins
  <1>5. QED BY <1>3, <1>4

LEMMA CleanupMetricStep ==
  ASSUME Metrics!Assumption, MetricsInv, Metrics!Cleanup
  PROVE  MetricsInv'
  <1>1. /\ orders' = [i \in DOMAIN orders |->
              IF orders[i].billed_on = None THEN orders[i]
              ELSE [orders[i] EXCEPT !.metrics = Metrics!KeepLatest(@, orders[i].billed_on - Delta)]]
        /\ UNCHANGED <<today, style, saves, bills, found, bill, reported, measured, paid, strays,
                       twice, spent>>
    BY DEF Metrics!Cleanup, Metrics!history
  <1>2. Metrics!TypeOK /\ today \in Metrics!Days /\ Len(orders) <= MaxOrders
    BY DEF MetricsInv, Metrics!TypeOK
  <1>3. /\ Len(orders) \in Nat /\ DOMAIN orders = 1 .. Len(orders)
        /\ \A j \in DOMAIN orders : /\ orders[j] \in Metrics!OrderTypes
                                    /\ orders[j].metrics \in SUBSET Metrics!Rows
                                    /\ orders[j].billed_on \in Metrics!Days \cup {None}
                                    /\ orders[j].billed_until \in Metrics!Ends \cup {None}
    BY <1>2, OrdersAre
  <1>4. DOMAIN orders' = DOMAIN orders /\ orders' = [j \in 1 .. Len(orders) |-> orders'[j]]
    BY <1>1, <1>3
  <1>5. ASSUME NEW j \in DOMAIN orders
        PROVE  /\ orders'[j] \in Metrics!OrderTypes
               /\ orders'[j].registered_on = orders[j].registered_on
               /\ orders'[j].cancelled_on = orders[j].cancelled_on
               /\ orders'[j].billed_on = orders[j].billed_on
               /\ orders'[j].billed_until = orders[j].billed_until
               /\ orders'[j].billed_metric = orders[j].billed_metric
               /\ orders'[j].metrics \in SUBSET orders[j].metrics
               /\ RowsInOrder(orders'[j])
               /\ \A row \in orders'[j].metrics, d \in Metrics!Days :
                    InEffect(row, orders'[j].metrics, d) => InEffect(row, orders[j].metrics, d)
               /\ \/ orders'[j].metrics = orders[j].metrics
                  \/ /\ orders[j].billed_on # None
                     /\ \E row \in orders'[j].metrics : row.created_on < orders[j].billed_on - Delta
    <2>1. orders[j] \in Metrics!OrderTypes /\ RowsInOrder(orders[j])
          /\ orders[j].metrics \in SUBSET Metrics!Rows
      BY <1>3 DEF MetricsInv
    <2>2. CASE orders[j].billed_on = None
      <3>1. orders'[j] = orders[j]
        BY <1>1, <2>2
      <3>2. QED BY <2>1, <3>1
    <2>3. CASE orders[j].billed_on # None
      <3>1. PICK epoch : epoch = orders[j].billed_on - Delta
        OBVIOUS
      <3>2. epoch \in Int
        <4>1. orders[j].billed_on \in Metrics!Days
          BY <1>3, <2>3
        <4>2. orders[j].billed_on \in Nat /\ Delta \in Nat
          BY <4>1, NumbersAre
        <4>3. QED BY <3>1, <4>2
      <3> DEFINE kept == Metrics!KeepLatest(orders[j].metrics, epoch)
      <3>3. orders'[j] = [orders[j] EXCEPT !.metrics = kept]
        BY <1>1, <2>3, <3>1
      <3> HIDE DEF kept
      <3>4. /\ orders'[j].registered_on = orders[j].registered_on
            /\ orders'[j].cancelled_on = orders[j].cancelled_on
            /\ orders'[j].billed_on = orders[j].billed_on
            /\ orders'[j].billed_until = orders[j].billed_until
            /\ orders'[j].billed_metric = orders[j].billed_metric
            /\ orders'[j].metrics = kept
        BY <2>1, <3>3 DEF Metrics!OrderTypes
      <3>5. PICK n, o : n = orders'[j] /\ o = orders[j]
        OBVIOUS
      <3>6. /\ o.metrics \in SUBSET Metrics!Rows /\ RowsInOrder(o)
            /\ n.registered_on = o.registered_on /\ n.metrics = Metrics!KeepLatest(o.metrics, epoch)
        BY <2>1, <3>4, <3>5 DEF kept
      <3>7. /\ n.metrics \in SUBSET o.metrics
            /\ RowsInOrder(n)
            /\ \A row \in n.metrics, d \in Metrics!Days :
                 InEffect(row, n.metrics, d) => InEffect(row, o.metrics, d)
            /\ n.metrics = o.metrics \/ \E row \in n.metrics : row.created_on < epoch
        BY <3>2, <3>6, KeptRows
      <3>8. orders'[j] \in Metrics!OrderTypes
        <4>1. kept \in SUBSET Metrics!Rows
          BY <2>1, <3>4, <3>5, <3>7
        <4>2. QED BY <2>1, <3>3, <4>1 DEF Metrics!OrderTypes
      <3>9. QED BY <2>3, <3>1, <3>4, <3>5, <3>7, <3>8
    <2>4. QED BY <2>2, <2>3
  <1>6. /\ DOMAIN bill' = Billings
        /\ \A b \in Billings : bill'[b] # None =>
             \E ids \in SUBSET DOMAIN orders' : bill'[b] \in [ids -> Metrics!Charges]
        /\ (Metrics!ChargedAsMeasured)'
        /\ \A b, i : HasLines(b, i)' <=> HasLines(b, i)
        /\ \A b \in Billings : \A i : HasLines(b, i) => i \in DOMAIN orders
        /\ \A b \in Billings, k \in Metrics!Ids : HasLines(b, k)' => Complete(b, k)'
    BY <1>1, <1>4, BillsStay
  <1>7. Metrics!TypeOK'
    <2>1. orders' \in Seq(Metrics!OrderTypes) /\ Len(orders') = Len(orders)
      <3>1. \A j \in 1 .. Len(orders) : orders'[j] \in Metrics!OrderTypes
        BY <1>3, <1>5
      <3>2. QED BY <1>3, <1>4, <3>1, FunctionIsSeq
    <2>2. QED BY <1>1, <1>2, <1>6, <2>1 DEF Metrics!TypeOK
  <1>8. DatesOfOrders'
    <2>1. ASSUME NEW j \in DOMAIN orders' PROVE BilledTogether(orders[j])' /\ HaveCome(orders[j])'
      <3>1. BilledTogether(orders[j]) /\ HaveCome(orders[j])
        BY <1>4 DEF MetricsInv, DatesOfOrders
      <3>2. QED BY <1>1, <1>4, <1>5, <3>1 DEF BilledTogether, HaveCome
    <2>2. QED BY <1>6, <2>1 DEF DatesOfOrders
  <1>9. OrdersPart'
    <2>1. ASSUME NEW j \in DOMAIN orders' PROVE RowsInOrder(orders[j])' /\ RowsMeasured(j)'
      <3>1. RowsMeasured(j)
        BY <1>4 DEF MetricsInv
      <3>2. RowsInOrder(orders[j])'
        BY <1>1, <1>4, <1>5 DEF RowsInOrder
      <3>3. RowsMeasured(j)'
        BY <1>1, <1>2, <1>4, <1>5, <3>1 DEF RowsMeasured
      <3>4. QED BY <3>2, <3>3
    <2>2. QED BY <2>1 DEF OrdersPart
  <1>10. (Metrics!Active)' = Metrics!Active
    BY <1>4, <1>5 DEF Metrics!Active
  <1>11. ASSUME ~strays' PROVE OneSaves' /\ OrdersFollow'
    <2>1. OrdersFollow /\ OneSaves
      BY <1>1, <1>11 DEF MetricsInv
    <2>2. OneSaves'
      BY <1>1, <1>10, <2>1 DEF OneSaves
    <2>3. Metrics!Active \subseteq DOMAIN orders
      BY DEF Metrics!Active
    <2>4. \A j \in DOMAIN orders : /\ orders'[j].cancelled_on = orders[j].cancelled_on
                                   /\ orders'[j].registered_on = orders[j].registered_on
      BY <1>5
    <2>5. OrdersFollow'
      BY <1>4, <1>10, <2>1, <2>3, <2>4 DEF OrdersFollow
    <2>6. QED BY <2>2, <2>5
  <1>12. ASSUME ~strays', KeptLongEnough' PROVE MetricsKept'
    <2>1. MetricsKept /\ KeptLongEnough
      BY <1>1, <1>12 DEF MetricsInv, KeptLongEnough
    <2>2. ASSUME NEW j \in Metrics!Active PROVE KeptOf(j)'
      <3>1. j \in DOMAIN orders /\ KeptOf(j) /\ BilledTogether(orders[j]) /\ HaveCome(orders[j])
        BY <2>1 DEF Metrics!Active, MetricsKept, MetricsInv, DatesOfOrders
      <3>2. CASE orders'[j].metrics = orders[j].metrics
        <4>1. \A row \in orders[j].metrics : \E other \in orders'[j].metrics : other.created_on = row.created_on
          BY <3>2
        <4>2. QED BY <1>1, <1>5, <3>1, <4>1, KeptStays
      <3>3. CASE /\ orders[j].billed_on # None
                 /\ \E row \in orders'[j].metrics : row.created_on < orders[j].billed_on - Delta
        <4>1. PICK rows, kept, billed : rows = orders[j].metrics /\ kept = orders'[j].metrics
                                        /\ billed = orders[j].billed_on
          OBVIOUS
        <4>2. /\ rows \in SUBSET Metrics!Rows /\ kept \in SUBSET rows /\ billed \in Metrics!Days
              /\ \E row \in kept : row.created_on < billed - Delta
          BY <1>3, <1>5, <3>1, <3>3, <4>1
        <4>3. billed <= today /\ billed <= billed
          BY <3>1, <3>3, <4>1, <4>2, NumbersAre DEF HaveCome
        <4>4. PICK until : until = orders[j].billed_until
          OBVIOUS
        <4>5. until \in Metrics!Ends
          BY <1>3, <3>1, <3>3, <4>4 DEF BilledTogether
        <4>6. StillBegins(rows, billed, until)
          BY <3>1, <3>3, <4>1, <4>4 DEF KeptOf
        <4>7. StillBegins(kept, billed, until)
          BY <2>1, <4>2, <4>3, <4>5, <4>6, StillBeginsCleaned
        <4>8. StillBegins(orders[j].metrics, orders[j].billed_on, orders[j].billed_until)'
          BY <1>1, <1>5, <3>1, <4>1, <4>4, <4>7 DEF StillBegins
        <4>9. ASSUME NEW b \in Billings, HasLines(b, j)'
              PROVE  StillBegins(orders[j].metrics, today, bill[b][j].billed_until)'
          <5>1. HasLines(b, j) /\ j \in Metrics!Ids
            BY <1>2, <1>6, <3>1, <4>9, OrdersAre
          <5>2. PICK end : end = bill[b][j].billed_until
            OBVIOUS
          <5>3. end \in Metrics!Ends
            <6>1. PICK ids \in SUBSET DOMAIN orders : bill[b] \in [ids -> Metrics!Charges]
              BY <1>2, <5>1 DEF Metrics!TypeOK, HasLines
            <6>2. bill[b][j] \in Metrics!Charges
              BY <5>1, <6>1 DEF HasLines
            <6>3. end # None
              BY <5>1, <5>2 DEF MetricsInv, DatesOfOrders, Complete
            <6>4. QED BY <5>2, <6>2, <6>3 DEF Metrics!Charges
          <5>4. StillBegins(rows, today, end)
            BY <3>1, <4>1, <5>1, <5>2 DEF KeptOf
          <5>5. StillBegins(kept, today, end)
            BY <1>2, <2>1, <4>2, <4>3, <5>3, <5>4, StillBeginsCleaned
          <5>6. QED BY <1>1, <4>1, <5>2, <5>5 DEF StillBegins
        <4>10. orders'[j].billed_on # None
          BY <1>5, <3>1, <3>3
        <4>11. QED BY <4>8, <4>9, <4>10 DEF KeptOf
      <3>4. QED BY <1>5, <3>1, <3>2, <3>3
    <2>3. QED BY <1>10, <2>2 DEF MetricsKept
  <1>13. QED BY <1>6, <1>7, <1>8, <1>9, <1>11, <1>12 DEF MetricsInv, OrdersPart

\* An order is charged from a day it has rows of.
LEMMA LinesBegin ==
  ASSUME Metrics!Assumption, NEW o \in Metrics!OrderTypes, BilledTogether(o), NEW bp \in Metrics!Ends,
         ~ Metrics!ChargeRaises(o, bp), Metrics!Charge(o, bp).lines # {}
  PROVE  /\ \E row \in o.metrics : row.created_on < bp
         /\ Metrics!IsBilled(o, bp) => style = "prepay" /\ o.billed_on # None
  <1>1. bp \in Nat /\ o.metrics \in SUBSET Metrics!Rows
    BY NumbersAre DEF Metrics!OrderTypes
  <1>2. \A row \in o.metrics : row.created_on \in Nat
    BY <1>1, NumbersAre DEF Metrics!Rows
  <1>3. CASE Metrics!IsBilled(o, bp)
    <2>1. Metrics!Recharges(o)
      <3> SUFFICES ASSUME ~ Metrics!Recharges(o) PROVE FALSE
        OBVIOUS
      <3>1. Metrics!Charge(o, bp)
              = [lines |-> Metrics!NoLines.lines, billed_until |-> o.billed_until,
                 billed_metric |-> o.billed_metric]
        BY <1>3 DEF Metrics!Charge
      <3>2. QED BY <3>1 DEF Metrics!NoLines
    <2>2. style = "prepay" /\ o.billed_on # None /\ o.billed_until # None
      BY <2>1 DEF Metrics!Recharges, BilledTogether
    <2>3. PICK end : end = Metrics!Min({bp, o.billed_until})
      OBVIOUS
    <2>4. ~ Metrics!Raises(o.metrics, o.billed_on, end)
      BY <2>1, <2>3 DEF Metrics!ChargeRaises
    <2>5. o.billed_until \in Metrics!Ends
      BY <2>2 DEF Metrics!OrderTypes
    <2>6. o.billed_until \in Nat
      BY <2>5, NumbersAre
    <2>7. end <= bp /\ end \in Nat
      <3>1. bp \in Int /\ o.billed_until \in Int
        BY <1>1, <2>6
      <3>2. end = IF bp <= o.billed_until THEN bp ELSE o.billed_until
        BY <2>3, <3>1, ExtremesOfTwo
      <3>3. QED BY <1>1, <2>6, <3>2
    <2>8. PICK row \in o.metrics : row.created_on < end
      BY <2>4 DEF Metrics!Raises, Metrics!Before
    <2>9. row.created_on < bp
      BY <1>1, <1>2, <2>7, <2>8
    <2>10. QED BY <2>2, <2>9
  <1>4. CASE ~ Metrics!IsBilled(o, bp)
    <2>1. ~ Metrics!Raises(o.metrics, Metrics!Begins(o), bp)
      BY <1>4 DEF Metrics!ChargeRaises
    <2>2. QED BY <1>4, <2>1 DEF Metrics!Raises, Metrics!Before
  <1>5. QED BY <1>3, <1>4

\* An active order is charged until the billing point of the day, as the orders before it
\* that were cancelled were so when it began.
LEMMA PointOfActive ==
  ASSUME Metrics!Assumption, MetricsInv, ~strays,
         NEW ids \in SUBSET DOMAIN orders, NEW i \in ids, i \in Metrics!Active,
         NEW bp, bp = Metrics!get_billing_point(i, ids), ~ Metrics!ChargeRaises(orders[i], bp),
         Metrics!Charge(orders[i], bp).lines # {}
  PROVE  bp = Point
  <1>1. PICK o : o = orders[i]
    OBVIOUS
  <1>2. Metrics!TypeOK
    BY DEF MetricsInv
  <1>3. /\ o \in Metrics!OrderTypes /\ o.metrics \in SUBSET Metrics!Rows
        /\ o.registered_on \in Metrics!Days /\ o.cancelled_on = None
    BY <1>1, <1>2, OrdersAre DEF Metrics!Active
  <1>4. BilledTogether(o) /\ RowsInOrder(o)
    BY <1>1 DEF MetricsInv, DatesOfOrders
  <1>5. bp \in Metrics!Ends
        /\ (bp = Point \/ \E j \in ids : /\ j <= i /\ orders[j].cancelled_on # None
                                          /\ bp = orders[j].cancelled_on)
    BY <1>2, PointOfOrder
  <1>6. bp \in Nat /\ o.registered_on \in Nat /\ \A row \in o.metrics : row.created_on \in Nat
    BY <1>3, <1>5, NumbersAre DEF Metrics!Rows
  <1>7. SUFFICES ASSUME NEW j \in ids, j <= i, orders[j].cancelled_on # None,
                        bp = orders[j].cancelled_on
                 PROVE  FALSE
    BY <1>5
  <1>8. j # i /\ j \in DOMAIN orders
    BY <1>1, <1>3, <1>7
  <1>9. i \in Nat /\ j \in Nat
    BY <1>2, <1>8, OrdersAre DEF Metrics!Ids
  <1>10. j < i
    BY <1>7, <1>8, <1>9
  <1>11. orders[j].cancelled_on <= orders[i].registered_on
    BY <1>8, <1>10 DEF MetricsInv, OrdersFollow
  <1>12. bp <= o.registered_on
    BY <1>1, <1>7, <1>11
  <1>13. PICK row \in o.metrics : row.created_on < bp
    BY <1>1, <1>3, <1>4, <1>5, LinesBegin
  <1>14. o.registered_on <= row.created_on
    BY <1>4 DEF RowsInOrder
  <1>15. QED BY <1>6, <1>12, <1>13, <1>14

\* The metrics of an active order that is charged go back to today, and to where it is
\* billed until.
LEMMA ChargeKept ==
  ASSUME Metrics!Assumption, MetricsInv, ~strays, KeptLongEnough,
         NEW ids \in SUBSET DOMAIN orders, NEW i \in ids, i \in Metrics!Active,
         NEW bp, bp = Metrics!get_billing_point(i, ids), ~ Metrics!ChargeRaises(orders[i], bp),
         NEW c, c = Metrics!Charge(orders[i], bp), c.lines # {}
  PROVE  StillBegins(orders[i].metrics, today, c.billed_until)
  <1>1. PICK o : o = orders[i]
    OBVIOUS
  <1>2. /\ Metrics!TypeOK /\ today \in Metrics!Days
    BY DEF MetricsInv, Metrics!TypeOK
  <1>3. /\ o \in Metrics!OrderTypes /\ o.metrics \in SUBSET Metrics!Rows /\ o.registered_on \in Metrics!Days
        /\ o.billed_on \in Metrics!Days \cup {None} /\ o.billed_until \in Metrics!Ends \cup {None}
        /\ o.cancelled_on = None
    BY <1>1, <1>2, OrdersAre DEF Metrics!Active
  <1>4. BilledTogether(o) /\ HaveCome(o) /\ RowsInOrder(o)
    BY <1>1 DEF MetricsInv, DatesOfOrders
  <1>5. bp \in Metrics!Ends
        /\ (bp = Point \/ \E j \in ids : /\ j <= i /\ orders[j].cancelled_on # None
                                          /\ bp = orders[j].cancelled_on)
    BY <1>2, PointOfOrder
  <1>6. bp \in Nat /\ today \in Nat /\ Period \in Nat /\ o.registered_on \in Nat
        /\ \A row \in o.metrics : row.created_on \in Nat
    BY <1>2, <1>3, <1>5, NumbersAre DEF Metrics!Rows
  <1>7. (\E row \in o.metrics : row.created_on < bp)
        /\ (Metrics!IsBilled(o, bp) => style = "prepay" /\ o.billed_on # None)
    BY <1>1, <1>3, <1>4, <1>5, LinesBegin
  <1>8. bp = Point
    BY PointOfActive
  <1>9. today < bp + Period /\ (style = "prepay" => today < bp)
    BY <1>2, <1>8, PointOfDay
  <1>10. KeptOf(i)
    BY DEF MetricsInv, MetricsKept
  <1>11. CASE Metrics!IsBilled(o, bp)
    <2>1. style = "prepay" /\ o.billed_on # None /\ o.billed_until # None
      BY <1>4, <1>7, <1>11 DEF BilledTogether
    <2>2. o.billed_on \in Nat /\ o.billed_until \in Nat /\ o.billed_on <= today
      BY <1>3, <1>4, <2>1, NumbersAre DEF HaveCome
    <2>3. bp <= o.billed_until
      BY <1>3, <1>11, <2>1 DEF Metrics!IsBilled, Metrics!IsOver, Metrics!Begins
    <2>4. c.billed_until = o.billed_until
      BY <1>1, <1>11 DEF Metrics!Charge
    <2>5. PICK row \in o.metrics : row.created_on <= o.billed_on /\ row.created_on <= o.billed_until
      BY <1>1, <1>10, <2>1 DEF KeptOf, StillBegins
    <2>6. row.created_on <= today
      BY <1>6, <2>2, <2>5
    <2>7. today < o.billed_until /\ today < o.billed_until + Period
      BY <1>6, <1>9, <2>1, <2>2, <2>3
    <2>8. QED BY <1>1, <2>4, <2>5, <2>6, <2>7 DEF StillBegins
  <1>12. CASE ~ Metrics!IsBilled(o, bp)
    <2>1. c.billed_until = bp
      BY <1>1, <1>12 DEF Metrics!Charge
    <2>2. ~ (bp <= Metrics!Begins(o))
      BY <1>12 DEF Metrics!IsBilled
    <2>3. CASE o.billed_on = None
      <3>1. Metrics!Begins(o) = o.registered_on
        BY <1>4, <2>3 DEF BilledTogether, Metrics!Begins
      <3>2. PICK row \in o.metrics : row.created_on <= o.registered_on
        BY <1>1, <1>10, <2>3 DEF KeptOf, GoesBack
      <3>3. o.registered_on <= today
        BY <1>4 DEF HaveCome
      <3>4. row.created_on <= today /\ row.created_on <= bp
        BY <1>6, <2>2, <3>1, <3>2, <3>3
      <3>5. QED BY <1>1, <1>9, <2>1, <3>4 DEF StillBegins
    <2>4. CASE o.billed_on # None
      <3>1. o.billed_until # None /\ Metrics!Begins(o) = o.billed_until
        BY <1>4, <2>4 DEF BilledTogether, Metrics!Begins
      <3>2. o.billed_on \in Nat /\ o.billed_until \in Nat /\ o.billed_on <= today
        BY <1>3, <1>4, <2>4, <3>1, NumbersAre DEF HaveCome
      <3>3. PICK row \in o.metrics : row.created_on <= o.billed_on /\ row.created_on <= o.billed_until
        BY <1>1, <1>10, <2>4 DEF KeptOf, StillBegins
      <3>4. row.created_on <= today /\ row.created_on <= bp
        BY <1>6, <2>2, <3>1, <3>2, <3>3
      <3>5. QED BY <1>1, <1>9, <2>1, <3>4 DEF StillBegins
    <2>5. QED BY <2>3, <2>4
  <1>13. QED BY <1>11, <1>12

LEMMA BillMetricStep ==
  ASSUME Metrics!Assumption, MetricsInv, NEW b \in Billings, Metrics!Bill(b)
  PROVE  MetricsInv'
  <1>1. PICK ids \in {DOMAIN orders} \cup {{i} : i \in DOMAIN orders} :
          LET point == [i \in ids |-> Metrics!get_billing_point(i, ids)] IN
          /\ ids # {}
          /\ \A i \in ids : ~ Metrics!ChargeRaises(orders[i], point[i])
          /\ bill' = [bill EXCEPT ![b] = [i \in ids |-> Metrics!Charge(orders[i], point[i])]]
          /\ spent' = spent \cup {i \in ids : Metrics!Spends(orders[i], point[i])}
    BY DEF Metrics!Bill
  <1> DEFINE point(i) == Metrics!get_billing_point(i, ids)
             charge(i) == Metrics!Charge(orders[i], point(i))
  <1>2. ids \in SUBSET DOMAIN orders
    OBVIOUS
  <1>3. /\ \A i \in ids : ~ Metrics!ChargeRaises(orders[i], point(i))
        /\ bill' = [bill EXCEPT ![b] = [i \in ids |-> charge(i)]]
        /\ spent' \subseteq spent \cup ids
    BY <1>1
  <1>4. /\ bill[b] = None /\ bills < MaxBills /\ bills' = bills + 1
        /\ twice' = (twice \/ \E d \in Billings : bill[d] # None)
        /\ UNCHANGED <<today, style, orders, saves, found, reported, measured, paid, strays>>
    BY DEF Metrics!Bill
  <1>5. /\ Metrics!TypeOK /\ today \in Metrics!Days /\ DOMAIN bill = Billings /\ bills \in 0 .. MaxBills
        /\ spent \subseteq Metrics!Ids /\ twice \in BOOLEAN
    BY DEF MetricsInv, Metrics!TypeOK
  <1>6. /\ DOMAIN orders \subseteq Metrics!Ids
        /\ \A i \in DOMAIN orders : orders[i] \in Metrics!OrderTypes
    BY <1>5, OrdersAre
  <1> HIDE DEF point, charge
  <1>7. ASSUME NEW i \in ids
        PROVE  /\ charge(i) \in Metrics!Charges /\ IsFiniteSet(charge(i).lines)
               /\ \A line \in charge(i).lines : LineTrue(line, orders[i].metrics)
               /\ charge(i).lines # {} => charge(i).billed_until # None /\ charge(i).billed_metric # None
    <2>1. PICK o, bp : o = orders[i] /\ bp = point(i)
      OBVIOUS
    <2>2. o \in Metrics!OrderTypes /\ RowsInOrder(o) /\ BilledTogether(o)
      BY <1>2, <1>6, <2>1 DEF MetricsInv, DatesOfOrders
    <2>3. bp \in Metrics!Ends /\ ~ Metrics!ChargeRaises(o, bp)
      BY <1>2, <1>3, <1>5, <2>1, PointOfOrder DEF point
    <2>4. charge(i) = Metrics!Charge(o, bp)
      BY <2>1 DEF charge
    <2>5. QED BY <2>1, <2>2, <2>3, <2>4, ChargeLines
  <1>8. /\ DOMAIN bill' = Billings /\ bill'[b] = [i \in ids |-> charge(i)]
        /\ \A d \in Billings : d # b => bill'[d] = bill[d]
    BY <1>3, <1>5
  <1>9. ASSUME NEW i, HasLines(b, i)' PROVE i \in ids /\ bill'[b][i] = charge(i) /\ charge(i).lines # {}
    BY <1>8, <1>9 DEF HasLines
  <1>10. Metrics!TypeOK'
    <2>1. ASSUME NEW d \in Billings, bill'[d] # None
          PROVE  \E some \in SUBSET DOMAIN orders' : bill'[d] \in [some -> Metrics!Charges]
      <3>1. CASE d = b
        <4>1. bill'[d] \in [ids -> Metrics!Charges]
          BY <1>7, <1>8, <3>1
        <4>2. QED BY <1>2, <1>4, <4>1
      <3>2. CASE d # b
        BY <1>4, <1>5, <1>8, <2>1, <3>2 DEF Metrics!TypeOK
      <3>3. QED BY <3>1, <3>2
    <2>2. bills' \in 0 .. MaxBills
      BY <1>4, <1>5 DEF Metrics!Assumption
    <2>3. spent' \subseteq Metrics!Ids
      BY <1>2, <1>3, <1>5, <1>6
    <2>4. twice' \in BOOLEAN
      BY <1>4, <1>5
    <2>5. QED BY <1>4, <1>5, <1>8, <2>1, <2>2, <2>3, <2>4 DEF Metrics!TypeOK
  <1>11. DatesOfOrders'
    <2>1. ASSUME NEW d \in Billings, NEW i \in Metrics!Ids, HasLines(d, i)' PROVE Complete(d, i)'
      <3>1. CASE d = b
        BY <1>7, <1>9, <2>1, <3>1 DEF Complete
      <3>2. CASE d # b
        <4>1. bill'[d] = bill[d] /\ HasLines(d, i)
          BY <1>8, <2>1, <3>2 DEF HasLines
        <4>2. QED BY <4>1 DEF MetricsInv, DatesOfOrders, Complete
      <3>3. QED BY <3>1, <3>2
    <2>2. \A i \in DOMAIN orders' : BilledTogether(orders[i])' /\ HaveCome(orders[i])'
      BY <1>4 DEF MetricsInv, DatesOfOrders, BilledTogether, HaveCome
    <2>3. QED BY <2>1, <2>2 DEF DatesOfOrders
  <1>12. OrdersPart'
    BY <1>4 DEF MetricsInv, OrdersPart, RowsInOrder, RowsMeasured
  <1>13. (Metrics!ChargedAsMeasured)'
    <2>1. ASSUME NEW i \in ids, NEW line \in charge(i).lines,
                 NEW d \in line.ini .. line.end - 1, d < today
          PROVE  Metrics!Near(line.metric, measured[i][d])
      <3>1. LineTrue(line, orders[i].metrics) /\ charge(i) \in Metrics!Charges
        BY <1>7
      <3>2. line.ini \in Nat /\ line.end \in Nat
        BY <3>1, NumbersAre DEF Metrics!Charges
      <3>3. d \in Metrics!Days /\ line.ini <= d /\ d < line.end
        <4>1. today \in Nat /\ today <= MaxDay /\ MaxDay \in Nat
          BY <1>5, NumbersAre
        <4>2. QED BY <2>1, <3>2, <4>1 DEF Metrics!Days
      <3>a. d \in Metrics!Ends
        BY <3>3, NumbersAre
      <3>4. PICK row \in orders[i].metrics : line.metric = row.value /\ InEffect(row, orders[i].metrics, d)
        BY <3>1, <3>3, <3>a DEF LineTrue
      <3>5. QED BY <1>2, <2>1, <3>3, <3>4 DEF MetricsInv, RowsMeasured
    <2>2. ASSUME NEW d \in Billings, bill'[d] # None, NEW i \in DOMAIN bill'[d],
                 NEW line \in bill'[d][i].lines, NEW day \in line.ini .. line.end - 1, day < today'
          PROVE  Metrics!Near(line.metric, measured'[i][day])
      <3>1. CASE d = b
        <4>1. i \in ids /\ bill'[d][i] = charge(i)
          BY <1>8, <2>2, <3>1
        <4>2. QED BY <1>4, <2>1, <2>2, <4>1
      <3>2. CASE d # b
        BY <1>4, <1>8, <2>2, <3>2 DEF MetricsInv, Metrics!ChargedAsMeasured
      <3>3. QED BY <3>1, <3>2
    <2>3. QED BY <2>2 DEF Metrics!ChargedAsMeasured, Metrics!Near
  <1>14. (Metrics!Active)' = Metrics!Active
    BY <1>4 DEF Metrics!Active
  <1>15. ~strays' => OneSaves' /\ OrdersFollow'
    BY <1>4, <1>14 DEF MetricsInv, OneSaves, OrdersFollow
  <1>16. ASSUME ~strays', KeptLongEnough' PROVE MetricsKept'
    <2>1. ~strays /\ MetricsKept /\ KeptLongEnough
      BY <1>4, <1>16 DEF MetricsInv, KeptLongEnough
    <2>2. ASSUME NEW i \in Metrics!Active PROVE KeptOf(i)'
      <3>1. KeptOf(i)
        BY <2>1 DEF MetricsKept
      <3>2. ASSUME NEW d \in Billings, HasLines(d, i)'
            PROVE  StillBegins(orders[i].metrics, today, bill[d][i].billed_until)'
        <4>1. CASE d = b
          <5>1. i \in ids /\ bill'[b][i] = charge(i) /\ charge(i).lines # {}
            BY <1>9, <3>2, <4>1
          <5>2. PICK bp, c : bp = point(i) /\ c = charge(i)
            OBVIOUS
          <5>3. bp = Metrics!get_billing_point(i, ids) /\ c = Metrics!Charge(orders[i], bp)
            BY <5>2 DEF point, charge
          <5>4. ~ Metrics!ChargeRaises(orders[i], bp)
            BY <1>3, <5>1, <5>2
          <5>5. StillBegins(orders[i].metrics, today, c.billed_until)
            BY <1>2, <2>1, <5>1, <5>2, <5>3, <5>4, ChargeKept
          <5>6. QED BY <1>4, <4>1, <5>1, <5>2, <5>5 DEF StillBegins
        <4>2. CASE d # b
          <5>1. bill'[d] = bill[d] /\ HasLines(d, i)
            BY <1>8, <3>2, <4>2 DEF HasLines
          <5>2. StillBegins(orders[i].metrics, today, bill[d][i].billed_until)
            BY <3>1, <5>1 DEF KeptOf
          <5>3. QED BY <1>4, <5>1, <5>2 DEF StillBegins
        <4>3. QED BY <4>1, <4>2
      <3>3. QED BY <1>4, <3>1, <3>2 DEF KeptOf, GoesBack, StillBegins
    <2>3. QED BY <1>14, <2>2 DEF MetricsKept
  <1>17. QED BY <1>10, <1>11, <1>12, <1>13, <1>15, <1>16 DEF MetricsInv, OrdersPart

LEMMA CommitMetricStep ==
  ASSUME Metrics!Assumption, MetricsInv, NEW b \in Billings, Metrics!CommitBill(b)
  PROVE  MetricsInv'
  <1> DEFINE Saved(i) == HasLines(b, i)
  <1>1. /\ bill[b] # None /\ bill' = [bill EXCEPT ![b] = None]
        /\ orders' = [i \in DOMAIN orders |->
             IF i \in DOMAIN bill[b] /\ bill[b][i].lines # {}
             THEN [orders[i] EXCEPT !.billed_on = today, !.billed_until = bill[b][i].billed_until,
                                    !.billed_metric = bill[b][i].billed_metric]
             ELSE orders[i]]
        /\ paid' = [i \in Metrics!Ids |->
             paid[i] + IF i \in DOMAIN bill[b] THEN Metrics!Charged(bill[b][i].lines) ELSE 0]
        /\ UNCHANGED <<today, style, saves, bills, found, reported, measured, strays, twice, spent>>
    BY DEF Metrics!CommitBill
  <1>2. /\ Metrics!TypeOK /\ today \in Metrics!Days /\ Len(orders) <= MaxOrders
        /\ DOMAIN bill = Billings /\ paid \in [Metrics!Ids -> Nat]
    BY DEF MetricsInv, Metrics!TypeOK
  <1>3. /\ Len(orders) \in Nat /\ DOMAIN orders = 1 .. Len(orders) /\ DOMAIN orders \subseteq Metrics!Ids
        /\ \A j \in DOMAIN orders : orders[j] \in Metrics!OrderTypes
    BY <1>2, OrdersAre
  <1>4. PICK ids \in SUBSET DOMAIN orders : bill[b] \in [ids -> Metrics!Charges]
    BY <1>1, <1>2 DEF Metrics!TypeOK
  <1>5. bill'[b] = None /\ \A d \in Billings : d # b => bill'[d] = bill[d]
    BY <1>1, <1>2
  <1>6. \A d \in Billings : \A i : HasLines(d, i)' => d # b /\ bill'[d] = bill[d] /\ HasLines(d, i)
    BY <1>5 DEF HasLines
  <1>7. ASSUME NEW i \in DOMAIN orders
        PROVE  /\ Saved(i) => orders'[i] = [orders[i] EXCEPT !.billed_on = today,
                                                            !.billed_until = bill[b][i].billed_until,
                                                            !.billed_metric = bill[b][i].billed_metric]
               /\ ~ Saved(i) => orders'[i] = orders[i]
    BY <1>1 DEF HasLines
  <1>8. DOMAIN orders' = DOMAIN orders /\ orders' = [j \in 1 .. Len(orders) |-> orders'[j]]
    BY <1>1, <1>3
  <1>9. \A i : Saved(i) => i \in ids
    BY <1>4 DEF HasLines
  <1>10. ASSUME NEW i, Saved(i)
         PROVE  /\ Complete(b, i) /\ bill[b][i] \in Metrics!Charges
                /\ bill[b][i].billed_until \in Metrics!Ends /\ bill[b][i].billed_metric \in Values
    <2>1. i \in ids /\ i \in Metrics!Ids
      BY <1>3, <1>9, <1>10
    <2>2. Complete(b, i)
      BY <1>10, <2>1 DEF MetricsInv, DatesOfOrders
    <2>3. bill[b][i] \in Metrics!Charges
      BY <1>4, <2>1
    <2>4. QED BY <2>2, <2>3 DEF Complete, Metrics!Charges
  <1> HIDE DEF Saved
  <1>11. ASSUME NEW i \in DOMAIN orders
         PROVE  /\ orders'[i] \in Metrics!OrderTypes
                /\ orders'[i].metrics = orders[i].metrics
                /\ orders'[i].registered_on = orders[i].registered_on
                /\ orders'[i].cancelled_on = orders[i].cancelled_on
                /\ orders'[i].billed_on = (IF Saved(i) THEN today ELSE orders[i].billed_on)
                /\ orders'[i].billed_until = (IF Saved(i) THEN bill[b][i].billed_until ELSE orders[i].billed_until)
                /\ orders'[i].billed_metric = (IF Saved(i) THEN bill[b][i].billed_metric ELSE orders[i].billed_metric)
    <2>1. orders[i] \in Metrics!OrderTypes
      BY <1>3
    <2>2. CASE Saved(i)
      <3>1. PICK until, metric : until = bill[b][i].billed_until /\ metric = bill[b][i].billed_metric
        OBVIOUS
      <3>2. until \in Metrics!Ends /\ metric \in Values
        BY <1>10, <2>2, <3>1
      <3>3. orders'[i] = [orders[i] EXCEPT !.billed_on = today, !.billed_until = until, !.billed_metric = metric]
        BY <1>7, <2>2, <3>1
      <3>4. /\ orders'[i] \in Metrics!OrderTypes
            /\ orders'[i].billed_on = today /\ orders'[i].billed_until = until
            /\ orders'[i].billed_metric = metric
            /\ orders'[i].metrics = orders[i].metrics
            /\ orders'[i].registered_on = orders[i].registered_on
            /\ orders'[i].cancelled_on = orders[i].cancelled_on
        BY <1>2, <2>1, <3>2, <3>3 DEF Metrics!OrderTypes
      <3>5. QED BY <2>2, <3>1, <3>4
    <2>3. CASE ~ Saved(i)
      BY <1>7, <2>1, <2>3
    <2>4. QED BY <2>2, <2>3
  <1>12. Metrics!TypeOK'
    <2>1. orders' \in Seq(Metrics!OrderTypes) /\ Len(orders') = Len(orders)
      <3>1. \A j \in 1 .. Len(orders) : orders'[j] \in Metrics!OrderTypes
        BY <1>3, <1>11
      <3>2. QED BY <1>3, <1>8, <3>1, FunctionIsSeq
    <2>2. DOMAIN bill' = Billings
      BY <1>1, <1>2
    <2>3. ASSUME NEW d \in Billings, bill'[d] # None
          PROVE  \E some \in SUBSET DOMAIN orders' : bill'[d] \in [some -> Metrics!Charges]
      BY <1>2, <1>5, <1>8, <2>3 DEF Metrics!TypeOK
    <2>4. paid' \in [Metrics!Ids -> Nat]
      <3>1. ASSUME NEW i \in DOMAIN bill[b] PROVE Metrics!Charged(bill[b][i].lines) \in Nat
        <4>1. PICK lines, f : lines = bill[b][i].lines /\ f = [line \in lines |-> line.net]
          OBVIOUS
        <4>2. IsFiniteSet(lines)
          <5>1. CASE lines = {}
            BY <5>1, FS_EmptySet
          <5>2. CASE lines # {}
            <6>1. Saved(i)
              BY <1>1, <3>1, <4>1, <5>2 DEF Saved, HasLines
            <6>2. QED BY <1>10, <4>1, <6>1 DEF Complete
          <5>3. QED BY <5>1, <5>2
        <4>3. \A line \in lines : f[line] \in Nat
          <5>1. bill[b][i] \in Metrics!Charges
            BY <1>4, <3>1
          <5>2. \A line \in lines : line.net \in Nat
            BY <4>1, <5>1 DEF Metrics!Charges
          <5>3. QED BY <4>1, <5>2
        <4>4. Metrics!Total(f, lines) \in Nat
          BY <4>2, <4>3, TotalIsNat
        <4>5. QED BY <4>1, <4>4 DEF Metrics!Charged
      <3>2. ASSUME NEW i \in Metrics!Ids PROVE paid'[i] \in Nat
        <4>1. PICK more : more = IF i \in DOMAIN bill[b] THEN Metrics!Charged(bill[b][i].lines) ELSE 0
          OBVIOUS
        <4>2. more \in Nat
          BY <3>1, <4>1
        <4>3. paid'[i] = paid[i] + more
          BY <1>1, <4>1
        <4>4. QED BY <1>2, <4>2, <4>3
      <3>3. QED BY <1>1, <3>2
    <2>5. QED BY <1>1, <1>2, <2>1, <2>2, <2>3, <2>4 DEF Metrics!TypeOK
  <1>13. today \in Nat /\ today # None /\ None \notin Nat /\ today <= today
    <2>1. today \in Nat /\ today # None /\ None \notin Nat
      BY <1>2, NumbersAre
    <2>2. QED BY <2>1
  <1>a. today' = today
    BY <1>1
  <1>14. DatesOfOrders'
    <2>1. ASSUME NEW i \in DOMAIN orders' PROVE BilledTogether(orders[i])' /\ HaveCome(orders[i])'
      <3>1. BilledTogether(orders[i]) /\ HaveCome(orders[i])
        BY <1>8 DEF MetricsInv, DatesOfOrders
      <3>2. CASE Saved(i)
        <4>1. PICK until, metric : until = bill[b][i].billed_until /\ metric = bill[b][i].billed_metric
          OBVIOUS
        <4>2. until # None /\ metric # None
          <5>1. Complete(b, i)
            BY <1>10, <3>2
          <5>2. QED BY <4>1, <5>1 DEF Complete
        <4>3. /\ orders'[i].registered_on = orders[i].registered_on
              /\ orders'[i].cancelled_on = orders[i].cancelled_on
              /\ orders'[i].billed_on = today /\ orders'[i].billed_until = until
              /\ orders'[i].billed_metric = metric
          BY <1>8, <1>11, <3>2, <4>1
        <4>4. BilledTogether(orders[i])'
          BY <1>13, <4>2, <4>3 DEF BilledTogether
        <4>5. HaveCome(orders[i])'
          BY <1>13, <1>a, <3>1, <4>3 DEF HaveCome
        <4>6. QED BY <4>4, <4>5
      <3>3. CASE ~ Saved(i)
        <4>1. /\ orders'[i].registered_on = orders[i].registered_on
              /\ orders'[i].cancelled_on = orders[i].cancelled_on
              /\ orders'[i].billed_on = orders[i].billed_on
              /\ orders'[i].billed_until = orders[i].billed_until
              /\ orders'[i].billed_metric = orders[i].billed_metric
          BY <1>8, <1>11, <3>3
        <4>2. QED BY <1>a, <3>1, <4>1 DEF BilledTogether, HaveCome
      <3>4. QED BY <3>2, <3>3
    <2>2. ASSUME NEW d \in Billings, NEW i \in Metrics!Ids, HasLines(d, i)' PROVE Complete(d, i)'
      <3>1. bill'[d] = bill[d] /\ HasLines(d, i)
        BY <1>6, <2>2
      <3>2. QED BY <3>1 DEF MetricsInv, DatesOfOrders, Complete
    <2>3. QED BY <2>1, <2>2 DEF DatesOfOrders
  <1>15. OrdersPart'
    <2>1. ASSUME NEW i \in DOMAIN orders' PROVE RowsInOrder(orders[i])' /\ RowsMeasured(i)'
      <3>1. RowsInOrder(orders[i]) /\ RowsMeasured(i)
        BY <1>8 DEF MetricsInv
      <3>2. QED BY <1>1, <1>8, <1>11, <3>1 DEF RowsInOrder, RowsMeasured
    <2>2. QED BY <2>1 DEF OrdersPart
  <1>16. (Metrics!ChargedAsMeasured)'
    BY <1>1, <1>5 DEF MetricsInv, Metrics!ChargedAsMeasured
  <1>17. (Metrics!Active)' = Metrics!Active
    BY <1>8, <1>11 DEF Metrics!Active
  <1>18. ASSUME ~strays' PROVE OneSaves' /\ OrdersFollow'
    <2>1. OrdersFollow /\ OneSaves
      BY <1>1, <1>18 DEF MetricsInv
    <2>2. OneSaves'
      BY <1>1, <1>17, <2>1 DEF OneSaves
    <2>3. Metrics!Active \subseteq DOMAIN orders
      BY DEF Metrics!Active
    <2>4. \A j \in DOMAIN orders : /\ orders'[j].cancelled_on = orders[j].cancelled_on
                                   /\ orders'[j].registered_on = orders[j].registered_on
      BY <1>11
    <2>5. QED BY <1>8, <1>17, <2>1, <2>2, <2>3, <2>4 DEF OrdersFollow
  <1>19. ASSUME ~strays', KeptLongEnough' PROVE MetricsKept'
    <2>1. MetricsKept
      BY <1>1, <1>19 DEF MetricsInv, KeptLongEnough
    <2>2. ASSUME NEW i \in Metrics!Active PROVE KeptOf(i)'
      <3>1. i \in DOMAIN orders /\ KeptOf(i)
        BY <2>1 DEF Metrics!Active, MetricsKept
      <3>2. ASSUME NEW d \in Billings, HasLines(d, i)'
            PROVE  StillBegins(orders[i].metrics, today, bill[d][i].billed_until)'
        <4>1. bill'[d] = bill[d] /\ HasLines(d, i)
          BY <1>6, <3>2
        <4>2. StillBegins(orders[i].metrics, today, bill[d][i].billed_until)
          BY <3>1, <4>1 DEF KeptOf
        <4>3. QED BY <1>1, <1>11, <3>1, <4>1, <4>2 DEF StillBegins
      <3>3. CASE Saved(i)
        <4>1. PICK until : until = bill[b][i].billed_until
          OBVIOUS
        <4>2. StillBegins(orders[i].metrics, today, until)
          BY <3>1, <3>3, <4>1 DEF KeptOf, Saved
        <4>3. StillBegins(orders[i].metrics, orders[i].billed_on, orders[i].billed_until)'
          <5>1. /\ orders'[i].metrics = orders[i].metrics /\ orders'[i].billed_on = today
                /\ orders'[i].billed_until = until
            BY <1>11, <3>1, <3>3, <4>1
          <5>2. style' = style
            BY <1>1
          <5>3. QED BY <4>2, <5>1, <5>2 DEF StillBegins
        <4>4. orders'[i].billed_on # None
          BY <1>11, <1>13, <3>1, <3>3
        <4>5. QED BY <3>2, <4>3, <4>4 DEF KeptOf
      <3>4. CASE ~ Saved(i)
        <4>1. /\ orders'[i].metrics = orders[i].metrics /\ orders'[i].billed_on = orders[i].billed_on
              /\ orders'[i].billed_until = orders[i].billed_until
              /\ orders'[i].registered_on = orders[i].registered_on
          BY <1>11, <3>1, <3>4
        <4>2. QED BY <1>1, <3>1, <3>2, <4>1 DEF KeptOf, GoesBack, StillBegins
      <3>5. QED BY <3>3, <3>4
    <2>3. QED BY <1>17, <2>2 DEF MetricsKept
  <1>20. QED BY <1>12, <1>14, <1>15, <1>16, <1>18, <1>19 DEF MetricsInv, OrdersPart

LEMMA MetricsInvIsInductive ==
  ASSUME Metrics!Assumption
  PROVE  /\ Metrics!Init => MetricsInv
         /\ MetricsInv /\ [Metrics!Next]_(Metrics!vars) => MetricsInv'
  <1>1. Metrics!Init => MetricsInv
    <2> SUFFICES ASSUME Metrics!Init PROVE MetricsInv
      OBVIOUS
    <2>1. /\ today = 0 /\ style \in {"prepay", "postpay"} /\ orders = << >> /\ saves = 0 /\ bills = 0
          /\ found = [r \in Requests |-> None] /\ bill = [b \in Billings |-> None]
          /\ reported = [i \in Metrics!Ids |-> 0]
          /\ measured = [i \in Metrics!Ids |-> [d \in Metrics!Days |-> 0]]
          /\ paid = [i \in Metrics!Ids |-> 0] /\ strays = FALSE /\ twice = FALSE /\ spent = {}
      BY DEF Metrics!Init
    <2>2. /\ MaxDay \in Nat /\ MaxOrders \in Nat /\ MaxSaves \in Nat /\ MaxBills \in Nat
      BY DEF Metrics!Assumption
    <2>3. DOMAIN orders = {} /\ Len(orders) = 0 /\ orders \in Seq(Metrics!OrderTypes)
      BY <2>1
    <2>4. /\ \A b \in Billings : bill[b] = None
          /\ \A r \in Requests : found[r] = None
      BY <2>1
    <2>5. Metrics!TypeOK
      <3>1. today \in Metrics!Days /\ saves \in 0 .. MaxSaves /\ bills \in 0 .. MaxBills
            /\ Len(orders) <= MaxOrders
        BY <2>1, <2>2, <2>3 DEF Metrics!Days
      <3>2. found \in [Requests -> (SUBSET Metrics!Ids) \cup {None}] /\ DOMAIN bill = Billings
            /\ reported \in [Metrics!Ids -> Nat] /\ paid \in [Metrics!Ids -> Nat]
        BY <2>1
      <3>3. measured \in [Metrics!Ids -> [Metrics!Days -> Nat]]
        BY <2>1
      <3>4. QED BY <2>1, <2>3, <2>4, <3>1, <3>2, <3>3 DEF Metrics!TypeOK
    <2>6. DatesOfOrders /\ Metrics!ChargedAsMeasured
      BY <2>3, <2>4 DEF DatesOfOrders, HasLines, Metrics!ChargedAsMeasured
    <2>7. Metrics!Active = {}
      BY <2>3 DEF Metrics!Active
    <2>8. OneSaves /\ OrdersFollow /\ MetricsKept
      BY <2>4, <2>7 DEF OneSaves, OrdersFollow, MetricsKept
    <2>9. QED BY <2>3, <2>5, <2>6, <2>8 DEF MetricsInv
  <1>2. ASSUME MetricsInv, Metrics!Next PROVE MetricsInv'
    <2>1. ASSUME NEW r \in Requests, Metrics!Save(r) PROVE MetricsInv'
      BY <1>2, <2>1, SaveMetricStep
    <2>2. ASSUME NEW r \in Requests, Metrics!CancelOrders(r) PROVE MetricsInv'
      BY <1>2, <2>2, CancelMetricStep
    <2>3. ASSUME NEW r \in Requests, Metrics!ChangesNothing(r) PROVE MetricsInv'
      BY <1>2, <2>3, NothingMetricStep
    <2>4. ASSUME NEW r \in Requests, NEW value \in Values, Metrics!CreateOrder(r, value) PROVE MetricsInv'
      BY <1>2, <2>4, CreateMetricStep
    <2>5. ASSUME NEW r \in Requests, NEW value \in Values, Metrics!UpdateOrder(r, value) PROVE MetricsInv'
      BY <1>2, <2>5, UpdateMetricStep
    <2>6. ASSUME NEW b \in Billings, Metrics!Bill(b) PROVE MetricsInv'
      BY <1>2, <2>6, BillMetricStep
    <2>7. ASSUME NEW b \in Billings, Metrics!CommitBill(b) PROVE MetricsInv'
      BY <1>2, <2>7, CommitMetricStep
    <2>8. ASSUME Metrics!Cleanup PROVE MetricsInv'
      BY <1>2, <2>8, CleanupMetricStep
    <2>9. ASSUME Metrics!Midnight PROVE MetricsInv'
      BY <1>2, <2>9, MidnightMetricStep
    <2>10. QED BY <1>2, <2>1, <2>2, <2>3, <2>4, <2>5, <2>6, <2>7, <2>8, <2>9 DEF Metrics!Next
  <1>3. ASSUME MetricsInv, UNCHANGED Metrics!vars PROVE MetricsInv'
    <2>1. UNCHANGED <<today, style, orders, saves, bills, found, bill, reported, measured, paid, strays,
                      twice, spent>>
      BY <1>3 DEF Metrics!vars
    <2>2. Metrics!TypeOK'
      BY <1>3, <2>1 DEF MetricsInv, Metrics!TypeOK
    <2>3. /\ DatesOfOrders' /\ OrdersPart' /\ (Metrics!ChargedAsMeasured)'
          /\ OrdersFollow => OrdersFollow'
          /\ (Metrics!Active)' = Metrics!Active
          /\ KeptLongEnough' <=> KeptLongEnough
          /\ MetricsKept => MetricsKept'
      BY <1>3, <2>1, QuietMetrics
    <2>4. ~strays' => OneSaves'
      BY <1>3, <2>1, <2>3 DEF MetricsInv, OneSaves
    <2>5. QED BY <1>3, <2>1, <2>2, <2>3, <2>4 DEF MetricsInv, OrdersPart
  <1>4. QED BY <1>1, <1>2, <1>3

\* Where no two requests saved at once, an instance has one active order.
LEMMA OneOrderIsActive ==
  ASSUME Metrics!Assumption, MetricsInv
  PROVE  Metrics!OneActiveOrder
  <1> SUFFICES ASSUME ~strays PROVE Cardinality(Metrics!Active) <= 1
    BY DEF Metrics!OneActiveOrder, Metrics!Cardinality, Cardinality
  <1>1. \A i, j \in Metrics!Active : i = j
    BY DEF MetricsInv, OrdersFollow, Metrics!Active
  <1>2. CASE Metrics!Active = {}
    BY <1>2, FS_EmptySet
  <1>3. CASE Metrics!Active # {}
    <2>1. PICK i : i \in Metrics!Active
      BY <1>3
    <2>2. Metrics!Active = {i}
      BY <1>1, <2>1
    <2>3. Cardinality(Metrics!Active) = 1
      BY <2>2, FS_Singleton
    <2>4. QED BY <2>3
  <1>4. QED BY <1>2, <1>3

\* An active order has the metrics that its billing looks for.
LEMMA ActiveCanBeBilled ==
  ASSUME Metrics!Assumption, MetricsInv, KeptLongEnough
  PROVE  Metrics!MetricsSuffice
  <1> SUFFICES ASSUME ~strays, NEW i \in Metrics!Active,
                      Metrics!ChargeRaises(orders[i], Metrics!get_billing_point(i, {i}))
               PROVE  FALSE
    BY DEF Metrics!MetricsSuffice
  <1>1. PICK o, bp : o = orders[i] /\ bp = Metrics!get_billing_point(i, {i})
    OBVIOUS
  <1>2. Metrics!TypeOK /\ today \in Metrics!Days /\ i \in DOMAIN orders /\ o.cancelled_on = None
    BY <1>1 DEF MetricsInv, Metrics!TypeOK, Metrics!Active
  <1>3. /\ o \in Metrics!OrderTypes /\ o.metrics \in SUBSET Metrics!Rows /\ o.registered_on \in Metrics!Days
        /\ o.billed_on \in Metrics!Days \cup {None} /\ o.billed_until \in Metrics!Ends \cup {None}
    BY <1>1, <1>2, OrdersAre
  <1>4. BilledTogether(o) /\ HaveCome(o) /\ RowsInOrder(o) /\ KeptOf(i)
    BY <1>1, <1>2 DEF MetricsInv, DatesOfOrders, MetricsKept
  <1>5. bp = Point /\ bp \in Metrics!Ends
    <2>1. \A j \in {i} : orders[j].cancelled_on = None
      BY <1>1, <1>2
    <2>2. {i} \in SUBSET DOMAIN orders /\ i \in {i}
      BY <1>2
    <2>3. QED BY <1>1, <1>2, <2>1, <2>2, PointOfOrder
  <1>6. bp \in Nat /\ today \in Nat /\ o.registered_on \in Nat
        /\ \A row \in o.metrics : row.created_on \in Nat
    BY <1>2, <1>3, <1>5, NumbersAre DEF Metrics!Rows
  <1>7. style = "prepay" => today < bp
    BY <1>2, <1>5, PointOfDay
  <1>8. ASSUME o.billed_on # None
        PROVE  /\ o.billed_until # None /\ o.billed_on \in Nat /\ o.billed_until \in Nat
               /\ o.billed_on <= today /\ (style = "prepay" => o.billed_on < o.billed_until)
               /\ \E row \in o.metrics : row.created_on <= o.billed_on /\ row.created_on <= o.billed_until
    <2>1. o.billed_until # None
      BY <1>4, <1>8 DEF BilledTogether
    <2>2. o.billed_on \in Nat /\ o.billed_until \in Nat /\ o.billed_on <= today
      BY <1>3, <1>4, <1>8, <2>1, NumbersAre DEF HaveCome
    <2>3. StillBegins(o.metrics, o.billed_on, o.billed_until)
      BY <1>1, <1>4, <1>8 DEF KeptOf
    <2>4. QED BY <2>1, <2>2, <2>3 DEF StillBegins
  <1>9. CASE /\ Metrics!Recharges(o)
             /\ Metrics!Raises(o.metrics, o.billed_on, Metrics!Min({bp, o.billed_until}))
    <2>1. style = "prepay" /\ o.billed_on # None
      BY <1>9 DEF Metrics!Recharges
    <2>2. PICK end : end = Metrics!Min({bp, o.billed_until})
      OBVIOUS
    <2>3. end = IF bp <= o.billed_until THEN bp ELSE o.billed_until
      <3>1. bp \in Int /\ o.billed_until \in Int
        BY <1>6, <1>8, <2>1
      <3>2. QED BY <2>2, <3>1, ExtremesOfTwo
    <2>4. end \in Nat /\ o.billed_on < end
      BY <1>6, <1>7, <1>8, <2>1, <2>3
    <2>5. PICK row \in o.metrics : row.created_on <= o.billed_on
      BY <1>8, <2>1
    <2>6. row \in Metrics!Before(o.metrics, end)
      BY <1>6, <1>8, <2>1, <2>4, <2>5 DEF Metrics!Before
    <2>7. row.created_on > o.billed_on
      BY <1>9, <2>2, <2>6 DEF Metrics!Raises
    <2>8. QED BY <1>6, <1>8, <2>1, <2>5, <2>7
  <1>10. CASE ~ Metrics!IsBilled(o, bp) /\ Metrics!Raises(o.metrics, Metrics!Begins(o), bp)
    <2>1. PICK ini : ini = Metrics!Begins(o)
      OBVIOUS
    <2>2. ini \in Nat /\ \E row \in o.metrics : row.created_on <= ini
      <3>1. CASE o.billed_on = None
        <4>1. ini = o.registered_on
          BY <1>4, <2>1, <3>1 DEF BilledTogether, Metrics!Begins
        <4>2. \E row \in o.metrics : row.created_on <= o.registered_on
          BY <1>1, <1>4, <3>1 DEF KeptOf, GoesBack
        <4>3. QED BY <1>6, <4>1, <4>2
      <3>2. CASE o.billed_on # None
        BY <1>8, <2>1, <3>2 DEF Metrics!Begins
      <3>3. QED BY <3>1, <3>2
    <2>3. ini < bp
      BY <1>6, <1>10, <2>1, <2>2 DEF Metrics!IsBilled
    <2>4. PICK row \in o.metrics : row.created_on <= ini
      BY <2>2
    <2>5. row \in Metrics!Before(o.metrics, bp)
      BY <1>6, <2>2, <2>3, <2>4 DEF Metrics!Before
    <2>6. row.created_on > ini
      BY <1>10, <2>1, <2>5 DEF Metrics!Raises
    <2>7. QED BY <1>6, <2>2, <2>4, <2>6
  <1>11. QED BY <1>1, <1>9, <1>10 DEF Metrics!ChargeRaises

\* The charge of a metric is of its types, and follows the rows that MetricStorage.store
\* leaves: every row is about what was measured since its day, while it is the latest.
THEOREM MetricsAreKept ==
  ASSUME Metrics!Assumption
  PROVE  Metrics!Spec => []MetricsInv
  <1>1. Metrics!Init => MetricsInv
    BY MetricsInvIsInductive
  <1>2. MetricsInv /\ [Metrics!Next]_(Metrics!vars) => MetricsInv'
    BY MetricsInvIsInductive
  <1>3. QED BY <1>1, <1>2, PTL DEF Metrics!Spec

\* Each line of bill_with_metric charges the days that are over by about what was measured
\* in them, an instance that one request saves at a time has one active order
\* (Order.update_by_instance), and get_metric finds what the billing of an active order
\* looks for, where cleanup_metrics keeps the rows of a period or orders are paid in
\* advance.
THEOREM MetricsAreCharged ==
  ASSUME Metrics!Assumption, Period <= Delta + 2
  PROVE  Metrics!Spec => []ChargedAsMeasured
  <1>1. Metrics!Init => MetricsInv
    BY MetricsInvIsInductive
  <1>2. MetricsInv /\ [Metrics!Next]_(Metrics!vars) => MetricsInv'
    BY MetricsInvIsInductive
  <1>3. MetricsInv => ChargedAsMeasured
    <2> SUFFICES ASSUME MetricsInv PROVE ChargedAsMeasured
      OBVIOUS
    <2>1. Metrics!ChargedAsMeasured /\ KeptLongEnough
      BY DEF MetricsInv, KeptLongEnough
    <2>2. Metrics!OneActiveOrder
      BY OneOrderIsActive
    <2>3. Metrics!MetricsSuffice
      BY <2>1, ActiveCanBeBilled
    <2>4. QED BY <2>1, <2>2, <2>3 DEF ChargedAsMeasured
  <1>4. QED BY <1>1, <1>2, <1>3, PTL DEF Metrics!Spec

\* The same where the rows of a period may be deleted: lines charge what was measured, an
\* instance has one active order, and active orders paid in advance can be billed.
THEOREM MetricsAreMeasured ==
  ASSUME Metrics!Assumption
  PROVE  Metrics!Spec => [](/\ Metrics!ChargedAsMeasured /\ Metrics!OneActiveOrder
                             /\ style = "prepay" => Metrics!MetricsSuffice)
  <1>1. Metrics!Init => MetricsInv
    BY MetricsInvIsInductive
  <1>2. MetricsInv /\ [Metrics!Next]_(Metrics!vars) => MetricsInv'
    BY MetricsInvIsInductive
  <1>3. MetricsInv => /\ Metrics!ChargedAsMeasured /\ Metrics!OneActiveOrder
                      /\ style = "prepay" => Metrics!MetricsSuffice
    BY OneOrderIsActive, ActiveCanBeBilled DEF MetricsInv, KeptLongEnough
  <1>4. QED BY <1>1, <1>2, <1>3, PTL DEF Metrics!Spec

-----------------------------------------------------------------------------
(* What is paid *)

\* Totals of the same values, and of two sets that are apart.
LEMMA TotalOfSame ==
  ASSUME NEW of, NEW new, NEW S, IsFiniteSet(S), \A x \in S : new[x] = of[x]
  PROVE  Metrics!Total(new, S) = Metrics!Total(of, S)
  <1> DEFINE rows == [x \in S |-> [value |-> of[x]]]
             changed == [x \in S |-> [value |-> new[x]]]
  <1>1. \A x \in S : changed[x].value = rows[x].value
    OBVIOUS
  <1>2. Metrics!Total(of, S) = Traffic!Sum(rows, S) /\ Metrics!Total(new, S) = Traffic!Sum(changed, S)
    BY TotalIsSum
  <1> HIDE DEF rows, changed
  <1>3. QED BY <1>1, <1>2, SumOfSame

LEMMA TotalOfBoth ==
  ASSUME NEW of, NEW S, NEW T, IsFiniteSet(S), IsFiniteSet(T), S \cap T = {},
         \A x \in S \cup T : of[x] \in Nat
  PROVE  Metrics!Total(of, S \cup T) = Metrics!Total(of, S) + Metrics!Total(of, T)
  <1> DEFINE U == S \cup T
             rows == [x \in U |-> [value |-> of[x]]]
  <1>1. IsFiniteSet(U) /\ \A x \in U : rows[x].value \in Nat
    BY FS_Union
  <1>2. S \in SUBSET U /\ T \in SUBSET U /\ U \in SUBSET U
    OBVIOUS
  <1>3. /\ Metrics!Total(of, S) = Traffic!Sum(rows, S) /\ Metrics!Total(of, T) = Traffic!Sum(rows, T)
        /\ Metrics!Total(of, U) = Traffic!Sum(rows, U)
    <2> HIDE DEF U
    <2>1. QED BY <1>1, <1>2, TotalOfSome
  <1> HIDE DEF rows
  <1>4. Traffic!Sum(rows, U) = Traffic!Sum(rows, S) + Traffic!Sum(rows, T)
    BY <1>1, SumOfBoth
  <1>5. QED BY <1>3, <1>4

LEMMA TotalOfNone ==
  ASSUME NEW of
  PROVE  Metrics!Total(of, {}) = 0
  BY FS_EmptySet, TotalStep

LEMMA TotalOfOne ==
  ASSUME NEW of, NEW x, of[x] \in Nat
  PROVE  Metrics!Total(of, {x}) = of[x]
  <1>1. First({x}) = x /\ {x} \ {First({x})} = {} /\ IsFiniteSet({x})
    BY FirstIsIn, FS_Singleton
  <1>2. Metrics!Total(of, {x}) = of[x] + Metrics!Total(of, {})
    BY <1>1, TotalStep
  <1>3. QED BY <1>2, TotalOfNone

LEMMA TotalOfZeros ==
  ASSUME NEW of, NEW S, IsFiniteSet(S), \A x \in S : of[x] = 0
  PROVE  Metrics!Total(of, S) = 0
  <1> DEFINE A == {s \in SUBSET S : Metrics!Total(of, s) = 0}
  <1>1. ASSUME NEW s \in SUBSET S, \A t \in SUBSET s : t # s => t \in A
        PROVE  s \in A
    <2>1. IsFiniteSet(s)
      BY FS_Subset
    <2>2. s # {} => s \ {First(s)} \in A /\ of[First(s)] = 0
      BY <1>1, FirstIsIn
    <2>3. Metrics!Total(of, s) = IF s = {} THEN 0 ELSE of[First(s)] + Metrics!Total(of, s \ {First(s)})
      BY <2>1, TotalStep
    <2>4. QED BY <2>2, <2>3
  <1> HIDE DEF A
  <1>2. S \in A
    BY <1>1, OfAllFiniteSets
  <1>3. QED BY <1>2 DEF A

\* Greater values, or more of them, have a greater total.
LEMMA TotalOfLess ==
  ASSUME NEW of, NEW more, NEW S, IsFiniteSet(S),
         \A x \in S : of[x] \in Nat /\ more[x] \in Nat /\ of[x] <= more[x]
  PROVE  Metrics!Total(of, S) <= Metrics!Total(more, S)
  <1> DEFINE Less(s) == Metrics!Total(of, s) <= Metrics!Total(more, s)
             A == {s \in SUBSET S : Less(s)}
  <1>1. ASSUME NEW s \in SUBSET S, \A t \in SUBSET s : t # s => t \in A
        PROVE  s \in A
    <2>1. IsFiniteSet(s)
      BY FS_Subset
    <2>2. CASE s = {}
      BY <2>2, TotalOfNone
    <2>3. CASE s # {}
      <3>1. PICK x, t : x = First(s) /\ t = s \ {First(s)}
        OBVIOUS
      <3>2. x \in S /\ t \in A /\ t \in SUBSET S /\ IsFiniteSet(t)
        BY <1>1, <2>1, <2>3, <3>1, FirstIsIn, FS_Subset
      <3>3. /\ Metrics!Total(of, s) = of[x] + Metrics!Total(of, t)
            /\ Metrics!Total(more, s) = more[x] + Metrics!Total(more, t)
        BY <2>1, <2>3, <3>1, TotalStep
      <3>4. \A y \in t : of[y] \in Nat /\ more[y] \in Nat
        BY <3>2
      <3>5. Metrics!Total(of, t) \in Nat /\ Metrics!Total(more, t) \in Nat
        BY <3>2, <3>4, TotalIsNat
      <3>6. of[x] \in Nat /\ more[x] \in Nat /\ of[x] <= more[x]
            /\ Metrics!Total(of, t) <= Metrics!Total(more, t)
        BY <3>2
      <3>7. Less(s)
        BY <3>3, <3>5, <3>6
      <3>8. QED BY <3>7
    <2>4. QED BY <2>2, <2>3
  <1> HIDE DEF A
  <1>2. S \in A
    BY <1>1, OfAllFiniteSets
  <1>3. QED BY <1>2 DEF A

LEMMA TotalOfFewer ==
  ASSUME NEW of, NEW S, IsFiniteSet(S), NEW T \in SUBSET S, \A x \in S : of[x] \in Nat
  PROVE  Metrics!Total(of, T) <= Metrics!Total(of, S)
  <1>1. IsFiniteSet(T) /\ IsFiniteSet(S \ T) /\ T \cap (S \ T) = {} /\ T \cup (S \ T) = S
    BY FS_Subset
  <1>2. Metrics!Total(of, T) \in Nat /\ Metrics!Total(of, S \ T) \in Nat
    BY <1>1, TotalIsNat
  <1>3. Metrics!Total(of, T \cup (S \ T)) = Metrics!Total(of, T) + Metrics!Total(of, S \ T)
    BY <1>1, TotalOfBoth
  <1>4. Metrics!Total(of, S) = Metrics!Total(of, T) + Metrics!Total(of, S \ T)
    BY <1>1, <1>3
  <1>5. QED BY <1>2, <1>4

\* The total of the days of an interval, each of which counts the same.
LEMMA TotalOfDays ==
  ASSUME NEW of, NEW a \in Nat, NEW b \in Nat, a <= b, NEW c \in Nat, \A d \in a .. b - 1 : of[d] = c
  PROVE  Metrics!Total(of, a .. b - 1) = c * (b - a)
  <1> DEFINE Same(n) == Metrics!Total(of, a .. a + n - 1) = c * n
             Wrong == {n \in 0 .. b - a : ~ Same(n)}
  <1>1. b - a \in Nat
    OBVIOUS
  <1>2. ASSUME Wrong # {} PROVE FALSE
    <2>1. PICK m \in Wrong : \A n \in Wrong : m <= n
      <3>1. Wrong \in SUBSET (0 .. b - a)
        OBVIOUS
      <3> HIDE DEF Wrong
      <3>2. QED BY <1>1, <1>2, <3>1, LeastNumber
    <2>2. m \in Nat /\ m <= b - a /\ ~ Same(m)
      OBVIOUS
    <2>3. CASE m = 0
      <3>1. a .. a + m - 1 = {} /\ c * m = 0
        BY <2>3
      <3>2. QED BY <2>2, <3>1, TotalOfNone
    <2>4. CASE m # 0
      <3>1. PICK k \in Nat : m = k + 1
        BY <2>2, <2>4
      <3>2. k \notin Wrong
        BY <2>1, <3>1
      <3>3. k \in 0 .. b - a
        BY <2>2, <3>1
      <3>4. Same(k)
        BY <3>2, <3>3
      <3>5. PICK old, day : old = a .. a + k - 1 /\ day = a + k
        OBVIOUS
      <3>6. a .. a + m - 1 = old \cup {day} /\ old \cap {day} = {} /\ day \in a .. b - 1
            /\ \A d \in old : d \in a .. b - 1
        BY <2>2, <3>1, <3>5
      <3>7. IsFiniteSet(old) /\ IsFiniteSet({day})
        <4>1. a + k - 1 \in Int
          BY <3>1
        <4>2. IsFiniteSet(a .. a + k - 1)
          BY <4>1, FS_Interval
        <4>3. QED BY <3>5, <4>2, FS_Singleton
      <3>8. \A d \in old \cup {day} : of[d] \in Nat
        BY <3>6
      <3>9. Metrics!Total(of, old \cup {day}) = Metrics!Total(of, old) + Metrics!Total(of, {day})
        BY <3>6, <3>7, <3>8, TotalOfBoth
      <3>10. Metrics!Total(of, {day}) = c
        BY <3>6, TotalOfOne
      <3>11. Metrics!Total(of, old) = c * k
        BY <3>4, <3>5
      <3>12. c * m = c * k + c
        BY <3>1
      <3>13. Metrics!Total(of, a .. a + m - 1) = c * m
        BY <3>6, <3>9, <3>10, <3>11, <3>12
      <3>14. QED BY <2>2, <3>13
    <2>5. QED BY <2>3, <2>4
  <1>3. Same(b - a)
    <2>1. PICK n \in Nat : n = b - a
      BY <1>1
    <2>2. n \in 0 .. b - a
      BY <2>1
    <2>3. n \notin Wrong
      BY <1>2
    <2>4. Same(n)
      BY <2>2, <2>3
    <2>5. QED BY <2>1, <2>4
  <1>4. a + (b - a) - 1 = b - 1
    OBVIOUS
  <1>5. QED BY <1>3, <1>4

\* A total of what each element is taken to.
LEMMA TotalOfImage ==
  ASSUME NEW S, IsFiniteSet(S), NEW f, f = [x \in S |-> f[x]], \A x, y \in S : f[x] = f[y] => x = y,
         NEW of, NEW new, \A x \in S : of[f[x]] = new[x] /\ new[x] \in Nat
  PROVE  Metrics!Total(of, {f[x] : x \in S}) = Metrics!Total(new, S)
  <1> DEFINE Image(s) == {f[x] : x \in s}
             Same(s) == Metrics!Total(of, Image(s)) = Metrics!Total(new, s)
             A == {s \in SUBSET S : Same(s)}
  <1>1. ASSUME NEW s \in SUBSET S, \A t \in SUBSET s : t # s => t \in A
        PROVE  s \in A
    <2>1. IsFiniteSet(s)
      BY FS_Subset
    <2>2. CASE s = {}
      <3>1. Image(s) = {}
        BY <2>2
      <3>2. QED BY <2>2, <3>1, TotalOfNone
    <2>3. CASE s # {}
      <3>1. PICK x, t : x = First(s) /\ t = s \ {First(s)}
        OBVIOUS
      <3>2. x \in s /\ x \in S /\ t \in A /\ t \in SUBSET S /\ IsFiniteSet(t) /\ x \notin t
        BY <1>1, <2>1, <2>3, <3>1, FirstIsIn, FS_Subset
      <3>3. Metrics!Total(new, s) = new[x] + Metrics!Total(new, t)
        BY <2>1, <2>3, <3>1, TotalStep
      <3>4. Image(s) = Image(t) \cup {f[x]}
        BY <3>1, <3>2
      <3>5. Image(t) \cap {f[x]} = {}
        BY <3>2
      <3>6. IsFiniteSet(Image(t)) /\ IsFiniteSet({f[x]})
        <4>1. PICK g : g = [y \in t |-> f[y]]
          OBVIOUS
        <4>2. Image(t) = {g[y] : y \in t} /\ g = [y \in t |-> g[y]]
          BY <4>1
        <4>3. IsFiniteSet({g[y] : y \in t})
          BY <3>2, <4>2, ImageIsFinite
        <4>4. QED BY <4>2, <4>3, FS_Singleton
      <3>7. \A y \in Image(t) \cup {f[x]} : of[y] \in Nat
        BY <3>2
      <3>8. PICK image, one : image = Image(t) /\ one = {f[x]}
        OBVIOUS
      <3>9. Metrics!Total(of, image \cup one) = Metrics!Total(of, image) + Metrics!Total(of, one)
        BY <3>5, <3>6, <3>7, <3>8, TotalOfBoth
      <3>10. Metrics!Total(of, one) = new[x]
        <4>1. of[f[x]] = new[x] /\ of[f[x]] \in Nat
          BY <3>2
        <4>2. Metrics!Total(of, {f[x]}) = of[f[x]]
          BY <4>1, TotalOfOne
        <4>3. QED BY <3>8, <4>1, <4>2
      <3>11. Metrics!Total(of, image) = Metrics!Total(new, t)
        BY <3>2, <3>8
      <3>12. Metrics!Total(new, t) \in Nat /\ new[x] \in Nat
        BY <3>2, TotalIsNat
      <3>13. Same(s)
        <4>1. Metrics!Total(of, Image(s)) = Metrics!Total(of, image \cup one)
          BY <3>4, <3>8
        <4>2. Metrics!Total(of, image \cup one) = Metrics!Total(new, t) + new[x]
          BY <3>9, <3>10, <3>11
        <4>3. Metrics!Total(new, t) + new[x] = new[x] + Metrics!Total(new, t)
          BY <3>12
        <4>4. QED BY <3>3, <4>1, <4>2, <4>3
      <3>14. QED BY <3>13
    <2>4. QED BY <2>2, <2>3
  <1> HIDE DEF A
  <1>2. S \in A
    BY <1>1, OfAllFiniteSets
  <1>3. QED BY <1>2 DEF A

LEMMA TotalTakesOut ==
  ASSUME NEW of, NEW S, IsFiniteSet(S), \A x \in S : of[x] \in Nat, NEW x \in S
  PROVE  Metrics!Total(of, S) = Metrics!Total(of, S \ {x}) + of[x]
  <1>1. PICK T : T = S \ {x}
    OBVIOUS
  <1>2. IsFiniteSet(T) /\ IsFiniteSet({x}) /\ T \cap {x} = {} /\ S = T \cup {x}
    BY <1>1, FS_Subset, FS_Singleton
  <1>3. Metrics!Total(of, T \cup {x}) = Metrics!Total(of, T) + Metrics!Total(of, {x})
    BY <1>2, TotalOfBoth
  <1>4. Metrics!Total(of, {x}) = of[x]
    BY TotalOfOne
  <1>5. QED BY <1>1, <1>2, <1>3, <1>4

\* Days of an interval, none of which counts more.
LEMMA TotalWithin ==
  ASSUME NEW u, NEW a \in Nat, NEW b \in Nat, a <= b, NEW c \in Nat,
         NEW F \in SUBSET (a .. b - 1), \A d \in F : u[d] \in Nat /\ u[d] <= c
  PROVE  Metrics!Total(u, F) <= c * (b - a)
  <1>1. PICK same, days : same = [d \in Nat |-> c] /\ days = a .. b - 1
    OBVIOUS
  <1>2. IsFiniteSet(a .. b - 1)
    <2>1. b - 1 \in Int
      OBVIOUS
    <2>2. QED BY <2>1, FS_Interval
  <1>3. IsFiniteSet(days) /\ F \in SUBSET days /\ IsFiniteSet(F)
    BY <1>1, <1>2, FS_Subset
  <1>4. \A d \in days : same[d] = c
    BY <1>1
  <1>5. Metrics!Total(u, F) <= Metrics!Total(same, F)
    BY <1>3, <1>4, TotalOfLess
  <1>6. Metrics!Total(same, F) <= Metrics!Total(same, days)
    BY <1>3, <1>4, TotalOfFewer
  <1>7. Metrics!Total(same, days) = c * (b - a)
    BY <1>1, <1>4, TotalOfDays
  <1>8. Metrics!Total(u, F) \in Nat /\ Metrics!Total(same, F) \in Nat /\ Metrics!Total(same, days) \in Nat
    BY <1>3, <1>4, TotalIsNat
  <1> HIDE DEF Metrics!Total
  <1>9. QED BY <1>5, <1>6, <1>7, <1>8

\* Pieces that cover days pay at least what these count, if none counts more than the
\* metric of a piece it is in.
LEMMA TotalCovers ==
  ASSUME NEW pieces, IsFiniteSet(pieces), NEW price, NEW D, IsFiniteSet(D), NEW u,
         \A d \in D : d \in Nat /\ u[d] \in Nat,
         \A p \in pieces : /\ p.ini \in Nat /\ p.end \in Nat /\ p.ini <= p.end /\ p.metric \in Nat
                           /\ price[p] = p.metric * (p.end - p.ini) /\ price[p] \in Nat,
         \A d \in D : u[d] = 0 \/ \E p \in pieces : p.ini <= d /\ d < p.end /\ u[d] <= p.metric
  PROVE  Metrics!Total(u, D) <= Metrics!Total(price, pieces)
  <1> DEFINE Covered(d, s) == u[d] = 0 \/ \E p \in s : p.ini <= d /\ d < p.end /\ u[d] <= p.metric
             Paid(s) == \A E \in SUBSET D :
               (\A d \in E : Covered(d, s)) => Metrics!Total(u, E) <= Metrics!Total(price, s)
             A == {s \in SUBSET pieces : Paid(s)}
  <1>1. ASSUME NEW s \in SUBSET pieces, \A t \in SUBSET s : t # s => t \in A
        PROVE  s \in A
    <2> SUFFICES ASSUME NEW E \in SUBSET D, \A d \in E : Covered(d, s)
                 PROVE  Metrics!Total(u, E) <= Metrics!Total(price, s)
      OBVIOUS
    <2>1. IsFiniteSet(s) /\ IsFiniteSet(E)
      BY FS_Subset
    <2>2. CASE s = {}
      <3>1. \A d \in E : u[d] = 0
        BY <2>2
      <3>2. QED BY <2>1, <2>2, <3>1, TotalOfZeros, TotalOfNone
    <2>3. CASE s # {}
      <3>1. PICK p \in s : TRUE
        BY <2>3
      <3>2. PICK t : t = s \ {p}
        OBVIOUS
      <3>3. t \in SUBSET s /\ t # s /\ t \in SUBSET pieces /\ IsFiniteSet(t) /\ p \in pieces
        BY <2>1, <3>1, <3>2, FS_Subset
      <3>4. Paid(t)
        BY <1>1, <3>3
      <3>5. PICK F : F = {d \in E : p.ini <= d /\ d < p.end /\ u[d] <= p.metric}
        OBVIOUS
      <3>6. PICK G : G = E \ F
        OBVIOUS
      <3>7. /\ F \in SUBSET E /\ G \in SUBSET D /\ F \cap G = {} /\ E = F \cup G
            /\ IsFiniteSet(F) /\ IsFiniteSet(G)
        BY <2>1, <3>5, <3>6, FS_Subset
      <3>8. \A d \in G : Covered(d, t)
        <4> SUFFICES ASSUME NEW d \in G, u[d] # 0
                     PROVE  \E q \in t : q.ini <= d /\ d < q.end /\ u[d] <= q.metric
          OBVIOUS
        <4>1. d \in E /\ d \notin F
          BY <3>6
        <4>2. PICK q \in s : q.ini <= d /\ d < q.end /\ u[d] <= q.metric
          BY <4>1
        <4>3. q # p
          BY <3>5, <4>1, <4>2
        <4>4. QED BY <3>2, <4>2, <4>3
      <3>9. Metrics!Total(u, G) <= Metrics!Total(price, t)
        BY <3>4, <3>7, <3>8
      <3>10. /\ p.ini \in Nat /\ p.end \in Nat /\ p.ini <= p.end /\ p.metric \in Nat
             /\ price[p] = p.metric * (p.end - p.ini) /\ price[p] \in Nat
        BY <3>3
      <3>11. F \in SUBSET (p.ini .. p.end - 1) /\ \A d \in F : u[d] \in Nat /\ u[d] <= p.metric
        BY <3>5, <3>10
      <3>12. Metrics!Total(u, F) <= price[p]
        <4>1. PICK a, b, c : a = p.ini /\ b = p.end /\ c = p.metric
          OBVIOUS
        <4>2. Metrics!Total(u, F) <= c * (b - a)
          BY <3>10, <3>11, <4>1, TotalWithin
        <4>3. QED BY <3>10, <4>1, <4>2
      <3>13. Metrics!Total(u, F \cup G) = Metrics!Total(u, F) + Metrics!Total(u, G)
        BY <3>7, TotalOfBoth
      <3>14. Metrics!Total(price, s) = Metrics!Total(price, t) + price[p]
        BY <2>1, <3>1, <3>2, TotalTakesOut
      <3>15. /\ Metrics!Total(u, F) \in Nat /\ Metrics!Total(u, G) \in Nat
             /\ Metrics!Total(price, t) \in Nat
        BY <3>3, <3>7, TotalIsNat
      <3>16. PICK x, y, z : x = Metrics!Total(u, F) /\ y = Metrics!Total(u, G) /\ z = Metrics!Total(price, t)
        OBVIOUS
      <3>17. Metrics!Total(u, E) = x + y /\ Metrics!Total(price, s) = z + price[p]
        BY <3>7, <3>13, <3>14, <3>16
      <3>18. x + y <= z + price[p]
        BY <3>9, <3>10, <3>12, <3>15, <3>16
      <3>19. QED BY <3>17, <3>18
    <2>4. QED BY <2>2, <2>3
  <1> HIDE DEF A
  <1>2. pieces \in A
    BY <1>1, OfAllFiniteSets
  <1>3. Paid(pieces)
    BY <1>2 DEF A
  <1>4. QED BY <1>3

\* The price of a piece, less what is left of a discount.
LEMMA NetOfPiece ==
  ASSUME NEW pieces, IsFiniteSet(pieces), NEW discount \in Nat,
         NEW price, price = Metrics!Price(pieces), \A p \in pieces : price[p] \in Nat,
         NEW net, net = Metrics!Net(pieces, discount), NEW p \in pieces
  PROVE  LET x == price[p]
             y == discount - Metrics!Total(price, {q \in pieces : q.end <= p.end}) + x IN
         /\ y \in Int
         /\ net[p] = x - (IF y <= 0 THEN 0 ELSE IF x <= y THEN x ELSE y)
         /\ net[p] \in Nat
  <1> DEFINE Upto(o) == {q \in pieces : q.end <= o.end}
  <1>1. IsFiniteSet(Upto(p)) /\ \A q \in Upto(p) : price[q] \in Nat
    BY FS_Subset
  <1>2. Metrics!Total(price, Upto(p)) \in Nat
    <2> HIDE DEF Upto
    <2>1. QED BY <1>1, TotalIsNat
  <1>3. PICK x, y : x = price[p] /\ y = discount - Metrics!Total(price, Upto(p)) + x
    OBVIOUS
  <1>4. x \in Nat /\ x \in Int /\ y \in Int
    BY <1>2, <1>3
  <1>5. net[p] = x - Metrics!Max({0, Metrics!Min({x, y})})
    BY <1>3 DEF Metrics!Net, Metrics!Left
  <1>6. Metrics!Min({x, y}) = (IF x <= y THEN x ELSE y)
    BY <1>4, ExtremesOfTwo
  <1>7. PICK m : m = IF x <= y THEN x ELSE y
    OBVIOUS
  <1>8. m \in Int /\ 0 \in Int
    BY <1>4, <1>7
  <1>9. Metrics!Max({0, m}) = (IF 0 >= m THEN 0 ELSE m)
    BY <1>8, ExtremesOfTwo
  <1>10. net[p] = x - (IF 0 >= m THEN 0 ELSE m)
    BY <1>5, <1>6, <1>7, <1>9
  <1>11. (IF 0 >= m THEN 0 ELSE m) = (IF y <= 0 THEN 0 ELSE IF x <= y THEN x ELSE y)
    BY <1>4, <1>7
  <1>12. net[p] \in Nat
    BY <1>4, <1>10, <1>11
  <1>13. QED BY <1>3, <1>4, <1>10, <1>11, <1>12

LEMMA NetIsNat ==
  ASSUME NEW pieces, IsFiniteSet(pieces), NEW discount \in Nat,
         NEW price, price = Metrics!Price(pieces), \A p \in pieces : price[p] \in Nat,
         NEW net, net = Metrics!Net(pieces, discount)
  PROVE  \A p \in pieces : net[p] \in Nat
  BY NetOfPiece

\* What is left of the price of pieces after a discount, of which each takes what those
\* that end before it leave.
LEMMA TotalOfNets ==
  ASSUME NEW N \in Nat, NEW pieces, IsFiniteSet(pieces), NEW discount \in Nat,
         \A p \in pieces : p.end \in 0 .. N /\ Metrics!Price(pieces)[p] \in Nat,
         \A p, q \in pieces : p.end = q.end => p = q
  PROVE  LET net == Metrics!Net(pieces, discount) IN
         Metrics!Total(net, pieces) >= Metrics!Total(Metrics!Price(pieces), pieces) - discount
  <1>1. PICK net, price : net = Metrics!Net(pieces, discount) /\ price = Metrics!Price(pieces)
    OBVIOUS
  <1> DEFINE Upto(p) == {q \in pieces : q.end <= p.end}
  <1>2. \A p \in pieces : price[p] \in Nat
    BY <1>1
  <1>3. ASSUME NEW p \in pieces
        PROVE  LET x == price[p]
                   y == discount - Metrics!Total(price, Upto(p)) + x IN
               /\ y \in Int
               /\ net[p] = x - (IF y <= 0 THEN 0 ELSE IF x <= y THEN x ELSE y)
    BY <1>1, <1>2, NetOfPiece
  <1>4. \A p \in pieces : net[p] \in Nat
    BY <1>1, <1>2, NetIsNat
  <1> DEFINE Initial(s) == \A p \in s : Upto(p) \subseteq s
             Enough(s) == Metrics!Total(net, s) >= Metrics!Total(price, s) - discount
             A == {s \in SUBSET pieces : Initial(s) => Enough(s)}
  <1>5. ASSUME NEW s \in SUBSET pieces, \A t \in SUBSET s : t # s => t \in A
        PROVE  s \in A
    <2> SUFFICES ASSUME Initial(s) PROVE Enough(s)
      OBVIOUS
    <2>1. IsFiniteSet(s) /\ (\A q \in s : price[q] \in Nat /\ net[q] \in Nat)
      BY <1>2, <1>4, FS_Subset
    <2>2. CASE s = {}
      BY <2>2, TotalOfNone
    <2>3. CASE s # {}
      <3>1. PICK p \in s : \A q \in s : q.end <= p.end
        <4>1. PICK ends : ends = {q.end : q \in s}
          OBVIOUS
        <4>2. ends \in SUBSET (0 .. N) /\ ends # {}
          BY <2>3, <4>1
        <4>3. PICK m \in ends : \A x \in ends : x <= m
          BY <4>2, GreatestExists
        <4>4. QED BY <4>1, <4>3
      <3>2. PICK t : t = s \ {p}
        OBVIOUS
      <3>3. p \in pieces /\ t \in SUBSET s /\ t # s /\ t \in SUBSET pieces /\ IsFiniteSet(t)
        BY <2>1, <3>1, <3>2, FS_Subset
      <3>4. Upto(p) = s
        BY <3>1, <3>3
      <3>5. Initial(t)
        <4> SUFFICES ASSUME NEW q \in t, NEW o \in Upto(q) PROVE o \in t
          OBVIOUS
        <4>1. o \in pieces /\ o.end <= q.end /\ q \in s /\ q # p
          BY <3>2
        <4>2. o \in s
          BY <4>1
        <4>3. o # p
          <5>1. q.end <= p.end /\ q.end # p.end /\ q.end \in Nat /\ p.end \in Nat
            BY <3>1, <3>3, <4>1
          <5>2. QED BY <4>1, <5>1
        <4>4. QED BY <3>2, <4>2, <4>3
      <3>6. Enough(t)
        BY <1>5, <3>3, <3>5
      <3>7. Metrics!Total(net, s) = Metrics!Total(net, t) + net[p]
        BY <2>1, <3>1, <3>2, TotalTakesOut
      <3>8. Metrics!Total(price, s) = Metrics!Total(price, t) + price[p]
        BY <2>1, <3>1, <3>2, TotalTakesOut
      <3>9. Metrics!Total(net, t) \in Nat /\ Metrics!Total(price, t) \in Nat
        BY <2>1, <3>3, TotalIsNat
      <3>10. PICK a, b, x, y : /\ a = Metrics!Total(net, t) /\ b = Metrics!Total(price, t)
                               /\ x = price[p] /\ y = discount - Metrics!Total(price, s) + x
        OBVIOUS
      <3>11. y = discount - b /\ x \in Nat /\ a \in Nat /\ b \in Nat
        BY <2>1, <3>3, <3>8, <3>9, <3>10
      <3>12. net[p] = x - (IF y <= 0 THEN 0 ELSE IF x <= y THEN x ELSE y)
        BY <1>3, <3>3, <3>4, <3>10
      <3>13. a >= b - discount
        BY <3>6, <3>10
      <3>14. a + net[p] >= (b + x) - discount
        BY <3>11, <3>12, <3>13
      <3>15. Metrics!Total(net, s) = a + net[p] /\ Metrics!Total(price, s) = b + x
        BY <3>7, <3>8, <3>10
      <3> HIDE DEF Metrics!Total
      <3>16. Metrics!Total(net, s) >= Metrics!Total(price, s) - discount
        BY <3>14, <3>15
      <3>17. QED BY <3>16
    <2>4. QED BY <2>2, <2>3
  <1> HIDE DEF A
  <1>6. pieces \in A
    BY <1>5, OfAllFiniteSets
  <1>7. Enough(pieces)
    BY <1>6 DEF A
  <1>8. QED BY <1>1, <1>7

-----------------------------------------------------------------------------
\* Each day is in a piece of get_metric, and pieces end on different days.
LEMMA EveryDay ==
  ASSUME Metrics!Assumption, NEW rows \in SUBSET Metrics!Rows,
         NEW ini \in Metrics!Ends, NEW end \in Metrics!Ends, ~ Metrics!Raises(rows, ini, end),
         NEW d \in Nat, ini <= d, d < end
  PROVE  \E piece \in Metrics!get_metric(rows, ini, end) : piece.ini <= d /\ d < piece.end
  <1> DEFINE before == Metrics!Before(rows, end)
             last == Metrics!latest(before)
  <1>1. MaxDay \in Nat /\ (\A row \in rows : row.created_on \in 0 .. MaxDay) /\ ini \in Nat
    BY DEF Metrics!Assumption, Metrics!Rows, Metrics!Days, Metrics!Ends
  <1>2. PICK first \in rows : first.created_on < end /\ first.created_on <= ini
    BY <1>1 DEF Metrics!Raises, Metrics!Before, Metrics!Ends
  <1>3. first \in before /\ before \in SUBSET Metrics!Rows /\ before \in SUBSET rows
    BY <1>2 DEF Metrics!Before
  <1>4. last \in before /\ \A other \in before : other.created_on <= last.created_on
    <2> HIDE DEF before
    <2>1. QED BY <1>3, LatestRow
  <1>5. CASE last.created_on <= d
    <2>1. PICK piece : piece = [ini |-> last.created_on, end |-> end, metric |-> last.value]
      OBVIOUS
    <2>2. piece \in Metrics!get_metric(rows, ini, end)
      BY <2>1 DEF Metrics!get_metric
    <2>3. piece.ini = last.created_on /\ piece.end = end
      BY <2>1
    <2>4. QED BY <1>5, <2>2, <2>3
  <1>6. CASE ~ (last.created_on <= d)
    <2>1. PICK days : days = {row.created_on : row \in {other \in before : other.created_on > d}}
      OBVIOUS
    <2>2. last.created_on > d
      BY <1>1, <1>3, <1>4, <1>6
    <2>3. days \in SUBSET (0 .. MaxDay) /\ days # {}
      BY <1>1, <1>3, <1>4, <2>1, <2>2
    <2>4. PICK m \in days : \A x \in days : m <= x
      BY <1>1, <2>3, LeastNumber
    <2>5. PICK row \in before : row.created_on = m /\ m > d /\ m \in Nat
      BY <2>1, <2>3, <2>4
    <2> DEFINE earlier == Metrics!Before(rows, row.created_on)
               previous == Metrics!latest(earlier)
    <2>6. row \in rows /\ row.created_on < end /\ row.created_on > ini
      BY <1>1, <2>5 DEF Metrics!Before
    <2>7. earlier \in SUBSET Metrics!Rows /\ first \in earlier
      BY <1>1, <1>2, <2>5, <2>6 DEF Metrics!Before
    <2>8. previous \in earlier
      <3> HIDE DEF earlier
      <3>1. QED BY <2>7, LatestRow
    <2>9. previous \in rows /\ previous.created_on < m
      BY <2>5, <2>8 DEF Metrics!Before
    <2>10. previous.created_on \in Nat
      BY <1>1, <2>9
    <2>11. previous.created_on <= d
      <3>1. CASE previous.created_on > d
        <4>1. previous \in before
          BY <1>1, <2>5, <2>6, <2>9, <2>10 DEF Metrics!Before, Metrics!Ends
        <4> HIDE DEF previous
        <4>2. previous.created_on \in days
          BY <2>1, <3>1, <4>1
        <4>3. QED BY <2>4, <2>5, <2>9, <2>10, <4>2
      <3>2. QED BY <2>10, <3>1
    <2>12. PICK piece : piece = [ini |-> Metrics!Max({previous.created_on, ini}), end |-> row.created_on,
                                 metric |-> previous.value]
      OBVIOUS
    <2>13. piece \in Metrics!get_metric(rows, ini, end)
      <3>1. row \in {other \in Metrics!Before(rows, end) : other.created_on > ini}
        BY <2>6
      <3>2. piece \in Metrics!Changes(rows, ini, end)
        BY <2>12, <3>1 DEF Metrics!Changes
      <3>3. QED BY <3>2 DEF Metrics!get_metric
    <2>14. piece.ini = Metrics!Max({previous.created_on, ini}) /\ piece.end = m
      BY <2>5, <2>12
    <2> HIDE DEF previous
    <2>15. Metrics!Max({previous.created_on, ini}) <= d
      <3>1. previous.created_on \in Int /\ ini \in Int
        BY <1>1, <2>10
      <3>2. Metrics!Max({previous.created_on, ini})
              = (IF previous.created_on >= ini THEN previous.created_on ELSE ini)
        BY <3>1, ExtremesOfTwo
      <3>3. QED BY <1>1, <2>11, <3>2
    <2>16. QED BY <2>5, <2>13, <2>14, <2>15
  <1>7. QED BY <1>5, <1>6

LEMMA EndsDiffer ==
  ASSUME Metrics!Assumption, NEW rows \in SUBSET Metrics!Rows,
         NEW ini \in Metrics!Ends, NEW end \in Metrics!Ends,
         NEW p \in Metrics!get_metric(rows, ini, end), NEW q \in Metrics!get_metric(rows, ini, end),
         p.end = q.end
  PROVE  p = q
  <1>1. MaxDay \in Nat /\ (\A row \in rows : row.created_on \in 0 .. MaxDay) /\ end \in Nat
    BY DEF Metrics!Assumption, Metrics!Rows, Metrics!Days, Metrics!Ends
  <1> DEFINE Change(day) ==
        [ini |-> Metrics!Max({Metrics!latest(Metrics!Before(rows, day)).created_on, ini}), end |-> day,
         metric |-> Metrics!latest(Metrics!Before(rows, day)).value]
             last == Metrics!latest(Metrics!Before(rows, end))
             final == [ini |-> last.created_on, end |-> end, metric |-> last.value]
  <1>2. ASSUME NEW x \in Metrics!get_metric(rows, ini, end)
        PROVE  x = (IF x.end = end THEN final ELSE Change(x.end))
    <2>1. CASE x = final
      BY <2>1
    <2>2. CASE x \in Metrics!Changes(rows, ini, end)
      <3>1. PICK row \in Metrics!Before(rows, end) : x = Change(row.created_on)
        BY <2>2 DEF Metrics!Changes
      <3>2. x.end = row.created_on
        BY <3>1
      <3>3. row.created_on # end
        BY <1>1 DEF Metrics!Before
      <3> HIDE DEF Change, final
      <3>4. QED BY <3>1, <3>2, <3>3
    <2>3. QED BY <2>1, <2>2 DEF Metrics!get_metric
  <1> HIDE DEF Change, final
  <1>3. QED BY <1>2

\* A weight of days that the metrics in effect reach.
Reaching(u, rows, a, b) ==
  \A d \in a .. b - 1 : u[d] \in Nat /\ \A row \in rows : InEffect(row, rows, d) => u[d] <= row.value

\* Pieces from a day on, that cover an interval by as much.
Cover(pieces, day, ini, end, u) ==
  /\ IsFiniteSet(pieces)
  /\ \A p \in pieces : /\ p.ini \in Nat /\ p.end \in 0 .. MaxDay + Period /\ p.ini < p.end
                       /\ day <= p.ini /\ p.metric \in Nat /\ p.end <= end
  /\ \A p, q \in pieces : p.end = q.end => p = q
  /\ \A d \in ini .. end - 1 : \E p \in pieces : p.ini <= d /\ d < p.end /\ u[d] <= p.metric

\* What From and get_metric make of an interval covers it.
LEMMA FromCovers ==
  ASSUME Metrics!Assumption, NEW rows \in SUBSET Metrics!Rows, IsFiniteSet(rows),
         NEW ini \in Metrics!Ends, NEW end \in Metrics!Ends, ini < end, ~ Metrics!Raises(rows, ini, end),
         NEW day \in Metrics!Ends, day <= ini,
         NEW pieces, pieces = Metrics!From(day, Metrics!get_metric(rows, ini, end)),
         NEW u, Reaching(u, rows, ini, end)
  PROVE  Cover(pieces, day, ini, end, u)
  <1>1. Values \subseteq Nat /\ Metrics!Ends = 0 .. MaxDay + Period /\ MaxDay \in Nat /\ Period \in Nat
    BY DEF Metrics!Assumption, Metrics!Ends
  <1>2. IsFiniteSet(pieces)
    BY FinitePieces, FiniteFrom
  <1>3. ASSUME NEW p \in pieces
        PROVE  /\ p.ini \in Metrics!Ends /\ p.end \in Metrics!Ends /\ p.metric \in Values
               /\ day <= p.ini /\ p.end <= end /\ p.ini < p.end
               /\ \E row \in rows :
                    /\ p.metric = row.value
                    /\ \A d \in Metrics!Ends : p.ini <= d /\ d < p.end => InEffect(row, rows, d)
    <2>1. p \in Metrics!From(day, Metrics!get_metric(rows, ini, end))
      OBVIOUS
    <2>2. IsPieceFrom(p, rows, ini, end, day)
      BY <2>1, FromPieces
    <2>3. QED BY <2>2 DEF IsPieceFrom
  <1>4. ASSUME NEW p \in pieces
        PROVE  /\ p.ini \in Nat /\ p.end \in 0 .. MaxDay + Period /\ p.ini < p.end
               /\ day <= p.ini /\ p.metric \in Nat /\ p.end <= end
    <2>1. p.metric \in Nat
      BY <1>1, <1>3
    <2>2. QED BY <1>1, <1>3, <2>1
  <1>5. ASSUME NEW x \in Metrics!get_metric(rows, ini, end)
        PROVE  /\ x.ini \in Int /\ day \in Int /\ DOMAIN x = {"ini", "end", "metric"}
               /\ LET p == [x EXCEPT !.ini = Metrics!Max({@, day})] IN
                  /\ p \in pieces /\ p.end = x.end
                  /\ p.ini = IF x.ini >= day THEN x.ini ELSE day
    <2>1. IsPiece(x, rows, ini, end)
      BY PiecesOfMetric
    <2>2. x.ini \in Int /\ day \in Int /\ DOMAIN x = {"ini", "end", "metric"}
      BY <1>1, <2>1 DEF IsPiece
    <2>3. [x EXCEPT !.ini = Metrics!Max({@, day})] \in pieces
      BY DEF Metrics!From
    <2>4. Metrics!Max({x.ini, day}) = IF x.ini >= day THEN x.ini ELSE day
      BY <2>2, ExtremesOfTwo
    <2>5. QED BY <2>2, <2>3, <2>4
  <1>6. ASSUME NEW p \in pieces, NEW q \in pieces, p.end = q.end PROVE p = q
    <2>1. PICK x \in Metrics!get_metric(rows, ini, end) : p = [x EXCEPT !.ini = Metrics!Max({@, day})]
      BY DEF Metrics!From
    <2>2. PICK y \in Metrics!get_metric(rows, ini, end) : q = [y EXCEPT !.ini = Metrics!Max({@, day})]
      BY DEF Metrics!From
    <2>3. p.end = x.end /\ q.end = y.end
      BY <1>5, <2>1, <2>2
    <2>4. x = y
      BY <1>6, <2>3, EndsDiffer
    <2>5. QED BY <2>1, <2>2, <2>4
  <1>7. ASSUME NEW d \in ini .. end - 1
        PROVE  \E p \in pieces : p.ini <= d /\ d < p.end /\ u[d] <= p.metric
    <2>1. d \in Nat /\ ini <= d /\ d < end /\ day <= d /\ d \in Metrics!Ends
      BY <1>1
    <2>2. PICK x \in Metrics!get_metric(rows, ini, end) : x.ini <= d /\ d < x.end
      BY <2>1, EveryDay
    <2>3. PICK p \in pieces : p.end = x.end /\ p.ini = IF x.ini >= day THEN x.ini ELSE day
      BY <1>5
    <2>4. p.ini <= d /\ d < p.end
      BY <2>1, <2>2, <2>3
    <2>5. PICK row \in rows :
            /\ p.metric = row.value
            /\ \A e \in Metrics!Ends : p.ini <= e /\ e < p.end => InEffect(row, rows, e)
      BY <1>3
    <2>6. InEffect(row, rows, d)
      BY <2>1, <2>4, <2>5
    <2>7. u[d] <= row.value
      BY <2>6 DEF Reaching
    <2>8. QED BY <2>4, <2>5, <2>7
  <1>8. QED BY <1>2, <1>4, <1>6, <1>7 DEF Cover

-----------------------------------------------------------------------------
\* Lines cost what their pieces do.
LEMMA ChargedOfLines ==
  ASSUME NEW pieces, IsFiniteSet(pieces), \A p, q \in pieces : p.end = q.end => p = q,
         NEW net, \A p \in pieces : net[p] \in Nat
  PROVE  Metrics!Charged(Metrics!Lines(pieces, net)) = Metrics!Total(net, pieces)
  <1> DEFINE f == [p \in pieces |-> [ini |-> p.ini, end |-> p.end, metric |-> p.metric, net |-> net[p]]]
  <1>1. PICK lines, of : lines = Metrics!Lines(pieces, net) /\ of = [line \in lines |-> line.net]
    OBVIOUS
  <1>2. lines = {f[p] : p \in pieces}
    BY <1>1 DEF Metrics!Lines
  <1>3. f = [p \in pieces |-> f[p]] /\ \A p \in pieces : f[p].end = p.end /\ f[p].net = net[p]
    OBVIOUS
  <1> HIDE DEF f
  <1>4. \A p, q \in pieces : f[p] = f[q] => p = q
    BY <1>3
  <1>5. \A p \in pieces : of[f[p]] = net[p] /\ net[p] \in Nat
    BY <1>1, <1>2, <1>3
  <1>6. Metrics!Total(of, {f[p] : p \in pieces}) = Metrics!Total(net, pieces)
    BY <1>3, <1>4, <1>5, TotalOfImage
  <1>7. QED BY <1>1, <1>2, <1>6 DEF Metrics!Charged

LEMMA ChargedBoth ==
  ASSUME NEW L, NEW M, IsFiniteSet(L), IsFiniteSet(M), L \cap M = {}, \A line \in L \cup M : line.net \in Nat
  PROVE  Metrics!Charged(L \cup M) = Metrics!Charged(L) + Metrics!Charged(M)
  <1>1. PICK B, of, l, m : /\ B = L \cup M /\ of = [line \in B |-> line.net]
                           /\ l = [line \in L |-> line.net] /\ m = [line \in M |-> line.net]
    OBVIOUS
  <1>2. (\A x \in L : l[x] = of[x]) /\ (\A x \in M : m[x] = of[x]) /\ \A x \in L \cup M : of[x] \in Nat
    BY <1>1
  <1>3. Metrics!Total(l, L) = Metrics!Total(of, L) /\ Metrics!Total(m, M) = Metrics!Total(of, M)
    BY <1>2, TotalOfSame
  <1>4. Metrics!Total(of, L \cup M) = Metrics!Total(of, L) + Metrics!Total(of, M)
    BY <1>2, TotalOfBoth
  <1>5. /\ Metrics!Charged(L) = Metrics!Total(l, L) /\ Metrics!Charged(M) = Metrics!Total(m, M)
        /\ Metrics!Charged(L \cup M) = Metrics!Total(of, L \cup M)
    BY <1>1 DEF Metrics!Charged
  <1>6. QED BY <1>3, <1>4, <1>5

LEMMA ChargedIsNat ==
  ASSUME NEW L, IsFiniteSet(L), \A line \in L : line.net \in Nat
  PROVE  Metrics!Charged(L) \in Nat
  <1>1. PICK of : of = [line \in L |-> line.net]
    OBVIOUS
  <1>2. \A line \in L : of[line] \in Nat
    BY <1>1
  <1>3. Metrics!Total(of, L) \in Nat
    BY <1>2, TotalIsNat
  <1>4. QED BY <1>1, <1>3 DEF Metrics!Charged

\* A recharge pays for the days since the order was billed, less what was billed of them.
LEMMA RechargePays ==
  ASSUME Metrics!Assumption, NEW o \in Metrics!OrderTypes, RowsInOrder(o), BilledBefore(o),
         NEW bp \in Metrics!Ends, NEW end, end = Metrics!Min({bp, o.billed_until}), o.billed_on < end,
         ~ Metrics!Raises(o.metrics, o.billed_on, end),
         NEW u, Reaching(u, o.metrics, o.billed_on, end)
  PROVE  LET r == Metrics!Recharge(o, bp) IN
         /\ Metrics!Charged(r.lines)
              >= Metrics!Total(u, o.billed_on .. end - 1) - o.billed_metric * (end - o.billed_on)
         /\ \A line \in r.lines : line.ini < line.end /\ line.end <= r.until
  <1>1. /\ MaxDay \in Nat /\ Period \in Nat /\ MaxDay + Period \in Nat
        /\ Values \subseteq Nat /\ Metrics!Ends = 0 .. MaxDay + Period
        /\ o.metrics \in SUBSET Metrics!Rows /\ IsFiniteSet(o.metrics)
    BY DEF Metrics!Assumption, Metrics!Ends, Metrics!OrderTypes, RowsInOrder
  <1>2. PICK on, metric : on = o.billed_on /\ metric = o.billed_metric
    OBVIOUS
  <1>3. /\ on \in Nat /\ on \in Metrics!Ends /\ metric \in Nat /\ end \in Nat /\ end \in Metrics!Ends
        /\ on < end
    <2>1. bp \in Int /\ o.billed_until \in Int
      BY <1>1 DEF BilledBefore
    <2>2. end = IF bp <= o.billed_until THEN bp ELSE o.billed_until
      BY <2>1, ExtremesOfTwo
    <2>3. end \in Metrics!Ends
      BY <2>2 DEF BilledBefore
    <2>4. metric \in Nat /\ on \in 0 .. MaxDay
      BY <1>1, <1>2 DEF BilledBefore, Metrics!Days
    <2>5. QED BY <1>1, <1>2, <2>3, <2>4
  <1>4. PICK pieces : pieces = Metrics!From(on, Metrics!get_metric(o.metrics, on, end))
    OBVIOUS
  <1>5. /\ ~ Metrics!Raises(o.metrics, on, end) /\ on <= on
        /\ \A d \in on .. end - 1 : d \in Nat /\ u[d] \in Nat
    BY <1>2, <1>3 DEF Reaching
  <1>6. /\ IsFiniteSet(pieces)
        /\ \A p \in pieces : /\ p.ini \in Nat /\ p.end \in 0 .. MaxDay + Period /\ p.ini < p.end
                             /\ p.metric \in Nat /\ p.metric * (p.end - p.ini) \in Nat
        /\ \A p, q \in pieces : p.end = q.end => p = q
        /\ \A d \in on .. end - 1 : \E p \in pieces : p.ini <= d /\ d < p.end /\ u[d] <= p.metric
    <2>1. PICK rows : rows = o.metrics
      OBVIOUS
    <2>2. /\ rows \in SUBSET Metrics!Rows /\ IsFiniteSet(rows) /\ ~ Metrics!Raises(rows, on, end)
          /\ pieces = Metrics!From(on, Metrics!get_metric(rows, on, end))
          /\ Reaching(u, rows, on, end)
      BY <1>1, <1>2, <1>4, <1>5, <2>1
    <2>3. on \in Metrics!Ends /\ end \in Metrics!Ends /\ on < end /\ on <= on
      BY <1>3
    <2>4. Cover(pieces, on, on, end, u)
      BY <2>2, <2>3, FromCovers
    <2>5. ASSUME NEW p \in pieces PROVE p.metric * (p.end - p.ini) \in Nat
      <3>1. p.metric \in Nat /\ p.end - p.ini \in Nat
        BY <2>4 DEF Cover
      <3>2. QED BY <3>1, ProductIsNat
    <2>6. QED BY <2>4, <2>5 DEF Cover
  <1>7. PICK price, discount, net : /\ price = Metrics!Price(pieces) /\ discount = metric * (end - on)
                                    /\ net = Metrics!Net(pieces, discount)
    OBVIOUS
  <1>8. PICK charged : charged = {p \in pieces : net[p] > 0}
    OBVIOUS
  <1>9. discount \in Nat
    <2>1. end - on \in Nat
      BY <1>3
    <2>2. QED BY <1>3, <1>7, <2>1, ProductIsNat
  <1>10. \A p \in pieces : price[p] = p.metric * (p.end - p.ini) /\ price[p] \in Nat
    BY <1>6, <1>7 DEF Metrics!Price
  <1>11. Metrics!Total(price, pieces) >= Metrics!Total(u, on .. end - 1)
    <2>1. PICK D : D = on .. end - 1
      OBVIOUS
    <2>2. IsFiniteSet(D)
      <3>1. end - 1 \in Int
        BY <1>3
      <3>2. IsFiniteSet(on .. end - 1)
        BY <1>3, <3>1, FS_Interval
      <3>3. QED BY <2>1, <3>2
    <2>3. \A d \in D : d \in Nat /\ u[d] \in Nat
      BY <1>5, <2>1
    <2>4. \A p \in pieces : /\ p.ini \in Nat /\ p.end \in Nat /\ p.ini <= p.end /\ p.metric \in Nat
                            /\ price[p] = p.metric * (p.end - p.ini) /\ price[p] \in Nat
      BY <1>6, <1>10
    <2>5. \A d \in D : u[d] = 0 \/ \E p \in pieces : p.ini <= d /\ d < p.end /\ u[d] <= p.metric
      BY <1>6, <2>1
    <2>6. Metrics!Total(u, D) <= Metrics!Total(price, pieces)
      BY <1>6, <2>2, <2>3, <2>4, <2>5, TotalCovers
    <2>7. Metrics!Total(u, D) \in Nat /\ Metrics!Total(price, pieces) \in Nat
      BY <1>6, <1>10, <2>2, <2>3, TotalIsNat
    <2>8. QED BY <2>1, <2>6, <2>7
  <1>12. Metrics!Total(net, pieces) >= Metrics!Total(price, pieces) - discount
    <2>1. \A p \in pieces : p.end \in 0 .. MaxDay + Period /\ Metrics!Price(pieces)[p] \in Nat
      BY <1>6, <1>7, <1>10
    <2>2. PICK N \in Nat : N = MaxDay + Period
      BY <1>1
    <2>3. \A p \in pieces : p.end \in 0 .. N
      BY <2>1, <2>2
    <2>4. Metrics!Total(Metrics!Net(pieces, discount), pieces)
            >= Metrics!Total(Metrics!Price(pieces), pieces) - discount
      BY <1>6, <1>9, <2>1, <2>2, <2>3, TotalOfNets
    <2>5. QED BY <1>7, <2>4
  <1>13. \A p \in pieces : net[p] \in Nat
    BY <1>6, <1>7, <1>9, <1>10, NetIsNat
  <1>14. /\ IsFiniteSet(charged) /\ charged \in SUBSET pieces /\ IsFiniteSet(pieces \ charged)
         /\ charged \cap (pieces \ charged) = {} /\ pieces = charged \cup (pieces \ charged)
    BY <1>6, <1>8, FS_Subset
  <1>15. Metrics!Total(net, charged) = Metrics!Total(net, pieces)
    <2>1. PICK rest : rest = pieces \ charged
      OBVIOUS
    <2>2. \A p \in rest : net[p] = 0
      BY <1>8, <1>13, <2>1
    <2>3. Metrics!Total(net, rest) = 0
      BY <1>14, <2>1, <2>2, TotalOfZeros
    <2>4. \A p \in charged \cup rest : net[p] \in Nat
      BY <1>13, <1>14, <2>1
    <2>5. Metrics!Total(net, charged \cup rest) = Metrics!Total(net, charged) + Metrics!Total(net, rest)
      BY <1>14, <2>1, <2>4, TotalOfBoth
    <2>6. Metrics!Total(net, charged) \in Nat
      BY <1>13, <1>14, TotalIsNat
    <2>7. charged \cup rest = pieces
      BY <1>14, <2>1
    <2>8. PICK x, y : x = Metrics!Total(net, charged) /\ y = Metrics!Total(net, rest)
      OBVIOUS
    <2>9. x + y = x
      BY <2>3, <2>6, <2>8
    <2>10. Metrics!Total(net, charged \cup rest) = x + y
      BY <2>5, <2>8
    <2>11. QED BY <2>7, <2>8, <2>9, <2>10
  <1>16. Metrics!Charged(Metrics!Lines(charged, net)) = Metrics!Total(net, charged)
    <2>1. (\A p \in charged : net[p] \in Nat) /\ \A p, q \in charged : p.end = q.end => p = q
      BY <1>6, <1>13, <1>14
    <2>2. QED BY <1>14, <2>1, ChargedOfLines
  <1>17. /\ Metrics!Total(net, pieces) \in Nat /\ Metrics!Total(price, pieces) \in Nat
         /\ Metrics!Total(u, on .. end - 1) \in Nat
    <2>1. end - 1 \in Int
      BY <1>3
    <2>2. IsFiniteSet(on .. end - 1)
      BY <1>3, <2>1, FS_Interval
    <2>3. PICK D : D = on .. end - 1
      OBVIOUS
    <2>4. Metrics!Total(u, D) \in Nat
      BY <1>5, <2>2, <2>3, TotalIsNat
    <2>5. QED BY <1>6, <1>10, <1>13, <2>3, <2>4, TotalIsNat
  <1>18. CASE Metrics!Total(price, pieces) > discount
    <2>1. PICK until : until = IF charged = {} THEN end ELSE Metrics!Max({p.end : p \in charged})
      OBVIOUS
    <2>2. Metrics!Recharge(o, bp) = [lines |-> Metrics!Lines(charged, net), until |-> until]
      BY <1>2, <1>4, <1>7, <1>8, <1>18, <2>1 DEF Metrics!Recharge
    <2>3. Metrics!Charged(Metrics!Lines(charged, net)) >= Metrics!Total(u, on .. end - 1) - discount
      BY <1>9, <1>11, <1>12, <1>15, <1>16, <1>17
    <2>4. ASSUME NEW line \in Metrics!Lines(charged, net) PROVE line.ini < line.end /\ line.end <= until
      <3>1. PICK p \in charged : line.ini = p.ini /\ line.end = p.end
        BY DEF Metrics!Lines
      <3>2. PICK S : S = {q.end : q \in charged}
        OBVIOUS
      <3>3. S \in SUBSET (0 .. MaxDay + Period) /\ p.end \in S
        BY <1>6, <1>14, <3>2
      <3>4. p.end <= Metrics!Max(S)
        <4>1. PICK N \in Nat : N = MaxDay + Period
          BY <1>1
        <4>2. QED BY <3>3, <4>1, GreatestNumber
      <3>5. p.ini < p.end
        BY <1>6, <1>14
      <3>6. until = Metrics!Max(S)
        BY <2>1, <3>1, <3>2
      <3>7. QED BY <3>1, <3>4, <3>5, <3>6
    <2>5. PICK r : r = Metrics!Recharge(o, bp)
      OBVIOUS
    <2>6. r.lines = Metrics!Lines(charged, net) /\ r.until = until
      BY <2>2, <2>5
    <2>7. Metrics!Charged(r.lines) >= Metrics!Total(u, on .. end - 1) - discount
      BY <2>3, <2>6
    <2>8. \A line \in r.lines : line.ini < line.end /\ line.end <= r.until
      BY <2>4, <2>6
    <2>9. QED BY <1>2, <1>7, <2>5, <2>7, <2>8
  <1>19. CASE ~ (Metrics!Total(price, pieces) > discount)
    <2>1. Metrics!Recharge(o, bp) = Metrics!NoLines
      BY <1>2, <1>4, <1>7, <1>19 DEF Metrics!Recharge
    <2>2. Metrics!Charged({}) = 0
      BY TotalOfNone DEF Metrics!Charged
    <2>3. 0 >= Metrics!Total(u, on .. end - 1) - discount
      BY <1>9, <1>11, <1>17, <1>19
    <2>4. QED BY <1>2, <1>7, <2>1, <2>2, <2>3 DEF Metrics!NoLines
  <1>20. QED BY <1>18, <1>19

\* What was not billed is charged.
LEMMA NewLinesPay ==
  ASSUME Metrics!Assumption, NEW rows \in SUBSET Metrics!Rows, IsFiniteSet(rows),
         NEW ini \in Metrics!Ends, NEW bp \in Metrics!Ends, ini < bp, ~ Metrics!Raises(rows, ini, bp),
         NEW day \in Metrics!Ends, day <= ini, NEW u, Reaching(u, rows, ini, bp),
         NEW charged,
         charged = {piece \in Metrics!From(day, Metrics!get_metric(rows, ini, bp)) : piece.metric > 0},
         NEW lines, lines = Metrics!Lines(charged, Metrics!Price(charged))
  PROVE  /\ Metrics!Charged(lines) >= Metrics!Total(u, ini .. bp - 1)
         /\ IsFiniteSet(lines) /\ \A line \in lines : day <= line.ini /\ line.net \in Nat
  <1>1. ini \in Nat /\ bp \in Nat /\ day \in Nat
    BY DEF Metrics!Ends
  <1>2. PICK pieces : pieces = Metrics!From(day, Metrics!get_metric(rows, ini, bp))
    OBVIOUS
  <1>3. Cover(pieces, day, ini, bp, u)
    BY <1>2, FromCovers
  <1>4. PICK price : price = Metrics!Price(charged)
    OBVIOUS
  <1>5. charged \in SUBSET pieces /\ IsFiniteSet(charged)
    <2>1. charged \in SUBSET pieces
      BY <1>2
    <2>2. QED BY <1>3, <2>1, FS_Subset DEF Cover
  <1>6. \A p \in charged : /\ p.ini \in Nat /\ p.end \in Nat /\ p.ini <= p.end /\ p.metric \in Nat
                           /\ day <= p.ini
    BY <1>3, <1>5 DEF Cover
  <1>7. ASSUME NEW p \in charged
        PROVE  price[p] = p.metric * (p.end - p.ini) /\ price[p] \in Nat
    <2>1. price[p] = p.metric * (p.end - p.ini)
      BY <1>4 DEF Metrics!Price
    <2>2. p.metric \in Nat /\ p.end - p.ini \in Nat
      BY <1>6
    <2>3. p.metric * (p.end - p.ini) \in Nat
      BY <2>2, ProductIsNat
    <2>4. QED BY <2>1, <2>3
  <1>8. \A p, q \in charged : p.end = q.end => p = q
    BY <1>3, <1>5 DEF Cover
  <1>9. PICK D : D = ini .. bp - 1
    OBVIOUS
  <1>10. IsFiniteSet(D)
    <2>1. bp - 1 \in Int
      BY <1>1
    <2>2. IsFiniteSet(ini .. bp - 1)
      BY <1>1, <2>1, FS_Interval
    <2>3. QED BY <1>9, <2>2
  <1>11. \A d \in D : d \in Nat /\ u[d] \in Nat
    BY <1>1, <1>9 DEF Reaching
  <1>12. ASSUME NEW d \in D
         PROVE  u[d] = 0 \/ \E p \in charged : p.ini <= d /\ d < p.end /\ u[d] <= p.metric
    <2>1. PICK p \in pieces : p.ini <= d /\ d < p.end /\ u[d] <= p.metric
      BY <1>3, <1>9 DEF Cover
    <2>2. p.metric \in Nat
      BY <1>3 DEF Cover
    <2>3. u[d] \in Nat
      BY <1>11
    <2>4. p.metric > 0 => p \in charged
      BY <1>2
    <2>5. p.metric = 0 => u[d] = 0
      BY <2>1, <2>3
    <2>6. QED BY <2>1, <2>2, <2>4, <2>5
  <1>13. Metrics!Total(u, D) <= Metrics!Total(price, charged)
    BY <1>5, <1>6, <1>7, <1>10, <1>11, <1>12, TotalCovers
  <1>14. Metrics!Charged(Metrics!Lines(charged, price)) = Metrics!Total(price, charged)
    BY <1>5, <1>7, <1>8, ChargedOfLines
  <1>15. Metrics!Total(u, D) \in Nat /\ Metrics!Total(price, charged) \in Nat
    BY <1>5, <1>7, <1>10, <1>11, TotalIsNat
  <1>16. Metrics!Charged(lines) >= Metrics!Total(u, ini .. bp - 1)
    BY <1>4, <1>9, <1>13, <1>14, <1>15
  <1>17. IsFiniteSet(lines)
    BY <1>5, FiniteLines
  <1>18. ASSUME NEW line \in lines PROVE day <= line.ini /\ line.net \in Nat
    <2>1. PICK p \in charged : line.ini = p.ini /\ line.net = price[p]
      BY <1>4 DEF Metrics!Lines
    <2>2. QED BY <1>6, <1>7, <2>1
  <1>19. QED BY <1>16, <1>17, <1>18

\* Of two intervals in a row.
LEMMA TotalInTwo ==
  ASSUME NEW u, NEW a \in Nat, NEW b \in Nat, NEW c \in Nat, a <= b, b <= c,
         \A d \in a .. c - 1 : u[d] \in Nat
  PROVE  /\ Metrics!Total(u, a .. c - 1) = Metrics!Total(u, a .. b - 1) + Metrics!Total(u, b .. c - 1)
         /\ Metrics!Total(u, a .. b - 1) \in Nat /\ Metrics!Total(u, b .. c - 1) \in Nat
  <1>1. PICK S, T : S = a .. b - 1 /\ T = b .. c - 1
    OBVIOUS
  <1>2. IsFiniteSet(S) /\ IsFiniteSet(T)
    <2>1. b - 1 \in Int /\ c - 1 \in Int
      OBVIOUS
    <2>2. IsFiniteSet(a .. b - 1) /\ IsFiniteSet(b .. c - 1)
      BY <2>1, FS_Interval
    <2>3. QED BY <1>1, <2>2
  <1>3. S \cap T = {} /\ S \cup T = a .. c - 1
    BY <1>1
  <1>4. \A d \in S \cup T : u[d] \in Nat
    BY <1>3
  <1>5. Metrics!Total(u, S \cup T) = Metrics!Total(u, S) + Metrics!Total(u, T)
    BY <1>2, <1>3, <1>4, TotalOfBoth
  <1>6. Metrics!Total(u, S) \in Nat /\ Metrics!Total(u, T) \in Nat
    BY <1>2, <1>4, TotalIsNat
  <1>7. QED BY <1>1, <1>3, <1>5, <1>6

\* What bill_with_metric charges of an order that goes on: all days that were not billed,
\* and those since it was billed in advance, less what was billed of them.
LEMMA ChargePays ==
  ASSUME Metrics!Assumption, NEW o \in Metrics!OrderTypes, RowsInOrder(o), BilledTogether(o),
         o.cancelled_on = None, NEW bp \in Metrics!Ends, ~ Metrics!ChargeRaises(o, bp), NEW u
  PROVE  /\ ~ Metrics!IsBilled(o, bp) /\ ~ Metrics!Recharges(o)
              /\ Reaching(u, o.metrics, Metrics!Begins(o), bp) =>
              Metrics!Charged(Metrics!Charge(o, bp).lines)
                >= Metrics!Total(u, Metrics!Begins(o) .. bp - 1)
         /\ Metrics!Recharges(o) /\ o.billed_on < bp /\ o.billed_on < o.billed_until
              /\ Reaching(u, o.metrics, o.billed_on, bp) =>
              Metrics!Charged(Metrics!Charge(o, bp).lines)
                >= Metrics!Total(u, o.billed_on .. bp - 1)
                     - o.billed_metric * ((IF bp <= o.billed_until THEN bp ELSE o.billed_until) - o.billed_on)
  <1>1. /\ MaxDay \in Nat /\ Period \in Nat /\ Values \subseteq Nat /\ Metrics!Ends \subseteq Nat
        /\ Metrics!Days \subseteq Metrics!Ends /\ 0 \in Metrics!Ends
    BY NumbersAre DEF Metrics!Ends
  <1>2. /\ o.metrics \in SUBSET Metrics!Rows /\ o.registered_on \in Metrics!Days
        /\ o.billed_on \in Metrics!Days \cup {None} /\ o.billed_until \in Metrics!Ends \cup {None}
        /\ o.billed_metric \in Values \cup {None}
    BY DEF Metrics!OrderTypes
  <1>3. PICK rows : rows = o.metrics
    OBVIOUS
  <1>4. rows \in SUBSET Metrics!Rows /\ IsFiniteSet(rows)
    BY <1>2, <1>3 DEF RowsInOrder
  <1>5. PICK ini : ini = Metrics!Begins(o)
    OBVIOUS
  <1>6. ini \in Metrics!Ends /\ ini \in Nat /\ bp \in Nat
    BY <1>1, <1>2, <1>5 DEF Metrics!Begins
  <1>7. Metrics!IsBilled(o, bp) <=> bp <= ini
    BY <1>5 DEF Metrics!IsBilled, Metrics!IsOver
  <1>8. PICK recharge :
          recharge = IF Metrics!Recharges(o) THEN Metrics!Recharge(o, bp) ELSE Metrics!NoLines
    OBVIOUS
  <1>9. PICK charged :
          charged = {piece \in Metrics!From(recharge.until, Metrics!get_metric(rows, ini, bp)) : piece.metric > 0}
    OBVIOUS
  <1>10. PICK lines : lines = Metrics!Lines(charged, Metrics!Price(charged))
    OBVIOUS
  <1>11. Metrics!Charge(o, bp).lines = (IF bp <= ini THEN recharge.lines ELSE recharge.lines \cup lines)
    BY <1>3, <1>5, <1>7, <1>8, <1>9, <1>10 DEF Metrics!Charge
  <1>12. ASSUME ini < bp, NEW day \in Metrics!Ends, day = recharge.until, day <= ini,
                Reaching(u, rows, ini, bp)
         PROVE  /\ Metrics!Charged(lines) >= Metrics!Total(u, ini .. bp - 1)
                /\ IsFiniteSet(lines) /\ \A line \in lines : day <= line.ini /\ line.net \in Nat
    <2>1. ~ Metrics!Raises(rows, ini, bp)
      <3>1. ~ (bp <= ini)
        BY <1>6, <1>12
      <3>2. QED BY <1>3, <1>5, <1>7, <3>1 DEF Metrics!ChargeRaises
    <2>2. charged = {piece \in Metrics!From(day, Metrics!get_metric(rows, ini, bp)) : piece.metric > 0}
      BY <1>9, <1>12
    <2>3. QED BY <1>4, <1>6, <1>10, <1>12, <2>1, <2>2, NewLinesPay
  <1>13. ASSUME ~ Metrics!IsBilled(o, bp), ~ Metrics!Recharges(o), Reaching(u, o.metrics, Metrics!Begins(o), bp)
         PROVE  Metrics!Charged(Metrics!Charge(o, bp).lines) >= Metrics!Total(u, Metrics!Begins(o) .. bp - 1)
    <2>1. recharge.lines = {} /\ recharge.until = 0
      BY <1>8, <1>13 DEF Metrics!NoLines
    <2>2. ini < bp /\ 0 <= ini /\ Reaching(u, rows, ini, bp)
      BY <1>3, <1>5, <1>6, <1>7, <1>13
    <2>3. Metrics!Charged(lines) >= Metrics!Total(u, ini .. bp - 1)
      BY <1>1, <1>12, <2>1, <2>2
    <2>4. Metrics!Charge(o, bp).lines = lines
      BY <1>6, <1>11, <2>1, <2>2
    <2>5. QED BY <1>5, <2>3, <2>4
  <1>14. ASSUME Metrics!Recharges(o), o.billed_on < bp, o.billed_on < o.billed_until,
                Reaching(u, o.metrics, o.billed_on, bp)
         PROVE  Metrics!Charged(Metrics!Charge(o, bp).lines)
                  >= Metrics!Total(u, o.billed_on .. bp - 1)
                       - o.billed_metric
                           * ((IF bp <= o.billed_until THEN bp ELSE o.billed_until) - o.billed_on)
    <2>1. BilledBefore(o) /\ ini = o.billed_until
      BY <1>2, <1>5, <1>14 DEF Metrics!Recharges, BilledTogether, BilledBefore, Metrics!Begins
    <2>2. PICK on, metric, end :
            on = o.billed_on /\ metric = o.billed_metric /\ end = IF bp <= ini THEN bp ELSE ini
      OBVIOUS
    <2>3. on \in Nat /\ metric \in Nat /\ on < end /\ on < ini /\ end \in Nat /\ end <= bp /\ end <= ini
      <3>1. on \in Nat /\ metric \in Nat
        BY <1>1, <2>1, <2>2 DEF BilledBefore
      <3>2. QED BY <1>6, <1>14, <2>1, <2>2, <3>1
    <2>4. end = Metrics!Min({bp, o.billed_until})
      <3>1. bp \in Int /\ ini \in Int
        BY <1>6
      <3>2. QED BY <2>1, <2>2, <3>1, ExtremesOfTwo
    <2>5. \A d \in on .. bp - 1 : u[d] \in Nat
      BY <1>14, <2>2 DEF Reaching
    <2>6. Reaching(u, o.metrics, o.billed_on, end)
      BY <1>6, <1>14, <2>2, <2>3 DEF Reaching
    <2>7. ~ Metrics!Raises(o.metrics, o.billed_on, end)
      BY <1>14, <2>4 DEF Metrics!ChargeRaises
    <2>8. recharge = Metrics!Recharge(o, bp)
      BY <1>8, <1>14
    <2>9. /\ Metrics!Charged(recharge.lines)
               >= Metrics!Total(u, on .. end - 1) - metric * (end - on)
          /\ \A line \in recharge.lines : line.ini < line.end /\ line.end <= recharge.until
      BY <2>1, <2>2, <2>3, <2>4, <2>6, <2>7, <2>8, RechargePays
    <2>10. /\ recharge.lines \subseteq LineTypes /\ IsFiniteSet(recharge.lines)
           /\ recharge.until \in Metrics!Ends /\ recharge.until <= ini
      <3>1. ~ Metrics!Raises(o.metrics, o.billed_on, Metrics!Min({bp, o.billed_until}))
        BY <2>4, <2>7
      <3>2. QED BY <2>1, <2>8, <3>1, RechargeLines
    <2>11. \A line \in recharge.lines : line.net \in Nat /\ line.ini \in Nat /\ line.end \in Nat
      BY <1>1, <2>10 DEF LineTypes
    <2>12. Metrics!Charged(recharge.lines) \in Nat
      BY <2>10, <2>11, ChargedIsNat
    <2>13. PICK paidBefore, paidNow, a, b, c :
             /\ paidBefore = metric * (end - on) /\ paidNow = Metrics!Charged(recharge.lines)
             /\ a = Metrics!Total(u, on .. end - 1) /\ b = Metrics!Total(u, end .. bp - 1)
             /\ c = Metrics!Total(u, on .. bp - 1)
      OBVIOUS
    <2>14. paidBefore \in Nat /\ paidNow \in Nat
      <3>1. end - on \in Nat
        BY <2>3
      <3>2. QED BY <2>3, <2>12, <2>13, <3>1, ProductIsNat
    <2>15. c = a + b /\ a \in Nat /\ b \in Nat
      <3>1. on <= end
        BY <2>3
      <3>2. QED BY <1>6, <2>3, <2>5, <2>13, <3>1, TotalInTwo
    <2>16. paidNow >= a - paidBefore
      BY <2>9, <2>13
    <2>17. Metrics!Charged(Metrics!Charge(o, bp).lines) >= c - paidBefore
      <3>1. CASE bp <= ini
        <4>1. end = bp
          BY <2>2, <3>1
        <4>2. a = c
          BY <2>13, <4>1
        <4>3. Metrics!Charged(Metrics!Charge(o, bp).lines) = paidNow
          BY <1>11, <2>13, <3>1
        <4>4. QED BY <2>16, <4>2, <4>3
      <3>2. CASE ini < bp
        <4>1. end = ini
          BY <1>6, <2>2, <3>2
        <4>2. Reaching(u, rows, ini, bp)
          BY <1>3, <1>6, <1>14, <2>2, <2>3 DEF Reaching
        <4>3. PICK day \in Metrics!Ends : day = recharge.until /\ day <= ini
          BY <2>10
        <4>4. /\ Metrics!Charged(lines) >= Metrics!Total(u, ini .. bp - 1)
              /\ IsFiniteSet(lines) /\ \A line \in lines : day <= line.ini /\ line.net \in Nat
          BY <1>12, <3>2, <4>2, <4>3
        <4>5. PICK L, y : L = recharge.lines /\ y = Metrics!Charged(lines)
          OBVIOUS
        <4>6. y >= b
          BY <2>13, <4>1, <4>4, <4>5
        <4>7. L \cap lines = {}
          <5> SUFFICES ASSUME NEW line \in L, line \in lines PROVE FALSE
            OBVIOUS
          <5>1. line.ini \in Nat /\ line.end \in Nat /\ line.ini < line.end /\ line.end <= day
            BY <2>9, <2>11, <4>3, <4>5
          <5>2. day <= line.ini
            BY <4>4
          <5>3. day \in Nat
            BY <1>1
          <5>4. QED BY <5>1, <5>2, <5>3
        <4>8. \A line \in L \cup lines : line.net \in Nat
          BY <2>11, <4>4, <4>5
        <4>9. Metrics!Charged(L \cup lines) = Metrics!Charged(L) + Metrics!Charged(lines)
          BY <2>10, <4>4, <4>5, <4>7, <4>8, ChargedBoth
        <4>10. Metrics!Charge(o, bp).lines = L \cup lines
          <5>1. ~ (bp <= ini)
            BY <1>6, <3>2
          <5>2. QED BY <1>11, <4>5, <5>1
        <4>11. Metrics!Charged(Metrics!Charge(o, bp).lines) = paidNow + y
          BY <2>13, <4>5, <4>9, <4>10
        <4>12. y \in Nat
          BY <4>4, <4>5, ChargedIsNat
        <4>13. paidNow + y >= c - paidBefore
          BY <2>14, <2>15, <2>16, <4>6, <4>12
        <4>14. QED BY <4>11, <4>13
      <3>3. QED BY <1>6, <3>1, <3>2
    <2>18. QED BY <2>1, <2>2, <2>13, <2>17
  <1>15. QED BY <1>13, <1>14

\* By how much a day of order i is to be paid, at least: by what was measured in it, or for
\* a day to come by the last row.
Weight(i) ==
  [d \in Nat |-> IF d < today THEN Metrics!Max({0, measured[i][d] - Error})
                 ELSE Metrics!latest(orders[i].metrics).value]

\* No row in effect is below it, and what was consumed is a total of it.
LEMMA WeightIs ==
  ASSUME Metrics!Assumption, MetricsInv, NEW i \in DOMAIN orders, NEW u, u = Weight(i)
  PROVE  /\ \A d \in Nat : u[d] \in Nat
         /\ \A d \in Nat : today <= d => u[d] = Metrics!latest(orders[i].metrics).value
         /\ \A a, end \in Nat : Reaching(u, orders[i].metrics, a, end)
         /\ \A end \in Nat : end <= today =>
              Metrics!Consumed(i, end) = Metrics!Total(u, orders[i].registered_on .. end - 1)
  <1>1. PICK o : o = orders[i]
    OBVIOUS
  <1>2. Metrics!TypeOK /\ today \in Metrics!Days /\ measured \in [Metrics!Ids -> [Metrics!Days -> Nat]]
    BY DEF MetricsInv, Metrics!TypeOK
  <1>3. /\ o.metrics \in SUBSET Metrics!Rows /\ o.registered_on \in Metrics!Days
        /\ RowsInOrder(o) /\ RowsMeasured(i) /\ i \in Metrics!Ids
    BY <1>1, <1>2, OrdersAre DEF MetricsInv
  <1>4. today \in Nat /\ o.registered_on \in Nat /\ Error \in Nat /\ Values \subseteq Nat /\ MaxDay \in Nat
        /\ today <= MaxDay
    BY <1>2, <1>3, NumbersAre
  <1>5. PICK last : last = Metrics!latest(o.metrics)
    OBVIOUS
  <1>6. last \in o.metrics /\ last.value \in Nat
        /\ \A other \in o.metrics : other.created_on <= last.created_on
    <2>1. o.metrics # {}
      BY <1>3 DEF RowsInOrder
    <2>2. last \in o.metrics /\ \A other \in o.metrics : other.created_on <= last.created_on
      BY <1>3, <1>5, <2>1, LatestRow
    <2>3. last.value \in Nat
      BY <1>3, <1>4, <2>2 DEF Metrics!Rows
    <2>4. QED BY <2>2, <2>3
  <1>7. \A row \in o.metrics : row.created_on \in Nat /\ row.updated_on \in Nat /\ row.value \in Nat
                               /\ row.created_on <= today
    <2>1. \A row \in o.metrics : row.created_on \in Nat /\ row.updated_on \in Nat /\ row.value \in Nat
      BY <1>3, <1>4, NumbersAre DEF Metrics!Rows
    <2>2. QED BY <1>3, <1>4, <2>1 DEF RowsInOrder
  <1>8. ASSUME NEW d \in Nat, d < today
        PROVE  /\ u[d] = Metrics!Max({0, measured[i][d] - Error}) /\ measured[i][d] \in Nat /\ u[d] \in Nat
               /\ u[d] = (IF measured[i][d] <= Error THEN 0 ELSE measured[i][d] - Error)
               /\ d \in Metrics!Days
    <2>1. d \in Metrics!Days
      BY <1>4, <1>8 DEF Metrics!Days
    <2>2. PICK m : m = measured[i][d]
      OBVIOUS
    <2>3. m \in Nat
      BY <1>2, <1>3, <2>1, <2>2
    <2>4. u[d] = Metrics!Max({0, m - Error})
      BY <1>8, <2>2 DEF Weight
    <2>5. m - Error \in Int /\ 0 \in Int
      BY <1>4, <2>3
    <2>6. Metrics!Max({0, m - Error}) = (IF 0 >= m - Error THEN 0 ELSE m - Error)
      BY <2>5, ExtremesOfTwo
    <2>7. u[d] = (IF m <= Error THEN 0 ELSE m - Error) /\ u[d] \in Nat
      BY <1>4, <2>3, <2>4, <2>6
    <2>8. QED BY <2>1, <2>2, <2>3, <2>4, <2>7
  <1>9. \A d \in Nat : today <= d => u[d] = last.value
    BY <1>1, <1>4, <1>5 DEF Weight
  <1>10. ASSUME NEW d \in Nat PROVE u[d] \in Nat
    <2>1. CASE d < today
      BY <1>8, <2>1
    <2>2. CASE today <= d
      <3>1. u[d] = last.value
        BY <1>9, <2>2
      <3>2. QED BY <1>6, <3>1
    <2>3. QED BY <1>4, <2>1, <2>2
  <1>11. ASSUME NEW a \in Nat, NEW end \in Nat
         PROVE  Reaching(u, orders[i].metrics, a, end)
    <2> SUFFICES ASSUME NEW d \in a .. end - 1, NEW row \in o.metrics, InEffect(row, o.metrics, d)
                 PROVE  u[d] <= row.value
      BY <1>1, <1>10, <1>11 DEF Reaching
    <2>1. d \in Nat
      BY <1>11
    <2>2. CASE d < today
      <3>1. d \in Metrics!Days /\ measured[i][d] \in Nat
            /\ u[d] = (IF measured[i][d] <= Error THEN 0 ELSE measured[i][d] - Error)
        BY <1>8, <2>1, <2>2
      <3>2. Metrics!Near(row.value, measured[i][d])
        BY <1>1, <1>3, <2>2, <3>1 DEF RowsMeasured
      <3>3. measured[i][d] <= row.value + Error
        BY <3>2 DEF Metrics!Near
      <3>4. QED BY <1>4, <1>7, <3>1, <3>3
    <2>3. CASE today <= d
      <3>1. last.created_on <= d
        BY <1>4, <1>6, <1>7, <2>1, <2>3
      <3>2. last.created_on <= row.created_on
        BY <1>6, <3>1 DEF InEffect
      <3>3. row = last
        <4> SUFFICES ASSUME row # last PROVE FALSE
          OBVIOUS
        <4>1. Follows(last, row) \/ Follows(row, last)
          BY <1>3, <1>6 DEF RowsInOrder
        <4>2. row.created_on < last.created_on \/ last.created_on < row.created_on
          BY <4>1 DEF Follows
        <4>3. row.created_on <= last.created_on
          BY <1>6
        <4>4. QED BY <1>6, <1>7, <3>2, <4>2, <4>3
      <3>4. QED BY <1>6, <1>9, <2>1, <2>3, <3>3
    <2>4. QED BY <1>4, <2>1, <2>2, <2>3
  <1>12. ASSUME NEW end \in Nat, end <= today
         PROVE  Metrics!Consumed(i, end) = Metrics!Total(u, orders[i].registered_on .. end - 1)
    <2>1. PICK D, f : D = o.registered_on .. end - 1
                      /\ f = [d \in D |-> Metrics!Max({0, measured[i][d] - Error})]
      OBVIOUS
    <2>2. IsFiniteSet(D)
      <3>1. end - 1 \in Int /\ o.registered_on \in Int
        BY <1>4
      <3>2. QED BY <2>1, <3>1, FS_Interval
    <2>3. \A d \in D : d \in Nat /\ d < today
      BY <1>4, <1>12, <2>1
    <2>4. \A d \in D : f[d] = u[d]
      BY <1>8, <2>1, <2>3
    <2>5. Metrics!Total(f, D) = Metrics!Total(u, D)
      BY <2>2, <2>4, TotalOfSame
    <2>6. Metrics!Consumed(i, end) = Metrics!Total(f, D)
      BY <1>1, <2>1 DEF Metrics!Consumed
    <2>7. QED BY <1>1, <2>1, <2>5, <2>6
  <1>13. QED BY <1>1, <1>5, <1>9, <1>10, <1>11, <1>12

\* Of intervals, in any order.
LEMMA TotalInParts ==
  ASSUME NEW u, \A d \in Nat : u[d] \in Nat, NEW a \in Nat, NEW b \in Nat, NEW c \in Nat
  PROVE  /\ Metrics!Total(u, a .. c - 1) <= Metrics!Total(u, a .. b - 1) + Metrics!Total(u, b .. c - 1)
         /\ Metrics!Total(u, a .. b - 1) \in Nat /\ Metrics!Total(u, b .. c - 1) \in Nat
         /\ Metrics!Total(u, a .. c - 1) \in Nat
         /\ b <= a => Metrics!Total(u, a .. b - 1) = 0
         /\ b <= c => Metrics!Total(u, a .. b - 1) <= Metrics!Total(u, a .. c - 1)
  <1>1. PICK S, T, U : S = a .. b - 1 /\ T = b .. c - 1 /\ U = a .. c - 1
    OBVIOUS
  <1>2. IsFiniteSet(S) /\ IsFiniteSet(T) /\ IsFiniteSet(U)
    <2>1. b - 1 \in Int /\ c - 1 \in Int /\ a \in Int /\ b \in Int
      OBVIOUS
    <2>2. IsFiniteSet(a .. b - 1) /\ IsFiniteSet(b .. c - 1) /\ IsFiniteSet(a .. c - 1)
      BY <2>1, FS_Interval
    <2>3. QED BY <1>1, <2>2
  <1>3. \A d \in S \cup T \cup U : u[d] \in Nat
    BY <1>1
  <1>4. Metrics!Total(u, S) \in Nat /\ Metrics!Total(u, T) \in Nat /\ Metrics!Total(u, U) \in Nat
    BY <1>2, <1>3, TotalIsNat
  <1>5. Metrics!Total(u, U) <= Metrics!Total(u, S) + Metrics!Total(u, T)
    <2>1. PICK V, W : V = T \ S /\ W = S \cup V
      OBVIOUS
    <2>2. V \in SUBSET T /\ IsFiniteSet(V) /\ S \cap V = {} /\ IsFiniteSet(W) /\ U \in SUBSET W
      <3>1. V \in SUBSET T /\ IsFiniteSet(V) /\ S \cap V = {}
        BY <1>2, <2>1, FS_Subset
      <3>2. IsFiniteSet(W)
        BY <1>2, <2>1, <3>1, FS_Union
      <3>3. U \in SUBSET W
        BY <1>1, <2>1
      <3>4. QED BY <3>1, <3>2, <3>3
    <2>3. \A d \in W : u[d] \in Nat
      BY <1>3, <2>1
    <2>4. Metrics!Total(u, W) = Metrics!Total(u, S) + Metrics!Total(u, V)
      BY <1>2, <2>1, <2>2, <2>3, TotalOfBoth
    <2>5. Metrics!Total(u, U) <= Metrics!Total(u, W)
      BY <2>2, <2>3, TotalOfFewer
    <2>6. Metrics!Total(u, V) <= Metrics!Total(u, T) /\ Metrics!Total(u, V) \in Nat
      BY <1>2, <1>3, <2>2, TotalOfFewer, TotalIsNat
    <2>7. QED BY <1>4, <2>4, <2>5, <2>6
  <1>6. ASSUME b <= a PROVE Metrics!Total(u, S) = 0
    <2>1. S = {}
      BY <1>1, <1>6
    <2>2. QED BY <2>1, TotalOfNone
  <1>7. ASSUME b <= c PROVE Metrics!Total(u, S) <= Metrics!Total(u, U)
    <2>1. S \in SUBSET U
      BY <1>1, <1>7
    <2>2. QED BY <1>2, <1>3, <2>1, TotalOfFewer
  <1>8. QED BY <1>1, <1>4, <1>5, <1>6, <1>7

\* Products over intervals.
LEMMA ProductInTwo ==
  ASSUME NEW m \in Nat, NEW a \in Nat, NEW b \in Nat, NEW c \in Nat, a <= b, b <= c
  PROVE  /\ m * (c - a) = m * (b - a) + m * (c - b)
         /\ m * (b - a) \in Nat /\ m * (c - b) \in Nat
  <1>1. b - a \in Nat /\ c - b \in Nat /\ c - a = (b - a) + (c - b)
    OBVIOUS
  <1>2. PICK x \in Nat, y \in Nat : x = b - a /\ y = c - b
    BY <1>1
  <1>3. m * (x + y) = m * x + m * y
    OBVIOUS
  <1>4. QED BY <1>1, <1>2, <1>3, ProductIsNat

LEMMA ProductGrows ==
  ASSUME NEW m \in Nat, NEW n \in Nat, m <= n, NEW a \in Nat, NEW b \in Nat, a <= b
  PROVE  m * (b - a) <= n * (b - a)
  <1>1. PICK k \in Nat, x \in Nat : k = n - m /\ x = b - a
    OBVIOUS
  <1>2. n = m + k /\ k * x \in Nat /\ m * x \in Nat
    BY <1>1, ProductIsNat
  <1>3. n * x = m * x + k * x
    BY <1>2
  <1>4. m * x <= n * x
    BY <1>2, <1>3
  <1>5. QED BY <1>1, <1>4

\* The last row is in effect on the days to come.
LEMMA TotalToCome ==
  ASSUME Metrics!Assumption, MetricsInv, NEW i \in DOMAIN orders, NEW u, u = Weight(i),
         NEW bp \in Nat, today < bp
  PROVE  /\ Metrics!latest(Metrics!Before(orders[i].metrics, bp)) = Metrics!latest(orders[i].metrics)
         /\ Metrics!Total(u, today .. bp - 1) = Metrics!latest(orders[i].metrics).value * (bp - today)
         /\ Metrics!latest(orders[i].metrics).value \in Nat
  <1>1. PICK o : o = orders[i]
    OBVIOUS
  <1>2. Metrics!TypeOK /\ today \in Metrics!Days
    BY DEF MetricsInv, Metrics!TypeOK
  <1>3. o.metrics \in SUBSET Metrics!Rows /\ RowsInOrder(o)
    BY <1>1, <1>2, OrdersAre DEF MetricsInv
  <1>4. today \in Nat /\ Values \subseteq Nat
    BY <1>2, NumbersAre
  <1>5. \A row \in o.metrics : row.created_on \in Nat /\ row.updated_on \in Nat
    BY <1>3, NumbersAre DEF Metrics!Rows
  <1>6. \A row \in o.metrics : row.created_on < bp
    BY <1>3, <1>4, <1>5 DEF RowsInOrder
  <1>7. Metrics!Before(o.metrics, bp) = o.metrics
    BY <1>6 DEF Metrics!Before
  <1>8. PICK last : last = Metrics!latest(o.metrics)
    OBVIOUS
  <1>9. last.value \in Nat
    <2>1. last \in o.metrics
      BY <1>3, <1>8, LatestRow DEF RowsInOrder
    <2>2. QED BY <1>3, <1>4, <2>1 DEF Metrics!Rows
  <1>10. \A d \in today .. bp - 1 : d \in Nat /\ today <= d
    BY <1>4
  <1>11. \A d \in today .. bp - 1 : u[d] = last.value
    BY <1>1, <1>8, <1>10, WeightIs
  <1>12. Metrics!Total(u, today .. bp - 1) = last.value * (bp - today)
    <2>1. PICK v : v = last.value
      OBVIOUS
    <2>2. v \in Nat /\ today <= bp /\ \A d \in today .. bp - 1 : u[d] = v
      BY <1>4, <1>9, <1>11, <2>1
    <2>a. today \in Nat /\ bp \in Nat
      BY <1>4
    <2>3. Metrics!Total(u, today .. bp - 1) = v * (bp - today)
      BY <2>a, <2>2, TotalOfDays
    <2>4. QED BY <2>1, <2>3
  <1>13. QED BY <1>1, <1>7, <1>8, <1>9, <1>12

\* A charge is of a natural number.
LEMMA ChargedIsSome ==
  ASSUME Metrics!Assumption, NEW o \in Metrics!OrderTypes, RowsInOrder(o), BilledTogether(o),
         NEW bp \in Metrics!Ends, ~ Metrics!ChargeRaises(o, bp)
  PROVE  Metrics!Charged(Metrics!Charge(o, bp).lines) \in Nat
  <1>1. PICK lines : lines = Metrics!Charge(o, bp).lines
    OBVIOUS
  <1>2. Metrics!Charge(o, bp) \in Metrics!Charges /\ IsFiniteSet(lines)
    BY <1>1, ChargeLines
  <1>3. \A line \in lines : line.net \in Nat
    BY <1>1, <1>2 DEF Metrics!Charges
  <1>4. QED BY <1>1, <1>2, <1>3, ChargedIsNat

\* A billing of what is paid in advance.
LEMMA AdvanceIsPaid ==
  ASSUME Metrics!Assumption, MetricsInv, ~strays, style = "prepay",
         NEW i \in Metrics!Active, OrderPaid(i), NEW bp, bp = Point,
         ~ Metrics!ChargeRaises(orders[i], bp), ~ Metrics!Spends(orders[i], bp),
         NEW c, c = Metrics!Charge(orders[i], bp),
         NEW amount, amount = paid[i] + Metrics!Charged(c.lines)
  PROVE  /\ c.lines # {} => PaidFor(i, amount, today, c.billed_until, c.billed_metric)
         /\ amount >= Metrics!Consumed(i, today)
  <1>1. PICK o, u : o = orders[i] /\ u = Weight(i)
    OBVIOUS
  <1>2. /\ Metrics!TypeOK /\ today \in Metrics!Days /\ i \in DOMAIN orders /\ o.cancelled_on = None
        /\ paid \in [Metrics!Ids -> Nat]
    BY <1>1 DEF MetricsInv, Metrics!TypeOK, Metrics!Active
  <1>3. /\ o \in Metrics!OrderTypes /\ o.metrics \in SUBSET Metrics!Rows /\ o.registered_on \in Metrics!Days
        /\ o.billed_on \in Metrics!Days \cup {None} /\ o.billed_until \in Metrics!Ends \cup {None}
        /\ o.billed_metric \in Values \cup {None} /\ i \in Metrics!Ids
    BY <1>1, <1>2, OrdersAre
  <1>4. BilledTogether(o) /\ HaveCome(o) /\ RowsInOrder(o)
    BY <1>1, <1>2 DEF MetricsInv, DatesOfOrders
  <1>5. bp \in Metrics!Ends /\ today < bp
    BY <1>2, PointOfDay
  <1>6. PICK R, L : R = o.registered_on /\ L = Metrics!latest(o.metrics).value
    OBVIOUS
  <1>7. bp \in Nat /\ today \in Nat /\ R \in Nat /\ R <= today
    BY <1>2, <1>3, <1>4, <1>5, <1>6, NumbersAre DEF HaveCome
  <1>8. /\ \A d \in Nat : u[d] \in Nat
        /\ \A a, end \in Nat : Reaching(u, o.metrics, a, end)
        /\ \A end \in Nat : end <= today => Metrics!Consumed(i, end) = Metrics!Total(u, R .. end - 1)
    BY <1>1, <1>2, <1>6, WeightIs
  <1>9. /\ Metrics!latest(Metrics!Before(o.metrics, bp)).value = L /\ L \in Nat
        /\ Metrics!Total(u, today .. bp - 1) = L * (bp - today)
    BY <1>1, <1>2, <1>5, <1>6, <1>7, TotalToCome
  <1>10. PICK consumed, ahead, charged :
           /\ consumed = Metrics!Consumed(i, today) /\ ahead = L * (bp - today)
           /\ charged = Metrics!Charged(c.lines)
    OBVIOUS
  <1>11. /\ consumed = Metrics!Total(u, R .. today - 1) /\ consumed \in Nat /\ ahead \in Nat
         /\ Metrics!Total(u, R .. bp - 1) = consumed + ahead
    <2>1. consumed = Metrics!Total(u, R .. today - 1)
      BY <1>7, <1>8, <1>10
    <2>2. today <= bp /\ \A d \in R .. bp - 1 : u[d] \in Nat
      BY <1>5, <1>7, <1>8
    <2>3. /\ Metrics!Total(u, R .. bp - 1) = Metrics!Total(u, R .. today - 1) + Metrics!Total(u, today .. bp - 1)
          /\ Metrics!Total(u, R .. today - 1) \in Nat /\ Metrics!Total(u, today .. bp - 1) \in Nat
      BY <1>7, <2>2, TotalInTwo
    <2>4. QED BY <1>9, <1>10, <2>1, <2>3
  <1>12. paid[i] \in Nat
    BY <1>2, <1>3
  <1>13. SUFFICES
           /\ amount >= consumed
           /\ c.lines # {} => amount >= consumed + c.billed_metric * (c.billed_until - today)
    BY <1>10 DEF PaidFor
  <1>14. CASE o.billed_on = None
    <2>1. ~ Metrics!Recharges(o) /\ Metrics!Begins(o) = R /\ ~ Metrics!IsBilled(o, bp)
      <3>1. o.billed_until = None
        BY <1>4, <1>14 DEF BilledTogether
      <3>2. Metrics!Begins(o) = R
        BY <1>6, <3>1 DEF Metrics!Begins
      <3>3. ~ (bp <= R)
        BY <1>5, <1>7
      <3>4. QED BY <1>14, <3>1, <3>2, <3>3 DEF Metrics!Recharges, Metrics!IsBilled, Metrics!IsOver
    <2>2. c.billed_until = bp /\ c.billed_metric = L
      BY <1>1, <1>9, <2>1 DEF Metrics!Charge
    <2>3. charged >= Metrics!Total(u, R .. bp - 1)
      <3>1. Reaching(u, o.metrics, Metrics!Begins(o), bp)
        BY <1>7, <1>8, <2>1
      <3>2. QED BY <1>1, <1>2, <1>3, <1>4, <1>5, <1>10, <2>1, <3>1, ChargePays
    <2>4. PICK t : t = Metrics!Total(u, R .. bp - 1)
      OBVIOUS
    <2>5. charged \in Nat
      BY <1>1, <1>3, <1>4, <1>5, <1>10, ChargedIsSome
    <2>6. amount >= consumed + ahead /\ amount >= consumed
      BY <1>10, <1>11, <1>12, <2>3, <2>4, <2>5
    <2>7. QED BY <1>10, <2>2, <2>6
  <1>15. CASE o.billed_on # None
    <2>1. PICK on, until, metric :
            on = o.billed_on /\ until = o.billed_until /\ metric = o.billed_metric
      OBVIOUS
    <2>2. Metrics!Recharges(o) /\ until # None /\ metric # None
      BY <1>4, <1>15, <2>1 DEF BilledTogether, Metrics!Recharges
    <2>3. on \in Nat /\ until \in Nat /\ metric \in Nat /\ on <= today
      BY <1>3, <1>4, <1>15, <2>1, <2>2, NumbersAre DEF HaveCome
    <2>4. on < until
      <3>1. KeptOf(i)
        BY DEF MetricsInv, MetricsKept, KeptLongEnough
      <3>2. QED BY <1>1, <1>15, <2>1, <3>1 DEF KeptOf, StillBegins
    <2>5. PICK end, before, rest, all, ever :
            /\ end = (IF bp <= until THEN bp ELSE until)
            /\ before = metric * (end - on) /\ rest = metric * (until - end)
            /\ all = metric * (until - on) /\ ever = Metrics!Total(u, R .. on - 1)
      OBVIOUS
    <2>6. end \in Nat /\ on <= end /\ end <= until /\ on < bp
      BY <1>5, <1>7, <2>3, <2>4, <2>5
    <2>7. all = before + rest /\ before \in Nat /\ rest \in Nat
      <3>1. /\ metric * (until - on) = metric * (end - on) + metric * (until - end)
            /\ metric * (end - on) \in Nat /\ metric * (until - end) \in Nat
        BY <2>3, <2>6, ProductInTwo
      <3>2. QED BY <2>5, <3>1
    <2>8. paid[i] >= ever + all /\ ever \in Nat
      <3>1. Metrics!Consumed(i, on) = ever
        BY <1>8, <2>3, <2>5
      <3>2. ever \in Nat
        BY <1>7, <1>8, <2>3, <2>5, TotalInParts
      <3>3. QED BY <1>1, <1>15, <2>1, <2>5, <3>1, <3>2 DEF OrderPaid, PaidFor
    <2>9. PICK more : more = Metrics!Total(u, on .. bp - 1)
      OBVIOUS
    <2>10. consumed + ahead <= ever + more /\ more \in Nat
      <3>1. Metrics!Total(u, R .. bp - 1) <= Metrics!Total(u, R .. on - 1) + Metrics!Total(u, on .. bp - 1)
            /\ Metrics!Total(u, on .. bp - 1) \in Nat
        BY <1>7, <1>8, <2>3, TotalInParts
      <3>2. QED BY <1>11, <2>5, <2>9, <3>1
    <2>11. charged >= more - before /\ charged \in Nat
      <3>1. Reaching(u, o.metrics, o.billed_on, bp) /\ o.billed_on < bp /\ o.billed_on < o.billed_until
        BY <1>7, <1>8, <2>1, <2>3, <2>4, <2>6
      <3>2. Metrics!Charged(Metrics!Charge(o, bp).lines)
              >= Metrics!Total(u, o.billed_on .. bp - 1)
                   - o.billed_metric * ((IF bp <= o.billed_until THEN bp ELSE o.billed_until) - o.billed_on)
        BY <1>1, <1>2, <1>3, <1>4, <1>5, <2>2, <3>1, ChargePays
      <3>3. charged >= more - before
        BY <1>1, <1>10, <2>1, <2>5, <2>9, <3>2
      <3>4. charged \in Nat
        BY <1>1, <1>3, <1>4, <1>5, <1>10, ChargedIsSome
      <3>5. QED BY <3>3, <3>4
    <2>12. amount >= consumed + ahead + rest /\ amount >= consumed
      BY <1>10, <1>11, <1>12, <2>7, <2>8, <2>10, <2>11
    <2>13. Metrics!IsBilled(o, bp) <=> bp <= until
      BY <1>2, <2>1, <2>2 DEF Metrics!IsBilled, Metrics!IsOver, Metrics!Begins
    <2>14. CASE bp <= until
      <3>1. c.billed_until = until /\ c.billed_metric = metric
        BY <1>1, <2>1, <2>13, <2>14 DEF Metrics!Charge
      <3>2. ASSUME c.lines # {} PROVE metric <= L
        <4>1. c.lines = Metrics!Recharge(o, bp).lines
          BY <1>1, <2>2, <2>13, <2>14 DEF Metrics!Charge
        <4>2. ~ (L < metric)
          BY <1>1, <1>9, <2>1, <2>2, <2>13, <2>14, <3>2, <4>1 DEF Metrics!Spends
        <4>3. QED BY <1>9, <2>3, <4>2
      <3>3. ASSUME c.lines # {} PROVE amount >= consumed + metric * (until - today)
        <4>1. PICK x : x = metric * (bp - today)
          OBVIOUS
        <4>2. end = bp /\ today <= bp
          BY <1>5, <1>7, <2>5, <2>14
        <4>3. metric * (until - today) = x + rest
          BY <1>7, <2>3, <2>5, <2>14, <4>1, <4>2, ProductInTwo
        <4>4. x <= ahead /\ x \in Nat
          <5>1. x <= ahead
            BY <1>7, <1>9, <1>10, <2>3, <3>2, <3>3, <4>1, <4>2, ProductGrows
          <5>2. bp - today \in Nat
            BY <1>7, <4>2
          <5>3. QED BY <2>3, <4>1, <5>1, <5>2, ProductIsNat
        <4>5. amount >= consumed + (x + rest)
          <5>1. amount \in Int
            BY <1>10, <1>12, <2>11
          <5>2. QED BY <1>11, <2>7, <2>12, <4>4, <5>1
        <4>6. QED BY <4>3, <4>5
      <3>4. QED BY <2>12, <3>1, <3>3
    <2>15. CASE until < bp
      <3>1. ~ (bp <= until)
        BY <1>7, <2>3, <2>15
      <3>2. c.billed_until = bp /\ c.billed_metric = L
        BY <1>1, <1>9, <2>13, <3>1 DEF Metrics!Charge
      <3>3. amount >= consumed + ahead
        <4>1. amount \in Int
          BY <1>10, <1>12, <2>11
        <4>2. QED BY <1>11, <2>7, <2>12, <4>1
      <3>4. QED BY <1>10, <2>12, <3>2, <3>3
    <2>16. QED BY <1>7, <2>3, <2>14, <2>15
  <1>16. QED BY <1>14, <1>15

\* The billing point of what is paid once it was consumed.
LEMMA PointHasCome ==
  ASSUME Metrics!Assumption, today \in Metrics!Days, style # "prepay"
  PROVE  Point <= today
  <1>1. today \in Nat /\ Period \in Nat /\ Period > 0
    BY NumbersAre
  <1>2. (today \div Period) * Period <= today
    BY <1>1
  <1>3. QED BY <1>2 DEF Point

\* A billing of what is paid once it was consumed.
LEMMA ArrearsArePaid ==
  ASSUME Metrics!Assumption, MetricsInv, style # "prepay",
         NEW i \in Metrics!Active, OrderPaid(i), NEW bp, bp = Point,
         ~ Metrics!ChargeRaises(orders[i], bp),
         NEW c, c = Metrics!Charge(orders[i], bp),
         NEW amount, amount = paid[i] + Metrics!Charged(c.lines)
  PROVE  /\ c.lines # {} => PaidFor(i, amount, today, c.billed_until, c.billed_metric)
         /\ amount >= Metrics!Consumed(i, bp)
  <1>1. PICK o, u : o = orders[i] /\ u = Weight(i)
    OBVIOUS
  <1>2. /\ Metrics!TypeOK /\ today \in Metrics!Days /\ i \in DOMAIN orders /\ o.cancelled_on = None
        /\ paid \in [Metrics!Ids -> Nat]
    BY <1>1 DEF MetricsInv, Metrics!TypeOK, Metrics!Active
  <1>3. /\ o \in Metrics!OrderTypes /\ o.metrics \in SUBSET Metrics!Rows /\ o.registered_on \in Metrics!Days
        /\ o.billed_on \in Metrics!Days \cup {None} /\ o.billed_until \in Metrics!Ends \cup {None}
        /\ i \in Metrics!Ids
    BY <1>1, <1>2, OrdersAre
  <1>4. BilledTogether(o) /\ HaveCome(o) /\ RowsInOrder(o)
    BY <1>1, <1>2 DEF MetricsInv, DatesOfOrders
  <1>5. bp \in Metrics!Ends /\ bp <= today
    BY <1>2, PointOfDay, PointHasCome
  <1>6. PICK R, ini : R = o.registered_on /\ ini = Metrics!Begins(o)
    OBVIOUS
  <1>7. bp \in Nat /\ today \in Nat /\ R \in Nat
    BY <1>2, <1>3, <1>5, <1>6, NumbersAre
  <1>8. /\ \A d \in Nat : u[d] \in Nat
        /\ \A a, end \in Nat : Reaching(u, o.metrics, a, end)
        /\ \A end \in Nat : end <= today => Metrics!Consumed(i, end) = Metrics!Total(u, R .. end - 1)
    BY <1>1, <1>2, <1>6, WeightIs
  <1>9. PICK consumed, before, charged :
          /\ consumed = Metrics!Consumed(i, bp) /\ before = Metrics!Total(u, R .. ini - 1)
          /\ charged = Metrics!Charged(c.lines)
    OBVIOUS
  <1>10. ini \in Nat /\ paid[i] \in Nat /\ before \in Nat /\ paid[i] >= before
    <2>1. paid[i] \in Nat
      BY <1>2, <1>3
    <2>2. CASE o.billed_on = None
      <3>1. ini = R
        BY <1>4, <1>6, <2>2 DEF BilledTogether, Metrics!Begins
      <3>2. before = 0
        <4>1. Metrics!Total(u, R .. R - 1) = 0
          BY <1>7, <1>8, TotalInParts
        <4>2. QED BY <1>9, <3>1, <4>1
      <3>3. QED BY <1>7, <2>1, <3>1, <3>2
    <2>3. CASE o.billed_on # None
      <3>1. o.billed_until # None /\ ini = o.billed_until
        BY <1>4, <1>6, <2>3 DEF BilledTogether, Metrics!Begins
      <3>2. ini \in Nat /\ o.billed_on \in Nat /\ o.billed_on <= today
        BY <1>3, <1>4, <2>3, <3>1, NumbersAre DEF HaveCome
      <3>3. ini <= o.billed_on /\ paid[i] >= Metrics!Consumed(i, ini)
        BY <1>1, <2>3, <3>1 DEF OrderPaid, PaidFor
      <3>4. ini <= today
        BY <1>7, <3>2, <3>3
      <3>5. Metrics!Consumed(i, ini) = before
        BY <1>8, <1>9, <3>2, <3>4
      <3>6. before \in Nat
        BY <1>7, <1>8, <1>9, <3>2, TotalInParts
      <3>7. QED BY <2>1, <3>2, <3>3, <3>5, <3>6
    <2>4. QED BY <2>2, <2>3
  <1>11. consumed = Metrics!Total(u, R .. bp - 1) /\ consumed \in Nat
    <2>1. consumed = Metrics!Total(u, R .. bp - 1)
      BY <1>5, <1>7, <1>8, <1>9
    <2>2. QED BY <1>7, <1>8, <2>1, TotalInParts
  <1>12. ~ Metrics!Recharges(o)
    BY DEF Metrics!Recharges
  <1>13. Metrics!IsBilled(o, bp) <=> bp <= ini
    BY <1>2, <1>6 DEF Metrics!IsBilled, Metrics!IsOver
  <1>14. charged \in Nat
    BY <1>1, <1>3, <1>4, <1>5, <1>9, ChargedIsSome
  <1>15. CASE bp <= ini
    <2>1. c.lines = {}
      BY <1>1, <1>12, <1>13, <1>15 DEF Metrics!Charge, Metrics!NoLines
    <2>2. consumed <= before
      <3>1. R \in Nat /\ bp \in Nat /\ ini \in Nat
        BY <1>7, <1>10
      <3>a. \A d \in Nat : u[d] \in Nat
        BY <1>8
      <3>2. Metrics!Total(u, R .. bp - 1) <= Metrics!Total(u, R .. ini - 1)
        BY <1>15, <3>1, <3>a, TotalInParts
      <3>3. QED BY <1>9, <1>11, <3>2
    <2>3. QED BY <1>9, <1>10, <1>11, <1>14, <2>1, <2>2
  <1>16. CASE ini < bp
    <2>1. ~ (bp <= ini)
      BY <1>7, <1>10, <1>16
    <2>2. c.billed_until = bp
      BY <1>1, <1>13, <2>1 DEF Metrics!Charge
    <2>3. PICK more : more = Metrics!Total(u, ini .. bp - 1)
      OBVIOUS
    <2>4. charged >= more
      <3>1. Reaching(u, o.metrics, Metrics!Begins(o), bp) /\ ~ Metrics!IsBilled(o, bp)
        BY <1>6, <1>7, <1>8, <1>10, <1>13, <2>1
      <3>2. QED BY <1>1, <1>2, <1>3, <1>4, <1>5, <1>6, <1>9, <1>12, <2>3, <3>1, ChargePays
    <2>5. consumed <= before + more /\ more \in Nat
      <3>1. /\ Metrics!Total(u, R .. bp - 1) <= Metrics!Total(u, R .. ini - 1) + Metrics!Total(u, ini .. bp - 1)
            /\ Metrics!Total(u, ini .. bp - 1) \in Nat
        BY <1>7, <1>8, <1>10, TotalInParts
      <3>2. QED BY <1>9, <1>11, <2>3, <3>1
    <2>6. amount >= consumed
      BY <1>9, <1>10, <1>11, <1>14, <2>4, <2>5
    <2>7. QED BY <1>5, <1>9, <2>2, <2>6 DEF PaidFor
  <1>17. QED BY <1>7, <1>10, <1>15, <1>16

-----------------------------------------------------------------------------
\* What was consumed by a day that is over stays.
LEMMA ConsumedStays ==
  ASSUME Metrics!Assumption, Metrics!TypeOK, NEW i \in DOMAIN orders, NEW end \in Nat,
         orders'[i].registered_on = orders[i].registered_on,
         \A d \in Nat : d < end => measured'[i][d] = measured[i][d]
  PROVE  Metrics!Consumed(i, end)' = Metrics!Consumed(i, end)
  <1>1. PICK D, of, new :
          /\ D = orders[i].registered_on .. end - 1
          /\ of = [d \in D |-> Metrics!Max({0, measured[i][d] - Error})]
          /\ new = [d \in D |-> Metrics!Max({0, measured'[i][d] - Error})]
    OBVIOUS
  <1>2. orders[i].registered_on \in Nat
    BY OrdersAre, NumbersAre
  <1>3. \A d \in D : d \in Nat /\ d < end
    BY <1>1, <1>2
  <1>4. new = of
    BY <1>1, <1>3
  <1>5. Metrics!Consumed(i, end) = Metrics!Total(of, D)
    BY <1>1 DEF Metrics!Consumed
  <1>6. Metrics!Consumed(i, end)' = Metrics!Total(new, D)
    BY <1>1 DEF Metrics!Consumed
  <1>7. QED BY <1>4, <1>5, <1>6

\* What was paid for stays so, where the days that are over were.
LEMMA PaidForStays ==
  ASSUME Metrics!Assumption, Metrics!TypeOK, style' = style, NEW i \in DOMAIN orders,
         orders'[i].registered_on = orders[i].registered_on,
         NEW on \in Nat, NEW until, style # "prepay" => until \in Nat /\ until <= on,
         NEW amount, NEW metric,
         \A d \in Nat : d < on => measured'[i][d] = measured[i][d],
         PaidFor(i, amount, on, until, metric)
  PROVE  PaidFor(i, amount, on, until, metric)'
  <1>1. CASE style = "prepay"
    <2>1. Metrics!Consumed(i, on)' = Metrics!Consumed(i, on)
      BY ConsumedStays
    <2>2. QED BY <1>1, <2>1 DEF PaidFor
  <1>2. CASE style # "prepay"
    <2>1. until \in Nat /\ \A d \in Nat : d < until => d < on
      BY <1>2
    <2>2. Metrics!Consumed(i, until)' = Metrics!Consumed(i, until)
      BY <2>1, ConsumedStays
    <2>3. QED BY <1>2, <2>2 DEF PaidFor
  <1>3. QED BY <1>1, <1>2

\* A billing pays what an active order has consumed.
LEMMA ChargeIsPaid ==
  ASSUME Metrics!Assumption, MetricsInv, ~strays,
         NEW ids \in SUBSET DOMAIN orders, NEW i \in ids, i \in Metrics!Active, OrderPaid(i),
         NEW bp, bp = Metrics!get_billing_point(i, ids),
         ~ Metrics!ChargeRaises(orders[i], bp), ~ Metrics!Spends(orders[i], bp),
         NEW c, c = Metrics!Charge(orders[i], bp),
         NEW amount, amount = paid[i] + Metrics!Charged(c.lines)
  PROVE  /\ c.lines # {} => PaidFor(i, amount, today, c.billed_until, c.billed_metric)
         /\ (\A j \in ids : orders[j].cancelled_on = None) => amount >= Metrics!Consumed(i, Due)
  <1>1. Due = IF style = "prepay" THEN today ELSE Point
    BY DEF Due, Point
  <1>2. ASSUME bp = Point
        PROVE  /\ c.lines # {} => PaidFor(i, amount, today, c.billed_until, c.billed_metric)
               /\ amount >= Metrics!Consumed(i, Due)
    <2>1. CASE style = "prepay"
      <3>1. Due = today
        BY <1>1, <2>1
      <3>2. QED BY <1>2, <2>1, <3>1, AdvanceIsPaid
    <2>2. CASE style # "prepay"
      <3>1. Due = bp
        BY <1>1, <1>2, <2>2
      <3>2. QED BY <1>2, <2>2, <3>1, ArrearsArePaid
    <2>3. QED BY <2>1, <2>2
  <1>3. c.lines # {} => bp = Point
    BY PointOfActive
  <1>4. (\A j \in ids : orders[j].cancelled_on = None) => bp = Point
    BY PointOfOrder DEF MetricsInv
  <1>5. QED BY <1>2, <1>3, <1>4

\* Orders that were paid stay so, if they are billed as they were.
LEMMA OrderStaysPaid ==
  ASSUME Metrics!Assumption, MetricsInv, style' = style, NEW i \in DOMAIN orders, OrderPaid(i),
         paid'[i] = paid[i],
         orders'[i].registered_on = orders[i].registered_on, orders'[i].billed_on = orders[i].billed_on,
         orders'[i].billed_until = orders[i].billed_until, orders'[i].billed_metric = orders[i].billed_metric,
         \A d \in Nat : d < today => measured'[i][d] = measured[i][d]
  PROVE  OrderPaid(i)'
  <1>1. SUFFICES ASSUME orders[i].billed_on # None PROVE OrderPaid(i)'
    BY DEF OrderPaid
  <1>2. PICK on, until, metric, amount :
          /\ on = orders[i].billed_on /\ until = orders[i].billed_until
          /\ metric = orders[i].billed_metric /\ amount = paid[i]
    OBVIOUS
  <1>3. Metrics!TypeOK /\ today \in Metrics!Days
    BY DEF MetricsInv, Metrics!TypeOK
  <1>4. /\ on \in Metrics!Days /\ until \in Metrics!Ends /\ on <= today
    <2>1. BilledTogether(orders[i]) /\ HaveCome(orders[i])
      BY DEF MetricsInv, DatesOfOrders
    <2>2. on \in Metrics!Days \cup {None} /\ until \in Metrics!Ends \cup {None}
      BY <1>2, <1>3, OrdersAre
    <2>3. QED BY <1>1, <1>2, <2>1, <2>2 DEF BilledTogether, HaveCome
  <1>5. on \in Nat /\ until \in Nat /\ today \in Nat
    BY <1>3, <1>4, NumbersAre
  <1>6. PaidFor(i, amount, on, until, metric)
    BY <1>1, <1>2 DEF OrderPaid
  <1>7. style # "prepay" => until <= on
    BY <1>6 DEF PaidFor
  <1>8. \A d \in Nat : d < on => measured'[i][d] = measured[i][d]
    BY <1>4, <1>5
  <1>9. PaidFor(i, amount, on, until, metric)'
    BY <1>3, <1>5, <1>6, <1>7, <1>8, PaidForStays
  <1>10. QED BY <1>2, <1>9 DEF OrderPaid

\* What the steps of other actors leave paid: they bill no order, and none is active again.
LEMMA PaidStays ==
  ASSUME Metrics!Assumption, MetricsInv, PaidInv,
         UNCHANGED <<today, style, bill, paid, measured, twice, spent>>, ~strays' => ~strays,
         DOMAIN orders \subseteq DOMAIN orders',
         \A j \in DOMAIN orders :
           /\ orders'[j].registered_on = orders[j].registered_on /\ orders'[j].billed_on = orders[j].billed_on
           /\ orders'[j].billed_until = orders[j].billed_until
           /\ orders'[j].billed_metric = orders[j].billed_metric
           /\ orders'[j].cancelled_on = None => orders[j].cancelled_on = None,
         \A j \in DOMAIN orders' \ DOMAIN orders : orders'[j].billed_on = None
  PROVE  PaidInv'
  <1> SUFFICES ASSUME ~strays', ~twice' PROVE OneBills' /\ AllPay'
    BY DEF PaidInv
  <1>1. OneBills /\ AllPay
    BY DEF PaidInv
  <1>2. OneBills'
    BY <1>1 DEF OneBills
  <1>3. Metrics!TypeOK /\ today \in Metrics!Days
    BY DEF MetricsInv, Metrics!TypeOK
  <1>4. today \in Nat
    BY <1>3, NumbersAre
  <1>5. \A b \in Billings : bill[b] # None => DOMAIN bill[b] \subseteq DOMAIN orders
    BY <1>3 DEF Metrics!TypeOK
  <1>6. ASSUME NEW i \in (Metrics!Active)' \ spent'
        PROVE  OrderPaid(i)' /\ \A b \in Billings : bill'[b] # None /\ i \in DOMAIN bill'[b] => WillPay(b, i)'
    <2>1. i \in DOMAIN orders' /\ orders'[i].cancelled_on = None
      BY <1>6 DEF Metrics!Active
    <2>2. CASE i \notin DOMAIN orders
      <3>1. OrderPaid(i)'
        BY <2>1, <2>2 DEF OrderPaid
      <3>2. QED BY <1>5, <2>2, <3>1
    <2>3. CASE i \in DOMAIN orders
      <3>1. i \in Metrics!Active \ spent
        BY <1>6, <2>1, <2>3 DEF Metrics!Active
      <3>2. OrderPaid(i) /\ \A b \in Billings : bill[b] # None /\ i \in DOMAIN bill[b] => WillPay(b, i)
        BY <1>1, <3>1 DEF AllPay
      <3>3. OrderPaid(i)'
        BY <2>3, <3>2, OrderStaysPaid
      <3>4. ASSUME NEW b \in Billings, bill[b] # None, i \in DOMAIN bill[b] PROVE WillPay(b, i)'
        <4>1. PICK until, metric, amount, due, on :
                /\ until = bill[b][i].billed_until /\ metric = bill[b][i].billed_metric
                /\ amount = Amount(b, i) /\ due = Due /\ on = today
          OBVIOUS
        <4>2. amount = Amount(b, i)'
          BY <4>1 DEF Amount
        <4>3. due = Due'
          BY <4>1 DEF Due
        <4>4. WillPay(b, i)
          BY <3>2, <3>4
        <4>5. ASSUME HasLines(b, i) PROVE PaidFor(i, amount, on, until, metric)'
          <5>1. PaidFor(i, amount, on, until, metric)
            BY <4>1, <4>4, <4>5 DEF WillPay
          <5>2. until \in Nat
            <6>1. PICK ids \in SUBSET DOMAIN orders : bill[b] \in [ids -> Metrics!Charges]
              BY <1>3, <3>4 DEF Metrics!TypeOK
            <6>2. until \in Metrics!Ends \cup {None}
              BY <3>4, <4>1, <6>1 DEF Metrics!Charges
            <6>3. i \in Metrics!Ids
              BY <1>3, <2>3, OrdersAre
            <6>4. until # None
              BY <4>1, <4>5, <6>3 DEF MetricsInv, DatesOfOrders, Complete
            <6>5. QED BY <6>2, <6>4, NumbersAre
          <5>3. style # "prepay" => until <= on
            BY <5>1 DEF PaidFor
          <5>4. QED BY <1>3, <1>4, <2>3, <4>1, <5>1, <5>2, <5>3, PaidForStays
        <4>6. HasLines(b, i)' => PaidFor(i, Amount(b, i), today, bill[b][i].billed_until, bill[b][i].billed_metric)'
          <5>1. HasLines(b, i)' => HasLines(b, i)
            BY DEF HasLines
          <5>2. QED BY <4>1, <4>2, <4>5, <5>1 DEF PaidFor
        <4>7. due \in Nat
          <5>1. Point \in Nat
            BY <1>3, PointOfDay, NumbersAre
          <5>2. QED BY <1>4, <4>1, <5>1 DEF Due, Point
        <4>8. Metrics!Consumed(i, due)' = Metrics!Consumed(i, due)
          BY <1>3, <2>3, <4>7, ConsumedStays
        <4>9. ASSUME \A j \in DOMAIN bill'[b] : orders'[j].cancelled_on = None
              PROVE  Amount(b, i)' >= Metrics!Consumed(i, Due)'
          <5>1. \A j \in DOMAIN bill[b] : orders[j].cancelled_on = None
            BY <1>5, <3>4, <4>9
          <5>2. amount >= Metrics!Consumed(i, due)
            BY <4>1, <4>4, <5>1 DEF WillPay
          <5>3. amount >= Metrics!Consumed(i, due)'
            BY <4>8, <5>2
          <5>4. QED BY <4>2, <4>3, <5>3 DEF Metrics!Consumed
        <4>10. QED BY <4>6, <4>9 DEF WillPay
      <3>5. QED BY <3>3, <3>4
    <2>4. QED BY <2>2, <2>3
  <1>7. QED BY <1>2, <1>6 DEF AllPay

LEMMA SavePays ==
  ASSUME Metrics!Assumption, MetricsInv, PaidInv, NEW r \in Requests, Metrics!Save(r)
  PROVE  PaidInv'
  <1>1. /\ strays' = (strays \/ \E q \in Requests : found[q] # None)
        /\ UNCHANGED <<today, style, orders, bills, bill, reported, measured, paid, twice, spent>>
    BY DEF Metrics!Save
  <1>2. QED BY <1>1, PaidStays

LEMMA NothingPays ==
  ASSUME Metrics!Assumption, MetricsInv, PaidInv, NEW r \in Requests, Metrics!ChangesNothing(r)
  PROVE  PaidInv'
  <1>1. UNCHANGED <<today, style, orders, bill, measured, paid, strays, twice, spent>>
    BY DEF Metrics!ChangesNothing, Metrics!Commits
  <1>2. QED BY <1>1, PaidStays

LEMMA CreatePays ==
  ASSUME Metrics!Assumption, MetricsInv, PaidInv, NEW r \in Requests, NEW value \in Values,
         Metrics!CreateOrder(r, value)
  PROVE  PaidInv'
  <1>1. PICK new : new = Metrics!NewOrder(value)
    OBVIOUS
  <1>2. /\ orders' = Append(orders, new)
        /\ UNCHANGED <<today, style, bill, measured, paid, strays, twice, spent>>
    BY <1>1 DEF Metrics!CreateOrder, Metrics!Commits
  <1>3. orders \in Seq(Metrics!OrderTypes) /\ new.billed_on = None
    BY <1>1 DEF MetricsInv, Metrics!TypeOK, Metrics!NewOrder
  <1>4. /\ DOMAIN orders \subseteq DOMAIN orders' /\ \A j \in DOMAIN orders : orders'[j] = orders[j]
        /\ \A j \in DOMAIN orders' \ DOMAIN orders : orders'[j] = new
    BY <1>2, <1>3
  <1>5. \A j \in DOMAIN orders' \ DOMAIN orders : orders'[j].billed_on = None
    BY <1>3, <1>4
  <1>6. QED BY <1>2, <1>4, <1>5, PaidStays

LEMMA UpdatePays ==
  ASSUME Metrics!Assumption, MetricsInv, PaidInv, NEW r \in Requests, NEW value \in Values,
         Metrics!UpdateOrder(r, value)
  PROVE  PaidInv'
  <1>1. PICK i \in Metrics!Ids : orders' = [orders EXCEPT ![i].metrics = Metrics!Store(@, value)]
    BY DEF Metrics!UpdateOrder
  <1>2. UNCHANGED <<today, style, bill, measured, paid, strays, twice, spent>>
    BY DEF Metrics!UpdateOrder, Metrics!Commits
  <1>3. Metrics!TypeOK
    BY DEF MetricsInv
  <1>4. ASSUME NEW j \in DOMAIN orders
        PROVE  /\ orders'[j].registered_on = orders[j].registered_on
               /\ orders'[j].billed_on = orders[j].billed_on
               /\ orders'[j].billed_until = orders[j].billed_until
               /\ orders'[j].billed_metric = orders[j].billed_metric
               /\ orders'[j].cancelled_on = orders[j].cancelled_on
    <2>1. orders[j] \in Metrics!OrderTypes
      BY <1>3, OrdersAre
    <2>2. PICK new : new = Metrics!Store(orders[j].metrics, value)
      OBVIOUS
    <2>3. orders'[j] = orders[j] \/ orders'[j] = [orders[j] EXCEPT !.metrics = new]
      BY <1>1, <2>2
    <2>4. QED BY <2>1, <2>3 DEF Metrics!OrderTypes
  <1>5. DOMAIN orders' = DOMAIN orders
    BY <1>1
  <1>6. QED BY <1>2, <1>4, <1>5, PaidStays

LEMMA CancelPays ==
  ASSUME Metrics!Assumption, MetricsInv, PaidInv, NEW r \in Requests, Metrics!CancelOrders(r)
  PROVE  PaidInv'
  <1>1. /\ orders' = [j \in DOMAIN orders |->
              IF j \in found[r] THEN [orders[j] EXCEPT !.cancelled_on = today] ELSE orders[j]]
        /\ UNCHANGED <<today, style, bill, measured, paid, strays, twice, spent>>
    BY DEF Metrics!CancelOrders, Metrics!Commits
  <1>2. Metrics!TypeOK /\ today # None
    BY NumbersAre DEF MetricsInv, Metrics!TypeOK
  <1>3. ASSUME NEW j \in DOMAIN orders
        PROVE  /\ orders'[j].registered_on = orders[j].registered_on
               /\ orders'[j].billed_on = orders[j].billed_on
               /\ orders'[j].billed_until = orders[j].billed_until
               /\ orders'[j].billed_metric = orders[j].billed_metric
               /\ orders'[j].cancelled_on = None => orders[j].cancelled_on = None
    <2>1. orders[j] \in Metrics!OrderTypes
      BY <1>2, OrdersAre
    <2>2. orders'[j] = orders[j] \/ orders'[j] = [orders[j] EXCEPT !.cancelled_on = today]
      BY <1>1
    <2>3. QED BY <1>2, <2>1, <2>2 DEF Metrics!OrderTypes
  <1>4. DOMAIN orders' = DOMAIN orders
    BY <1>1
  <1>5. QED BY <1>1, <1>3, <1>4, PaidStays

LEMMA CleanupPays ==
  ASSUME Metrics!Assumption, MetricsInv, PaidInv, Metrics!Cleanup
  PROVE  PaidInv'
  <1>1. /\ orders' = [j \in DOMAIN orders |->
              IF orders[j].billed_on = None THEN orders[j]
              ELSE [orders[j] EXCEPT !.metrics = Metrics!KeepLatest(@, orders[j].billed_on - Delta)]]
        /\ UNCHANGED <<today, style, bill, measured, paid, strays, twice, spent>>
    BY DEF Metrics!Cleanup, Metrics!history
  <1>2. Metrics!TypeOK
    BY DEF MetricsInv
  <1>3. ASSUME NEW j \in DOMAIN orders
        PROVE  /\ orders'[j].registered_on = orders[j].registered_on
               /\ orders'[j].billed_on = orders[j].billed_on
               /\ orders'[j].billed_until = orders[j].billed_until
               /\ orders'[j].billed_metric = orders[j].billed_metric
               /\ orders'[j].cancelled_on = orders[j].cancelled_on
    <2>1. orders[j] \in Metrics!OrderTypes
      BY <1>2, OrdersAre
    <2>2. PICK kept : kept = Metrics!KeepLatest(orders[j].metrics, orders[j].billed_on - Delta)
      OBVIOUS
    <2>3. orders'[j] = orders[j] \/ orders'[j] = [orders[j] EXCEPT !.metrics = kept]
      BY <1>1, <2>2
    <2>4. QED BY <2>1, <2>3 DEF Metrics!OrderTypes
  <1>4. DOMAIN orders' = DOMAIN orders
    BY <1>1
  <1>5. QED BY <1>1, <1>3, <1>4, PaidStays

\* None bills at midnight, and no day that was paid is measured again.
LEMMA MidnightPays ==
  ASSUME Metrics!Assumption, MetricsInv, PaidInv, Metrics!Midnight
  PROVE  PaidInv'
  <1>1. /\ \A b \in Billings : bill[b] = None
        /\ measured' = [i \in Metrics!Ids |-> [measured[i] EXCEPT ![today] = reported[i]]]
        /\ UNCHANGED <<style, orders, bill, paid, strays, twice, spent>>
    BY DEF Metrics!Midnight
  <1> SUFFICES ASSUME ~strays', ~twice' PROVE OneBills' /\ AllPay'
    BY DEF PaidInv
  <1>2. AllPay
    BY <1>1 DEF PaidInv
  <1>3. Metrics!TypeOK /\ today \in Metrics!Days /\ measured \in [Metrics!Ids -> [Metrics!Days -> Nat]]
    BY DEF MetricsInv, Metrics!TypeOK
  <1>4. today \in Nat
    BY <1>3, NumbersAre
  <1>5. ASSUME NEW i \in (Metrics!Active)' \ spent' PROVE OrderPaid(i)'
    <2>1. i \in Metrics!Active \ spent /\ i \in DOMAIN orders
      BY <1>1, <1>5 DEF Metrics!Active
    <2>2. OrderPaid(i)
      BY <1>2, <2>1 DEF AllPay
    <2>3. measured'[i] = [measured[i] EXCEPT ![today] = reported[i]]
      BY <1>1, <1>3, <2>1, OrdersAre
    <2>4. \A d \in Nat : d < today => measured'[i][d] = measured[i][d]
      BY <1>4, <2>3
    <2>5. QED BY <1>1, <2>1, <2>2, <2>4, OrderStaysPaid
  <1>6. QED BY <1>1, <1>5 DEF OneBills, AllPay

LEMMA BillPays ==
  ASSUME Metrics!Assumption, MetricsInv, PaidInv, NEW b \in Billings, Metrics!Bill(b)
  PROVE  PaidInv'
  <1>1. PICK ids \in {DOMAIN orders} \cup {{i} : i \in DOMAIN orders} :
          LET point == [i \in ids |-> Metrics!get_billing_point(i, ids)] IN
          /\ ids # {}
          /\ \A i \in ids : ~ Metrics!ChargeRaises(orders[i], point[i])
          /\ bill' = [bill EXCEPT ![b] = [i \in ids |-> Metrics!Charge(orders[i], point[i])]]
          /\ spent' = spent \cup {i \in ids : Metrics!Spends(orders[i], point[i])}
    BY DEF Metrics!Bill
  <1> DEFINE point(i) == Metrics!get_billing_point(i, ids)
             charge(i) == Metrics!Charge(orders[i], point(i))
  <1>2. ids \in SUBSET DOMAIN orders
    OBVIOUS
  <1>3. /\ \A i \in ids : ~ Metrics!ChargeRaises(orders[i], point(i))
        /\ bill' = [bill EXCEPT ![b] = [i \in ids |-> charge(i)]]
        /\ spent' = spent \cup {i \in ids : Metrics!Spends(orders[i], point(i))}
    BY <1>1
  <1> HIDE DEF charge, point
  <1>4. /\ twice' = (twice \/ \E d \in Billings : bill[d] # None)
        /\ UNCHANGED <<today, style, orders, saves, found, reported, measured, paid, strays>>
    BY DEF Metrics!Bill
  <1> SUFFICES ASSUME ~strays', ~twice' PROVE OneBills' /\ AllPay'
    BY DEF PaidInv
  <1>5. ~strays /\ AllPay /\ \A d \in Billings : bill[d] = None
    BY <1>4 DEF PaidInv
  <1>6. Metrics!TypeOK /\ DOMAIN bill = Billings
    BY DEF MetricsInv, Metrics!TypeOK
  <1>7. /\ bill'[b] = [i \in ids |-> charge(i)]
        /\ \A d \in Billings : d # b => bill'[d] = None
    BY <1>3, <1>5, <1>6
  <1>8. OneBills'
    BY <1>7 DEF OneBills
  <1>9. (Metrics!Active)' = Metrics!Active
    BY <1>4 DEF Metrics!Active
  <1>10. ASSUME NEW i \in Metrics!Active \ spent'
         PROVE  OrderPaid(i)' /\ \A d \in Billings : bill'[d] # None /\ i \in DOMAIN bill'[d] => WillPay(d, i)'
    <2>1. i \in DOMAIN orders /\ i \notin spent /\ OrderPaid(i)
      BY <1>3, <1>5, <1>10 DEF Metrics!Active, AllPay
    <2>2. OrderPaid(i)'
      BY <1>4, <2>1, OrderStaysPaid
    <2>3. ASSUME i \in ids PROVE WillPay(b, i)'
      <3>1. PICK bp, c, amount :
              bp = point(i) /\ c = charge(i) /\ amount = paid[i] + Metrics!Charged(c.lines)
        OBVIOUS
      <3>2. bp = Metrics!get_billing_point(i, ids) /\ c = Metrics!Charge(orders[i], bp)
        BY <3>1 DEF point, charge
      <3>3. ~ Metrics!ChargeRaises(orders[i], bp) /\ ~ Metrics!Spends(orders[i], bp)
        BY <1>3, <1>10, <2>3, <3>1
      <3>4. /\ c.lines # {} => PaidFor(i, amount, today, c.billed_until, c.billed_metric)
            /\ (\A j \in ids : orders[j].cancelled_on = None) => amount >= Metrics!Consumed(i, Due)
        BY <1>2, <1>5, <1>10, <2>1, <2>3, <3>1, <3>2, <3>3, ChargeIsPaid
      <3>5. bill'[b][i] = c /\ DOMAIN bill'[b] = ids
        BY <1>7, <2>3, <3>1
      <3>6. amount = Amount(b, i)'
        BY <1>4, <3>1, <3>5 DEF Amount
      <3>7. HasLines(b, i)' => c.lines # {}
        BY <3>5 DEF HasLines
      <3>8. PICK until, metric, on, due :
              until = c.billed_until /\ metric = c.billed_metric /\ on = today /\ due = Due
        OBVIOUS
      <3>9. PaidFor(i, amount, on, until, metric) => PaidFor(i, amount, on, until, metric)'
        BY <1>4 DEF PaidFor, Metrics!Consumed
      <3>10. HasLines(b, i)' => PaidFor(i, Amount(b, i), today, bill[b][i].billed_until,
                                        bill[b][i].billed_metric)'
        BY <1>4, <3>4, <3>5, <3>6, <3>7, <3>8, <3>9 DEF PaidFor
      <3>11. (\A j \in DOMAIN bill'[b] : orders'[j].cancelled_on = None) =>
               Amount(b, i)' >= Metrics!Consumed(i, Due)'
        <4>1. due = Due' /\ Metrics!Consumed(i, due)' = Metrics!Consumed(i, due)
          BY <1>4, <3>8 DEF Due, Metrics!Consumed
        <4>2. Metrics!Consumed(i, Due)' = Metrics!Consumed(i, Due)
          BY <3>8, <4>1 DEF Metrics!Consumed
        <4>3. QED BY <1>4, <3>4, <3>5, <3>6, <4>2
      <3>12. QED BY <3>10, <3>11 DEF WillPay
    <2>4. QED BY <1>7, <2>2, <2>3
  <1>11. QED BY <1>8, <1>9, <1>10 DEF AllPay

LEMMA CommitPays ==
  ASSUME Metrics!Assumption, MetricsInv, PaidInv, NEW b \in Billings, Metrics!CommitBill(b)
  PROVE  PaidInv'
  <1>1. /\ bill[b] # None /\ bill' = [bill EXCEPT ![b] = None]
        /\ orders' = [i \in DOMAIN orders |->
             IF i \in DOMAIN bill[b] /\ bill[b][i].lines # {}
             THEN [orders[i] EXCEPT !.billed_on = today, !.billed_until = bill[b][i].billed_until,
                                    !.billed_metric = bill[b][i].billed_metric]
             ELSE orders[i]]
        /\ UNCHANGED <<today, style, measured, strays, twice, spent>>
    BY DEF Metrics!CommitBill
  <1> SUFFICES ASSUME ~strays', ~twice' PROVE OneBills' /\ AllPay'
    BY DEF PaidInv
  <1>2. OneBills /\ AllPay
    BY <1>1 DEF PaidInv
  <1>3. Metrics!TypeOK /\ today \in Metrics!Days /\ DOMAIN bill = Billings /\ paid \in [Metrics!Ids -> Nat]
    BY DEF MetricsInv, Metrics!TypeOK
  <1>4. \A d \in Billings : bill'[d] = None
    BY <1>1, <1>2, <1>3 DEF OneBills
  <1>5. ASSUME NEW i \in (Metrics!Active)' \ spent' PROVE OrderPaid(i)'
    <2>1. i \in DOMAIN orders /\ orders'[i].cancelled_on = None /\ i \notin spent
      BY <1>1, <1>5 DEF Metrics!Active
    <2>2. orders[i] \in Metrics!OrderTypes /\ i \in Metrics!Ids
      BY <1>3, <2>1, OrdersAre
    <2>3. CASE HasLines(b, i)
      <3>1. PICK until, metric, on, amount :
              /\ until = bill[b][i].billed_until /\ metric = bill[b][i].billed_metric
              /\ on = today /\ amount = Amount(b, i)
        OBVIOUS
      <3>2. orders'[i] = [orders[i] EXCEPT !.billed_on = on, !.billed_until = until, !.billed_metric = metric]
        BY <1>1, <2>1, <2>3, <3>1 DEF HasLines
      <3>3. /\ orders'[i].registered_on = orders[i].registered_on
            /\ orders'[i].cancelled_on = orders[i].cancelled_on
            /\ orders'[i].billed_on = on /\ orders'[i].billed_until = until
            /\ orders'[i].billed_metric = metric
        BY <2>2, <3>2 DEF Metrics!OrderTypes
      <3>4. i \in Metrics!Active \ spent
        BY <2>1, <3>3 DEF Metrics!Active
      <3>5. WillPay(b, i)
        BY <1>1, <1>2, <2>3, <3>4 DEF AllPay, HasLines
      <3>6. PaidFor(i, amount, on, until, metric)
        BY <2>3, <3>1, <3>5 DEF WillPay
      <3>7. on \in Nat /\ until \in Nat
        <4>1. PICK ids \in SUBSET DOMAIN orders : bill[b] \in [ids -> Metrics!Charges]
          BY <1>1, <1>3 DEF Metrics!TypeOK
        <4>2. until \in Metrics!Ends \cup {None}
          BY <2>3, <3>1, <4>1 DEF Metrics!Charges, HasLines
        <4>3. until # None
          BY <2>2, <2>3, <3>1 DEF MetricsInv, DatesOfOrders, Complete
        <4>4. QED BY <1>3, <3>1, <4>2, <4>3, NumbersAre
      <3>8. style # "prepay" => until <= on
        BY <3>6 DEF PaidFor
      <3>9. PaidFor(i, amount, on, until, metric)'
        <4>1. style' = style /\ \A d \in Nat : d < on => measured'[i][d] = measured[i][d]
          BY <1>1
        <4>2. orders'[i].registered_on = orders[i].registered_on
          BY <3>3
        <4>3. QED BY <1>3, <2>1, <3>6, <3>7, <3>8, <4>1, <4>2, PaidForStays
      <3>10. paid'[i] = amount
        <4>1. i \in DOMAIN bill[b]
          BY <2>3 DEF HasLines
        <4>2. QED BY <2>2, <3>1, <4>1 DEF Metrics!CommitBill, Amount
      <3>11. QED BY <3>3, <3>9, <3>10 DEF OrderPaid
    <2>4. CASE ~ HasLines(b, i)
      <3>1. orders'[i] = orders[i]
        BY <1>1, <2>1, <2>4 DEF HasLines
      <3>2. i \in Metrics!Active \ spent
        BY <2>1, <3>1 DEF Metrics!Active
      <3>3. OrderPaid(i)
        BY <1>2, <3>2 DEF AllPay
      <3>4. PICK more : more = IF i \in DOMAIN bill[b] THEN Metrics!Charged(bill[b][i].lines) ELSE 0
        OBVIOUS
      <3>5. more = 0
        <4>1. i \in DOMAIN bill[b] => bill[b][i].lines = {}
          BY <1>1, <2>4 DEF HasLines
        <4>2. Metrics!Charged({}) = 0
          BY TotalOfNone DEF Metrics!Charged
        <4>3. QED BY <3>4, <4>1, <4>2
      <3>6. paid'[i] = paid[i] + more
        BY <2>2, <3>4 DEF Metrics!CommitBill
      <3>7. paid'[i] = paid[i]
        BY <1>3, <2>2, <3>5, <3>6
      <3>8. QED BY <1>1, <2>1, <3>1, <3>3, <3>7, OrderStaysPaid
    <2>5. QED BY <2>3, <2>4
  <1>6. QED BY <1>4, <1>5 DEF OneBills, AllPay

LEMMA PaidInvIsInductive ==
  ASSUME Metrics!Assumption
  PROVE  /\ Metrics!Init => PaidInv
         /\ MetricsInv /\ PaidInv /\ [Metrics!Next]_(Metrics!vars) => PaidInv'
  <1>1. Metrics!Init => PaidInv
    <2> SUFFICES ASSUME Metrics!Init PROVE OneBills /\ AllPay
      BY DEF PaidInv
    <2>1. orders = << >> /\ bill = [b \in Billings |-> None]
      BY DEF Metrics!Init
    <2>2. DOMAIN orders = {} /\ \A b \in Billings : bill[b] = None
      BY <2>1
    <2>3. QED BY <2>2 DEF OneBills, AllPay, Metrics!Active
  <1>2. ASSUME MetricsInv, PaidInv, Metrics!Next PROVE PaidInv'
    <2>1. ASSUME NEW r \in Requests, Metrics!Save(r) PROVE PaidInv'
      BY <1>2, <2>1, SavePays
    <2>2. ASSUME NEW r \in Requests, Metrics!CancelOrders(r) PROVE PaidInv'
      BY <1>2, <2>2, CancelPays
    <2>3. ASSUME NEW r \in Requests, Metrics!ChangesNothing(r) PROVE PaidInv'
      BY <1>2, <2>3, NothingPays
    <2>4. ASSUME NEW r \in Requests, NEW value \in Values, Metrics!CreateOrder(r, value) PROVE PaidInv'
      BY <1>2, <2>4, CreatePays
    <2>5. ASSUME NEW r \in Requests, NEW value \in Values, Metrics!UpdateOrder(r, value) PROVE PaidInv'
      BY <1>2, <2>5, UpdatePays
    <2>6. ASSUME NEW b \in Billings, Metrics!Bill(b) PROVE PaidInv'
      BY <1>2, <2>6, BillPays
    <2>7. ASSUME NEW b \in Billings, Metrics!CommitBill(b) PROVE PaidInv'
      BY <1>2, <2>7, CommitPays
    <2>8. ASSUME Metrics!Cleanup PROVE PaidInv'
      BY <1>2, <2>8, CleanupPays
    <2>9. ASSUME Metrics!Midnight PROVE PaidInv'
      BY <1>2, <2>9, MidnightPays
    <2>10. QED BY <1>2, <2>1, <2>2, <2>3, <2>4, <2>5, <2>6, <2>7, <2>8, <2>9 DEF Metrics!Next
  <1>3. ASSUME MetricsInv, PaidInv, UNCHANGED Metrics!vars PROVE PaidInv'
    <2>1. UNCHANGED <<today, style, orders, bill, measured, paid, strays, twice, spent>>
      BY <1>3 DEF Metrics!vars
    <2>2. QED BY <1>3, <2>1, PaidStays
  <1>4. QED BY <1>1, <1>2, <1>3

\* The bill that a step writes.
Writes(b) == bill[b] # None /\ bill'[b] = None

LEMMA CommitsWrite ==
  ASSUME Metrics!Assumption, MetricsInv, [Metrics!Next]_(Metrics!vars), NEW b \in Billings, Writes(b)
  PROVE  Metrics!CommitBill(b)
  <1>1. DOMAIN bill = Billings
    BY DEF MetricsInv, Metrics!TypeOK
  <1>2. bill' # bill
    BY DEF Writes
  <1>3. CASE UNCHANGED Metrics!vars
    BY <1>2, <1>3 DEF Metrics!vars
  <1>4. ASSUME NEW r \in Requests, Metrics!Commits(r) PROVE FALSE
    BY <1>2, <1>4 DEF Metrics!Commits
  <1>5. ASSUME NEW r \in Requests, Metrics!Save(r) PROVE FALSE
    BY <1>2, <1>5 DEF Metrics!Save
  <1>6. ASSUME Metrics!Cleanup \/ Metrics!Midnight PROVE FALSE
    BY <1>2, <1>6 DEF Metrics!Cleanup, Metrics!Midnight
  <1>7. ASSUME NEW c \in Billings, Metrics!Bill(c) PROVE FALSE
    <2>1. bill[c] = None /\ \E new : bill' = [bill EXCEPT ![c] = new]
      <3>1. PICK ids \in {DOMAIN orders} \cup {{i} : i \in DOMAIN orders} :
              LET point == [i \in ids |-> Metrics!get_billing_point(i, ids)] IN
              bill' = [bill EXCEPT ![c] = [i \in ids |-> Metrics!Charge(orders[i], point[i])]]
        BY <1>7 DEF Metrics!Bill
      <3>2. \E new : bill' = [bill EXCEPT ![c] = new]
        BY <3>1, Zenon
      <3>3. bill[c] = None
        BY <1>7 DEF Metrics!Bill
      <3>4. QED BY <3>2, <3>3
    <2>2. b # c
      BY <2>1 DEF Writes
    <2>3. bill'[b] = bill[b]
      BY <1>1, <2>1, <2>2
    <2>4. QED BY <2>3 DEF Writes
  <1>8. ASSUME NEW c \in Billings, Metrics!CommitBill(c) PROVE c = b
    BY <1>1, <1>8 DEF Metrics!CommitBill, Writes
  <1>9. QED BY <1>3, <1>4, <1>5, <1>6, <1>7, <1>8
      DEF Metrics!Next, Metrics!CreateOrder, Metrics!UpdateOrder, Metrics!CancelOrders, Metrics!ChangesNothing

\* A billing that goes on pays what its orders have consumed.
LEMMA CommitPaysAll ==
  ASSUME Metrics!Assumption, MetricsInv, PaidInv, ~strays, ~twice,
         NEW b \in Billings, Metrics!CommitBill(b), NEW i \in DOMAIN bill[b] \ spent,
         \A j \in DOMAIN bill[b] : orders[j].cancelled_on = None
  PROVE  paid'[i] >= Metrics!Consumed(i, Due)
  <1>1. Metrics!TypeOK /\ bill[b] # None
    BY DEF MetricsInv, Metrics!CommitBill
  <1>2. i \in DOMAIN orders
    BY <1>1 DEF Metrics!TypeOK
  <1>3. i \in Metrics!Active /\ i \in Metrics!Ids
    BY <1>1, <1>2, OrdersAre DEF Metrics!Active
  <1>4. WillPay(b, i)
    BY <1>1, <1>3 DEF PaidInv, AllPay
  <1>5. Amount(b, i) >= Metrics!Consumed(i, Due)
    BY <1>4 DEF WillPay
  <1>6. paid'[i] = Amount(b, i)
    BY <1>3 DEF Metrics!CommitBill, Amount
  <1>7. QED BY <1>5, <1>6

\* What an order consumed, less the error that MetricStorage.store leaves of each day, is
\* paid by the bill_with_metric that bills it, in advance or not, whatever its metric was
\* when it was billed before: up to the day it is billed on, or to the billing point.
THEOREM MetricsArePaid ==
  ASSUME Metrics!Assumption
  PROVE  Metrics!Spec => []PaidInv /\ ConsumptionIsPaid
  <1>1. Metrics!Init => MetricsInv /\ PaidInv
    BY MetricsInvIsInductive, PaidInvIsInductive
  <1>2. MetricsInv /\ PaidInv /\ [Metrics!Next]_(Metrics!vars) => (MetricsInv /\ PaidInv)'
    BY MetricsInvIsInductive, PaidInvIsInductive
  <1>3. MetricsInv /\ PaidInv /\ [Metrics!Next]_(Metrics!vars) =>
          [\A b \in Billings : bill[b] # None /\ bill'[b] = None /\ ~strays /\ ~twice =>
             \A i \in DOMAIN bill[b] \ spent :
               (\A j \in DOMAIN bill[b] : orders[j].cancelled_on = None) =>
                 paid'[i] >= Metrics!Consumed(i, IF style = "prepay" THEN today
                                                 ELSE (today \div Period) * Period)]_(Metrics!vars)
    <2> SUFFICES ASSUME MetricsInv, PaidInv, [Metrics!Next]_(Metrics!vars),
                        NEW b \in Billings, bill[b] # None, bill'[b] = None, ~strays, ~twice,
                        NEW i \in DOMAIN bill[b] \ spent,
                        \A j \in DOMAIN bill[b] : orders[j].cancelled_on = None
                 PROVE  paid'[i] >= Metrics!Consumed(i, Due)
      BY DEF Due
    <2>1. Metrics!CommitBill(b)
      BY CommitsWrite DEF Writes
    <2>2. QED BY <2>1, CommitPaysAll
  <1>4. QED BY <1>1, <1>2, <1>3, PTL DEF Metrics!Spec, ConsumptionIsPaid, Metrics!ConsumptionIsPaid

-----------------------------------------------------------------------------
(* The prices of orders that concur *)

\* The days of a chunk.
Holds(c, d) == c.ini <= d /\ d < c.end

\* Which of the first n orders are there on a day, and the place of one among them.
PresentOf(ps, n, d, new, point) ==
  {i \in 1 .. n : registered[ps[i]] <= d /\ d < Pricing!Until(ps[i], new, point)}
Place(T, i) == Cardinality({k \in T : k <= i})

\* A sequence names those orders, in their line.
NamesThose(s, ps, T) ==
  /\ Len(s) = Cardinality(T)
  /\ \A i \in T : Place(T, i) \in DOMAIN s /\ s[Place(T, i)] = ps[i]
  /\ \A j \in DOMAIN s : \E i \in T : j = Place(T, i)

\* A piece of the period, with some of the first n orders.
IsChunk(c, n, ps, ini, end) ==
  /\ c.ini \in Nat /\ c.end \in Nat /\ ini <= c.ini /\ c.ini <= c.end /\ c.end <= end
  /\ c.orders \in Seq(Concurrent) /\ Len(c.orders) <= n
  /\ \A j \in DOMAIN c.orders : \E i \in 1 .. n : c.orders[j] = ps[i]

\* What the chunks are after n orders: each day of the period is in one of them, which
\* has the orders that are there on that day.
DividePeriod(C, n, ps, ini, end, new, point) ==
  /\ IsFiniteSet(C) /\ \A c \in C : IsChunk(c, n, ps, ini, end)
  /\ \A d \in ini .. end - 1 : \E c \in C : Holds(c, d)
  /\ \A c, e \in C, d \in Nat : Holds(c, d) /\ Holds(e, d) => c = e
  /\ \A c \in C, d \in Nat : Holds(c, d) => NamesThose(c.orders, ps, PresentOf(ps, n, d, new, point))

\* An order has days, of which it is there until one that is not before it was registered.
HasDates(o, new, point) ==
  /\ o \in Concurrent /\ registered[o] \in Nat
  /\ LET until == Pricing!Until(o, new, point) IN
     until = Pricing!Null \/ (until \in Nat /\ registered[o] <= until)

LEMMA ExtremesOfTwoDays ==
  ASSUME NEW a \in Int, NEW b \in Int
  PROVE  /\ Pricing!Max({a, b}) = (IF a >= b THEN a ELSE b)
         /\ Pricing!Min({a, b}) = (IF a <= b THEN a ELSE b)
  BY DEF Pricing!Max, Pricing!Min

\* Chunks that divide the days of one, of which those of an order get it.
Divides(P, c, o, u) ==
  /\ IsFiniteSet(P)
  /\ \A p \in P : /\ p.ini \in Nat /\ p.end \in Nat
                  /\ c.ini <= p.ini /\ p.ini <= p.end /\ p.end <= c.end
                  /\ p.orders \in {c.orders, Append(c.orders, o)}
  /\ \A d \in Nat : Holds(c, d) => \E p \in P : Holds(p, d)
  /\ \A p, q \in P, d \in Nat : Holds(p, d) /\ Holds(q, d) => p = q
  /\ \A p \in P, d \in Nat : Holds(p, d) =>
       /\ Holds(c, d)
       /\ p.orders = IF registered[o] <= d /\ d < u THEN Append(c.orders, o) ELSE c.orders

\* How a chunk is split: its days are divided, and those of the order get it.
LEMMA SplitDivides ==
  ASSUME NEW o, NEW u, registered[o] \in Nat,
         u = Pricing!Null \/ (u \in Nat /\ registered[o] <= u),
         NEW c, c.ini \in Nat, c.end \in Nat, c.ini <= c.end,
         NEW P, P = Pricing!Split(c, o, u)
  PROVE  Divides(P, c, o, u)
  <1>1. CASE u = Pricing!Null \/ u <= c.ini \/ registered[o] >= c.end
    <2>1. P = {c}
      BY <1>1 DEF Pricing!Split
    <2>2. IsFiniteSet(P)
      BY <2>1, FS_Singleton
    <2>3. ASSUME NEW d \in Nat, Holds(c, d) PROVE ~ (registered[o] <= d /\ d < u)
      BY <1>1, <2>3 DEF Holds, Pricing!Null
    <2>4. QED BY <2>1, <2>2, <2>3 DEF Divides
  <1>2. CASE ~ (u = Pricing!Null \/ u <= c.ini \/ registered[o] >= c.end)
    <2>1. PICK first, last : /\ first = Pricing!Max({registered[o], c.ini})
                             /\ last = Pricing!Min({u, c.end})
      OBVIOUS
    <2>2. /\ first = IF registered[o] >= c.ini THEN registered[o] ELSE c.ini
          /\ last = IF u <= c.end THEN u ELSE c.end
          /\ u \in Nat
      <3>1. u \in Nat
        BY <1>2
      <3>2. Pricing!Max({registered[o], c.ini}) = IF registered[o] >= c.ini THEN registered[o] ELSE c.ini
        BY ExtremesOfTwoDays
      <3>3. Pricing!Min({u, c.end}) = IF u <= c.end THEN u ELSE c.end
        BY <3>1, ExtremesOfTwoDays
      <3>4. QED BY <2>1, <3>1, <3>2, <3>3
    <2>3. /\ first \in Nat /\ last \in Nat /\ c.ini <= first /\ first <= last /\ last <= c.end
          /\ \A d \in Nat : Holds(c, d) => (first <= d /\ d < last <=> registered[o] <= d /\ d < u)
      BY <1>2, <2>2 DEF Holds
    <2> DEFINE before == Pricing!Chunk(c.ini, first, c.orders)
               later == Pricing!Chunk(last, c.end, c.orders)
               with == Pricing!Chunk(first, last, Append(c.orders, o))
    <2>4. P = {p \in {before, later} : p.ini < p.end} \cup {with}
      BY <1>2, <2>1 DEF Pricing!Split
    <2>5. /\ before.ini = c.ini /\ before.end = first /\ before.orders = c.orders
          /\ later.ini = last /\ later.end = c.end /\ later.orders = c.orders
          /\ with.ini = first /\ with.end = last /\ with.orders = Append(c.orders, o)
      BY DEF Pricing!Chunk
    <2>6. IsFiniteSet(P)
      <3>1. P \in SUBSET ({before, later} \cup {with})
        BY <2>4
      <3>2. IsFiniteSet({before} \cup {later}) /\ {before} \cup {later} = {before, later}
        BY FS_Singleton, FS_Union
      <3>3. IsFiniteSet({before, later} \cup {with})
        BY <3>2, FS_Singleton, FS_Union
      <3>4. QED BY <3>1, <3>3, FS_Subset
    <2> HIDE DEF before, later, with
    <2>7. \A p \in P : (p = before /\ p.ini < p.end) \/ (p = later /\ p.ini < p.end) \/ p = with
      BY <2>4
    <2>8. \A p \in P : /\ p.ini \in Nat /\ p.end \in Nat
                       /\ c.ini <= p.ini /\ p.ini <= p.end /\ p.end <= c.end
                       /\ p.orders \in {c.orders, Append(c.orders, o)}
      BY <2>3, <2>5, <2>7
    <2>9. ASSUME NEW d \in Nat, Holds(c, d) PROVE \E p \in P : Holds(p, d)
      <3>1. CASE d < first
        BY <2>3, <2>4, <2>5, <2>9, <3>1 DEF Holds
      <3>2. CASE last <= d
        BY <2>3, <2>4, <2>5, <2>9, <3>2 DEF Holds
      <3>3. CASE first <= d /\ d < last
        BY <2>4, <2>5, <3>3 DEF Holds
      <3>4. QED BY <2>3, <3>1, <3>2, <3>3
    <2>10. ASSUME NEW p \in P, NEW d \in Nat, Holds(p, d)
           PROVE  /\ Holds(c, d)
                  /\ p = IF d < first THEN before ELSE IF d < last THEN with ELSE later
      BY <2>3, <2>5, <2>7, <2>10 DEF Holds
    <2>11. ASSUME NEW p \in P, NEW d \in Nat, Holds(p, d)
           PROVE  p.orders = IF registered[o] <= d /\ d < u THEN Append(c.orders, o) ELSE c.orders
      <3>1. (first <= d /\ d < last) <=> (registered[o] <= d /\ d < u)
        BY <2>3, <2>10, <2>11
      <3>2. CASE d < first
        BY <2>3, <2>5, <2>10, <2>11, <3>1, <3>2
      <3>3. CASE ~ (d < first) /\ d < last
        <4>1. p = with
          BY <2>10, <2>11, <3>3
        <4>2. first <= d
          BY <2>3, <3>3
        <4>3. QED BY <2>5, <3>1, <3>3, <4>1, <4>2
      <3>4. CASE ~ (d < first) /\ ~ (d < last)
        BY <2>5, <2>10, <2>11, <3>1, <3>4
      <3>5. QED BY <3>2, <3>3, <3>4
    <2>12. QED BY <2>6, <2>8, <2>9, <2>10, <2>11 DEF Divides
  <1>3. QED BY <1>1, <1>2

\* One more order at the end of those that are named.
LEMMA NamesOneMore ==
  ASSUME NEW ps, NEW n \in Nat, NEW T \in SUBSET (1 .. n), NEW S, NEW s \in Seq(S), ps[n + 1] \in S,
         NamesThose(s, ps, T)
  PROVE  NamesThose(Append(s, ps[n + 1]), ps, T \cup {n + 1})
  <1> DEFINE U == T \cup {n + 1}
             l == Append(s, ps[n + 1])
  <1>1. IsFiniteSet(T) /\ n + 1 \notin T
    <2>1. IsFiniteSet(1 .. n)
      BY FS_Interval
    <2>2. n + 1 \notin 1 .. n
      OBVIOUS
    <2>3. QED BY <2>1, <2>2, FS_Subset
  <1>2. Cardinality(U) = Cardinality(T) + 1 /\ Cardinality(T) \in Nat
    BY <1>1, FS_AddElement, FS_CardinalityType
  <1>3. \A i \in T : {k \in U : k <= i} = {k \in T : k <= i}
    OBVIOUS
  <1>4. \A i \in T : Place(U, i) = Place(T, i)
    BY <1>3 DEF Place
  <1>5. {k \in U : k <= n + 1} = U
    <2>1. \A k \in U : k <= n + 1
      OBVIOUS
    <2> HIDE DEF U
    <2>2. QED BY <2>1
  <1>6. Place(U, n + 1) = Cardinality(T) + 1
    BY <1>2, <1>5 DEF Place
  <1>7. Len(s) = Cardinality(T)
    BY DEF NamesThose
  <1>8. /\ Len(l) = Len(s) + 1 /\ DOMAIN l = 1 .. Len(s) + 1 /\ DOMAIN s = 1 .. Len(s)
        /\ l[Len(s) + 1] = ps[n + 1] /\ \A j \in 1 .. Len(s) : l[j] = s[j]
    OBVIOUS
  <1> HIDE DEF U, l
  <1>9. ASSUME NEW i \in U PROVE Place(U, i) \in DOMAIN l /\ l[Place(U, i)] = ps[i]
    <2>1. CASE i \in T
      <3>1. Place(T, i) \in DOMAIN s /\ s[Place(T, i)] = ps[i]
        BY <2>1 DEF NamesThose
      <3>2. QED BY <1>4, <1>8, <2>1, <3>1
    <2>2. CASE i = n + 1
      BY <1>2, <1>6, <1>7, <1>8, <2>2
    <2>3. QED BY <2>1, <2>2 DEF U
  <1>10. ASSUME NEW j \in DOMAIN l PROVE \E i \in U : j = Place(U, i)
    <2>1. CASE j \in DOMAIN s
      <3>1. PICK i \in T : j = Place(T, i)
        BY <2>1 DEF NamesThose
      <3>2. QED BY <1>4, <3>1 DEF U
    <2>2. CASE j \notin DOMAIN s
      <3>1. j = Cardinality(T) + 1
        BY <1>2, <1>7, <1>8, <2>2
      <3>2. QED BY <1>6, <3>1 DEF U
    <2>3. QED BY <2>1, <2>2
  <1>11. QED BY <1>2, <1>7, <1>8, <1>9, <1>10 DEF NamesThose, U, l

\* Who is there after one order more.
LEMMA PresentOneMore ==
  ASSUME NEW ps, NEW n \in Nat, NEW d, NEW new, NEW point
  PROVE  LET T == PresentOf(ps, n, d, new, point)
             comes == registered[ps[n + 1]] <= d /\ d < Pricing!Until(ps[n + 1], new, point)
         IN PresentOf(ps, n + 1, d, new, point) = IF comes THEN T \cup {n + 1} ELSE T
  <1>1. \A i : i \in 1 .. n + 1 <=> i \in 1 .. n \/ i = n + 1
    OBVIOUS
  <1>2. QED BY <1>1 DEF PresentOf

\* The chunks after an order that is taken into them.
LEMMA OrderIsTaken ==
  ASSUME NEW ps, NEW n \in Nat, NEW ini \in Nat, NEW end \in Nat, NEW new, NEW point,
         HasDates(ps[n + 1], new, point),
         NEW C, DividePeriod(C, n, ps, ini, end, new, point),
         NEW taken,
         taken = UNION {Pricing!Split(c, ps[n + 1], Pricing!Until(ps[n + 1], new, point)) : c \in C}
  PROVE  DividePeriod(taken, n + 1, ps, ini, end, new, point)
  <1>1. PICK o, u : o = ps[n + 1] /\ u = Pricing!Until(ps[n + 1], new, point)
    OBVIOUS
  <1>2. /\ o \in Concurrent /\ registered[o] \in Nat
        /\ u = Pricing!Null \/ (u \in Nat /\ registered[o] <= u)
    BY <1>1 DEF HasDates
  <1> DEFINE pieces == [c \in C |-> Pricing!Split(c, o, u)]
             Comes(d) == registered[o] <= d /\ d < u
  <1>3. /\ \A p \in taken : \E c \in C : p \in pieces[c]
        /\ \A c \in C : pieces[c] \subseteq taken
        /\ taken = UNION {pieces[c] : c \in C}
    BY <1>1
  <1>4. ASSUME NEW c \in C
        PROVE  /\ c.ini \in Nat /\ c.end \in Nat /\ ini <= c.ini /\ c.ini <= c.end /\ c.end <= end
               /\ c.orders \in Seq(Concurrent) /\ Len(c.orders) \in Nat /\ Len(c.orders) <= n
               /\ \A j \in DOMAIN c.orders : \E i \in 1 .. n : c.orders[j] = ps[i]
    BY DEF DividePeriod, IsChunk
  <1>5. ASSUME NEW c \in C
        PROVE  /\ IsFiniteSet(pieces[c])
               /\ \A p \in pieces[c] : /\ p.ini \in Nat /\ p.end \in Nat
                                       /\ c.ini <= p.ini /\ p.ini <= p.end /\ p.end <= c.end
                                       /\ p.orders \in {c.orders, Append(c.orders, o)}
               /\ \A d \in Nat : Holds(c, d) => \E p \in pieces[c] : Holds(p, d)
               /\ \A p, q \in pieces[c], d \in Nat : Holds(p, d) /\ Holds(q, d) => p = q
               /\ \A p \in pieces[c], d \in Nat : Holds(p, d) =>
                    /\ Holds(c, d)
                    /\ p.orders = IF Comes(d) THEN Append(c.orders, o) ELSE c.orders
    <2>1. c.ini \in Nat /\ c.end \in Nat /\ c.ini <= c.end
      BY <1>4
    <2>2. Divides(Pricing!Split(c, o, u), c, o, u)
      BY <1>2, <2>1, SplitDivides
    <2>3. Divides(pieces[c], c, o, u)
      BY <2>2
    <2> HIDE DEF pieces
    <2>4. QED BY <2>3 DEF Divides
  <1> HIDE DEF pieces
  <1>6. IsFiniteSet(taken)
    <2>1. IsFiniteSet(C)
      BY DEF DividePeriod
    <2>2. pieces \in Surjection(C, {pieces[c] : c \in C})
      BY DEF pieces, Surjection
    <2>3. IsFiniteSet({pieces[c] : c \in C})
      BY <2>1, <2>2, FS_Surjection
    <2>4. PICK A : A = {pieces[c] : c \in C}
      OBVIOUS
    <2>5. IsFiniteSet(A) /\ (\A T \in A : IsFiniteSet(T)) /\ taken = UNION A
      BY <1>3, <1>5, <2>3, <2>4
    <2>6. QED BY <2>5, FS_UNION
  <1>7. ASSUME NEW p \in taken PROVE IsChunk(p, n + 1, ps, ini, end)
    <2>1. PICK c \in C : p \in pieces[c]
      BY <1>3
    <2>2. /\ p.ini \in Nat /\ p.end \in Nat
          /\ c.ini <= p.ini /\ p.ini <= p.end /\ p.end <= c.end
          /\ p.orders \in {c.orders, Append(c.orders, o)}
      BY <1>5, <2>1
    <2>3. ini <= p.ini /\ p.ini <= p.end /\ p.end <= end
      BY <1>4, <2>2
    <2>4. /\ p.orders \in Seq(Concurrent) /\ Len(p.orders) <= n + 1
          /\ \A j \in DOMAIN p.orders : \E i \in 1 .. n + 1 : p.orders[j] = ps[i]
      <3>1. CASE p.orders = c.orders
        <4>1. \A i \in 1 .. n : i \in 1 .. n + 1
          OBVIOUS
        <4>2. Len(c.orders) <= n + 1
          BY <1>4
        <4>3. QED BY <1>4, <3>1, <4>1, <4>2
      <3>2. CASE p.orders = Append(c.orders, o)
        <4>1. PICK s \in Seq(Concurrent) : s = c.orders
          BY <1>4
        <4>2. /\ Append(s, o) \in Seq(Concurrent) /\ Len(Append(s, o)) = Len(s) + 1
              /\ DOMAIN Append(s, o) = 1 .. Len(s) + 1
              /\ Append(s, o)[Len(s) + 1] = o /\ DOMAIN s = 1 .. Len(s)
              /\ \A j \in 1 .. Len(s) : Append(s, o)[j] = s[j]
          BY <1>2
        <4>3. Len(s) \in Nat /\ Len(s) <= n /\ \A j \in DOMAIN s : \E i \in 1 .. n : s[j] = ps[i]
          BY <1>4, <4>1
        <4>4. ASSUME NEW j \in DOMAIN Append(s, o) PROVE \E i \in 1 .. n + 1 : Append(s, o)[j] = ps[i]
          <5>1. CASE j = Len(s) + 1
            BY <1>1, <4>2, <5>1
          <5>2. CASE j # Len(s) + 1
            <6>1. j \in DOMAIN s
              BY <4>2, <4>3, <5>2
            <6>2. PICK i \in 1 .. n : s[j] = ps[i]
              BY <4>3, <6>1
            <6>3. i \in 1 .. n + 1 /\ Append(s, o)[j] = ps[i]
              BY <4>2, <6>1, <6>2
            <6>4. QED BY <6>3
          <5>3. QED BY <5>1, <5>2
        <4>5. Len(Append(s, o)) <= n + 1
          BY <4>2, <4>3
        <4>6. QED BY <3>2, <4>1, <4>2, <4>4, <4>5
      <3>3. QED BY <2>2, <3>1, <3>2
    <2>5. QED BY <2>2, <2>3, <2>4 DEF IsChunk
  <1>8. ASSUME NEW d \in ini .. end - 1 PROVE \E p \in taken : Holds(p, d)
    <2>1. PICK c \in C : Holds(c, d)
      BY DEF DividePeriod
    <2>2. d \in Nat
      OBVIOUS
    <2>3. QED BY <1>3, <1>5, <2>1, <2>2
  <1>9. ASSUME NEW p \in taken, NEW q \in taken, NEW d \in Nat, Holds(p, d), Holds(q, d) PROVE p = q
    <2>1. PICK c \in C : p \in pieces[c]
      BY <1>3
    <2>2. PICK e \in C : q \in pieces[e]
      BY <1>3
    <2>3. Holds(c, d) /\ Holds(e, d)
      BY <1>5, <1>9, <2>1, <2>2
    <2>4. c = e
      BY <2>3 DEF DividePeriod
    <2>5. QED BY <1>5, <1>9, <2>1, <2>2, <2>4
  <1>10. ASSUME NEW p \in taken, NEW d \in Nat, Holds(p, d)
         PROVE  NamesThose(p.orders, ps, PresentOf(ps, n + 1, d, new, point))
    <2>1. PICK c \in C : p \in pieces[c]
      BY <1>3
    <2>2. Holds(c, d) /\ p.orders = IF Comes(d) THEN Append(c.orders, o) ELSE c.orders
      BY <1>5, <1>10, <2>1
    <2>3. PICK T : T = PresentOf(ps, n, d, new, point)
      OBVIOUS
    <2>4. NamesThose(c.orders, ps, T) /\ T \in SUBSET (1 .. n)
      BY <2>2, <2>3 DEF DividePeriod, PresentOf
    <2>5. PresentOf(ps, n + 1, d, new, point) = IF Comes(d) THEN T \cup {n + 1} ELSE T
      <3>1. PresentOf(ps, n + 1, d, new, point) =
              IF registered[ps[n + 1]] <= d /\ d < Pricing!Until(ps[n + 1], new, point)
              THEN PresentOf(ps, n, d, new, point) \cup {n + 1} ELSE PresentOf(ps, n, d, new, point)
        BY PresentOneMore
      <3>2. QED BY <1>1, <2>3, <3>1
    <2>6. NamesThose(Append(c.orders, o), ps, T \cup {n + 1})
      <3>1. PICK s \in Seq(Concurrent) : s = c.orders
        BY <1>4
      <3>2. ps[n + 1] \in Concurrent /\ NamesThose(s, ps, T)
        BY <1>1, <1>2, <2>4, <3>1
      <3>3. NamesThose(Append(s, ps[n + 1]), ps, T \cup {n + 1})
        BY <2>4, <3>2, NamesOneMore
      <3>4. QED BY <1>1, <3>1, <3>3
    <2>7. QED BY <2>2, <2>4, <2>5, <2>6
  <1>11. QED BY <1>6, <1>7, <1>8, <1>9, <1>10 DEF DividePeriod

\* The chunks after any number of orders, as get_chunks defines them.
AreAfter(g, m, ps, ini, end, new, point) ==
  g = [n \in 0 .. m |->
        IF n = 0 THEN {Pricing!Chunk(ini, end, << >>)}
        ELSE UNION {Pricing!Split(c, ps[n], Pricing!Until(ps[n], new, point)) : c \in g[n - 1]}]

LEMMA AfterExists ==
  ASSUME NEW N \in Nat, NEW ps, NEW ini, NEW end, NEW new, NEW point
  PROVE  \E g : AreAfter(g, N, ps, ini, end, new, point)
  <1> DEFINE There(m) == \E g : AreAfter(g, m, ps, ini, end, new, point)
             Wrong == {m \in 0 .. N : ~ There(m)}
  <1>1. There(0)
    <2>1. PICK g : g = [n \in 0 .. 0 |-> {Pricing!Chunk(ini, end, << >>)}]
      OBVIOUS
    <2>2. g = [n \in 0 .. 0 |-> IF n = 0 THEN {Pricing!Chunk(ini, end, << >>)}
                ELSE UNION {Pricing!Split(c, ps[n], Pricing!Until(ps[n], new, point)) : c \in g[n - 1]}]
      BY <2>1
    <2>3. QED BY <2>2 DEF AreAfter
  <1>2. ASSUME NEW m \in Nat, There(m) PROVE There(m + 1)
    <2>1. PICK g : AreAfter(g, m, ps, ini, end, new, point)
      BY <1>2
    <2> DEFINE Taken(C) == UNION {Pricing!Split(c, ps[m + 1], Pricing!Until(ps[m + 1], new, point)) : c \in C}
               h == [n \in 0 .. m + 1 |-> IF n = m + 1 THEN Taken(g[m]) ELSE g[n]]
               Step(f, n) == IF n = 0 THEN {Pricing!Chunk(ini, end, << >>)}
                             ELSE UNION {Pricing!Split(c, ps[n], Pricing!Until(ps[n], new, point)) : c \in f[n - 1]}
    <2>2. ASSUME NEW n \in 0 .. m PROVE h[n] = g[n] /\ g[n] = Step(g, n)
      <3>1. n \in 0 .. m + 1 /\ n # m + 1
        OBVIOUS
      <3>2. h[n] = g[n]
        BY <3>1
      <3>3. g = [k \in 0 .. m |-> Step(g, k)]
        BY <2>1 DEF AreAfter
      <3> HIDE DEF h, Step
      <3>4. g[n] = Step(g, n)
        BY <3>3
      <3>5. QED BY <3>2, <3>4
    <2>3. ASSUME NEW n \in 0 .. m + 1 PROVE h[n] = Step(h, n)
      <3>1. CASE n = m + 1
        <4>1. n # 0 /\ n - 1 = m /\ m \in 0 .. m
          BY <3>1
        <4>2. h[n] = Taken(g[m]) /\ h[m] = g[m]
          BY <2>2, <3>1, <4>1
        <4>3. QED BY <3>1, <4>1, <4>2
      <3>2. CASE n = 0
        <4>1. n \in 0 .. m
          BY <3>2
        <4>2. h[n] = Step(g, n)
          BY <2>2, <4>1
        <4>3. QED BY <3>2, <4>2
      <3>3. CASE n # m + 1 /\ n # 0
        <4>1. n \in 0 .. m /\ n - 1 \in 0 .. m
          BY <3>3
        <4>2. h[n] = Step(g, n) /\ h[n - 1] = g[n - 1]
          BY <2>2, <4>1
        <4>3. QED BY <3>3, <4>2
      <3>4. QED BY <3>1, <3>2, <3>3
    <2>4. h = [n \in 0 .. m + 1 |-> h[n]]
      OBVIOUS
    <2> HIDE DEF h
    <2>5. h = [n \in 0 .. m + 1 |-> Step(h, n)]
      BY <2>3, <2>4
    <2>6. QED BY <2>5 DEF AreAfter
  <1> HIDE DEF There
  <1>3. ASSUME Wrong # {} PROVE FALSE
    <2>1. PICK m \in Wrong : \A n \in Wrong : m <= n
      <3>1. Wrong \in SUBSET (0 .. N)
        OBVIOUS
      <3> HIDE DEF Wrong
      <3>2. Metrics!Min(Wrong) \in Wrong /\ \A x \in Wrong : Metrics!Min(Wrong) <= x
        BY <1>3, <3>1, LeastNumber
      <3>3. QED BY <3>2
    <2>2. m # 0
      BY <1>1
    <2>3. m - 1 \in 0 .. N /\ m - 1 \in Nat /\ ~(m <= m - 1)
      BY <2>2
    <2>4. There(m - 1)
      BY <2>1, <2>3
    <2>5. There((m - 1) + 1)
      BY <1>2, <2>3, <2>4
    <2>6. QED BY <2>5
  <1>4. There(N)
    BY <1>3
  <1>5. QED BY <1>4 DEF There

\* What is counted in the module of prices.
LEMMA SameCounts ==
  ASSUME NEW S
  PROVE  /\ Pricing!IsFiniteSet(S) <=> IsFiniteSet(S)
         /\ Pricing!Cardinality(S) = Cardinality(S)
  BY DEF Pricing!IsFiniteSet, IsFiniteSet, Pricing!Cardinality, Cardinality

\* What constants are.
LEMMA PricingConstants ==
  ASSUME Pricing!Assumption
  PROVE  /\ Concurrent \subseteq Nat /\ IsFiniteSet(Concurrent) /\ Cardinality(Concurrent) \in Nat
         /\ LastPriced \in Nat /\ RegisterDays \subseteq 0 .. LastPriced /\ Points \subseteq 0 .. LastPriced
         /\ Nominal \in Nat
         /\ \A m \in Methods, rates \in Tariffs, n \in 1 .. Cardinality(Concurrent) :
              \A k \in 1 .. n : UnitCosts[<<m, rates, n>>][k] \in Nat
  <1>1. IsFiniteSet(Concurrent)
    BY SameCounts DEF Pricing!Assumption
  <1>2. Pricing!Cardinality(Concurrent) = Cardinality(Concurrent)
    BY SameCounts
  <1>3. QED BY <1>1, <1>2, FS_CardinalityType DEF Pricing!Assumption, Pricing!Days

\* The chunks of a billing divide its period.
LEMMA ChunksDivide ==
  ASSUME NEW ps, Len(ps) \in Nat, NEW ini \in Nat, NEW end \in Nat, ini <= end, NEW new, NEW point,
         \A i \in 1 .. Len(ps) : HasDates(ps[i], new, point)
  PROVE  DividePeriod(Pricing!get_chunks(ps, ini, end, new, point), Len(ps), ps, ini, end, new, point)
  <1> DEFINE IsAfter(g) == AreAfter(g, Len(ps), ps, ini, end, new, point)
  <1>1. PICK g : g = CHOOSE h : IsAfter(h)
    OBVIOUS
  <1>2. IsAfter(g)
    <2>1. \E h : IsAfter(h)
      BY AfterExists
    <2> HIDE DEF IsAfter
    <2>2. QED BY <1>1, <2>1
  <1>3. Pricing!get_chunks(ps, ini, end, new, point) = g[Len(ps)]
    BY <1>1 DEF Pricing!get_chunks, AreAfter
  <1>4. PICK N \in Nat : N = Len(ps)
    OBVIOUS
  <1> DEFINE Right(n) == DividePeriod(g[n], n, ps, ini, end, new, point)
             Wrong == {n \in 0 .. N : ~ Right(n)}
             Step(f, n) == IF n = 0 THEN {Pricing!Chunk(ini, end, << >>)}
                           ELSE UNION {Pricing!Split(c, ps[n], Pricing!Until(ps[n], new, point)) : c \in f[n - 1]}
  <1>5. ASSUME NEW n \in 0 .. N PROVE g[n] = Step(g, n)
    <2>1. g = [k \in 0 .. N |-> Step(g, k)]
      BY <1>2, <1>4 DEF AreAfter
    <2> HIDE DEF Step
    <2>2. QED BY <2>1
  <1>6. Right(0)
    <2>1. PICK c : c = Pricing!Chunk(ini, end, << >>)
      OBVIOUS
    <2>2. g[0] = {c}
      <3>1. 0 \in 0 .. N /\ Step(g, 0) = {c}
        BY <2>1
      <3> HIDE DEF Step
      <3>2. QED BY <1>5, <3>1
    <2>3. c.ini = ini /\ c.end = end /\ c.orders = << >>
      BY <2>1 DEF Pricing!Chunk
    <2>4. IsFiniteSet({c})
      BY FS_Singleton
    <2>5. IsChunk(c, 0, ps, ini, end)
      BY <2>3 DEF IsChunk
    <2>6. \A d \in ini .. end - 1 : Holds(c, d)
      BY <2>3 DEF Holds
    <2>7. \A d \in Nat : NamesThose(<< >>, ps, PresentOf(ps, 0, d, new, point))
      <3>1. ASSUME NEW d \in Nat PROVE PresentOf(ps, 0, d, new, point) = {}
        <4>1. 1 .. 0 = {}
          OBVIOUS
        <4>2. QED BY <4>1 DEF PresentOf
      <3>2. NamesThose(<< >>, ps, {})
        BY FS_EmptySet DEF NamesThose
      <3>3. QED BY <3>1, <3>2
    <2>8. QED BY <2>2, <2>3, <2>4, <2>5, <2>6, <2>7 DEF DividePeriod
  <1>7. ASSUME NEW n \in 0 .. N, n # N, Right(n) PROVE Right(n + 1)
    <2>1. n \in Nat /\ n + 1 \in 1 .. N /\ n + 1 \in 0 .. N /\ n + 1 # 0 /\ (n + 1) - 1 = n
      BY <1>7
    <2>2. g[n + 1] = UNION {Pricing!Split(c, ps[n + 1], Pricing!Until(ps[n + 1], new, point)) : c \in g[n]}
      BY <1>5, <2>1
    <2>3. HasDates(ps[n + 1], new, point)
      BY <1>4, <2>1
    <2>4. PICK C, taken : C = g[n] /\ taken = g[n + 1]
      OBVIOUS
    <2>5. /\ DividePeriod(C, n, ps, ini, end, new, point)
          /\ taken = UNION {Pricing!Split(c, ps[n + 1], Pricing!Until(ps[n + 1], new, point)) : c \in C}
      BY <1>7, <2>2, <2>4
    <2>6. DividePeriod(taken, n + 1, ps, ini, end, new, point)
      BY <2>1, <2>3, <2>5, OrderIsTaken
    <2>7. QED BY <2>4, <2>6
  <1> HIDE DEF Right
  <1>8. ASSUME Wrong # {} PROVE FALSE
    <2>1. PICK m \in Wrong : \A n \in Wrong : m <= n
      <3>1. Wrong \in SUBSET (0 .. N)
        OBVIOUS
      <3> HIDE DEF Wrong
      <3>2. Metrics!Min(Wrong) \in Wrong /\ \A x \in Wrong : Metrics!Min(Wrong) <= x
        BY <1>8, <3>1, LeastNumber
      <3>3. QED BY <3>2
    <2>2. m # 0
      BY <1>6
    <2>3. m - 1 \in 0 .. N /\ m - 1 # N /\ ~(m <= m - 1)
      BY <2>2
    <2>4. Right(m - 1)
      BY <2>1, <2>3
    <2>5. Right((m - 1) + 1)
      BY <1>7, <2>3, <2>4
    <2>6. QED BY <2>5
  <1>9. Right(N)
    BY <1>8
  <1>10. QED BY <1>3, <1>4, <1>9 DEF Right

\* Orders that are sorted are all different.
AllDiffer(ps) ==
  /\ Len(ps) \in Nat /\ DOMAIN ps = 1 .. Len(ps)
  /\ \A i, j \in 1 .. Len(ps) : ps[i] = ps[j] => i = j

LEMMA PositionOfOne ==
  ASSUME NEW ps, AllDiffer(ps), NEW i \in 1 .. Len(ps)
  PROVE  Pricing!Position(ps, ps[i]) = i
  BY DEF AllDiffer, Pricing!Position

\* A day has the price of the chunk that has it.
LEMMA DayOfChunk ==
  ASSUME NEW ps, AllDiffer(ps), NEW i \in 1 .. Len(ps), NEW d, NEW new, NEW point,
         NEW s, NamesThose(s, ps, PresentOf(ps, Len(ps), d, new, point)), DOMAIN s = 1 .. Len(s)
  PROVE  /\ (\E j \in DOMAIN s : s[j] = ps[i]) <=> i \in PresentOf(ps, Len(ps), d, new, point)
         /\ i \in PresentOf(ps, Len(ps), d, new, point) =>
              Pricing!DayPrice(ps[i], d, ps, new, point)
                = Pricing!Price(Len(s), Pricing!Position(s, ps[i]))
  <1>1. PICK T : T = PresentOf(ps, Len(ps), d, new, point)
    OBVIOUS
  <1>2. T \in SUBSET (1 .. Len(ps)) /\ T = Pricing!There(ps, d, new, point)
    BY <1>1 DEF PresentOf, Pricing!There, AllDiffer
  <1>3. /\ Len(s) = Cardinality(T)
        /\ \A k \in T : Place(T, k) \in DOMAIN s /\ s[Place(T, k)] = ps[k]
        /\ \A j \in DOMAIN s : \E k \in T : j = Place(T, k)
    BY <1>1 DEF NamesThose
  <1>4. \A j \in DOMAIN s : s[j] = ps[i] => i \in T /\ j = Place(T, i)
    <2> SUFFICES ASSUME NEW j \in DOMAIN s, s[j] = ps[i] PROVE i \in T /\ j = Place(T, i)
      OBVIOUS
    <2>1. PICK k \in T : j = Place(T, k)
      BY <1>3
    <2>2. ps[k] = ps[i] /\ k \in 1 .. Len(ps)
      BY <1>2, <1>3, <2>1
    <2>3. k = i
      BY <2>2 DEF AllDiffer
    <2>4. QED BY <2>1, <2>3
  <1>5. ASSUME i \in T
        PROVE  Pricing!DayPrice(ps[i], d, ps, new, point)
                 = Pricing!Price(Len(s), Pricing!Position(s, ps[i]))
    <2>1. Pricing!Position(s, ps[i]) = Place(T, i)
      BY <1>3, <1>4, <1>5 DEF Pricing!Position
    <2>2. Pricing!Position(ps, ps[i]) = i
      BY PositionOfOne
    <2>3. Pricing!DayPrice(ps[i], d, ps, new, point)
            = Pricing!Price(Cardinality(T), Cardinality({k \in T : k <= i}))
      <3>1. PICK first : first = {k \in T : k <= i}
        OBVIOUS
      <3>2. Pricing!DayPrice(ps[i], d, ps, new, point)
              = Pricing!Price(Pricing!Cardinality(T), Pricing!Cardinality(first))
        BY <1>2, <2>2, <3>1 DEF Pricing!DayPrice
      <3>3. QED BY <3>1, <3>2, SameCounts
    <2>4. QED BY <1>3, <2>1, <2>3 DEF Place
  <1>6. QED BY <1>1, <1>3, <1>4, <1>5

\* Units have prices.
LEMMA UnitsHavePrices ==
  ASSUME Pricing!Assumption, Pricing!TypeOK,
         NEW ps, NEW n, n <= Cardinality(Concurrent), NEW ini, NEW end, NEW c, IsChunk(c, n, ps, ini, end),
         n \in Nat, NEW o, Pricing!Has(c, o)
  PROVE  Pricing!Price(Len(c.orders), Pricing!Position(c.orders, o)) \in Nat
  <1>1. PICK s \in Seq(Concurrent) : s = c.orders
    BY DEF IsChunk
  <1>2. Len(s) \in Nat /\ Len(s) <= n /\ DOMAIN s = 1 .. Len(s)
    BY <1>1 DEF IsChunk
  <1>3. \E j \in DOMAIN s : s[j] = o
    BY <1>1 DEF Pricing!Has
  <1>4. Pricing!Position(s, o) \in 1 .. Len(s)
    BY <1>2, <1>3 DEF Pricing!Position
  <1>5. Cardinality(Concurrent) \in Nat
    BY PricingConstants
  <1>6. Len(s) \in 1 .. Cardinality(Concurrent)
    BY <1>2, <1>4, <1>5
  <1>7. rating \in Methods /\ tariff \in Tariffs
    BY DEF Pricing!TypeOK
  <1>8. UnitCosts[<<rating, tariff, Len(s)>>][Pricing!Position(s, o)] \in Nat
    BY <1>4, <1>6, <1>7, PricingConstants
  <1>9. QED BY <1>1, <1>8 DEF Pricing!Price

LEMMA SameTotals ==
  ASSUME NEW of, NEW S
  PROVE  Pricing!Total(of, S) = Metrics!Total(of, S)
  BY DEF Pricing!Total, Pricing!MapThenSumSet, Pricing!MapThenFoldSet,
         Metrics!Total, Metrics!MapThenSumSet, Metrics!MapThenFoldSet

\* The days of the period in which an order is there.
DaysIn(o, ini, end, new, point) ==
  {d \in ini .. end - 1 : registered[o] <= d /\ d < Pricing!Until(o, new, point)}
Span(c) == c.ini .. c.end - 1

\* The chunks of an order have the days it is there, at the price of each of them.
LEMMA ChunkOfOrder ==
  ASSUME Pricing!Assumption, Pricing!TypeOK,
         NEW ps, AllDiffer(ps), Len(ps) <= Cardinality(Concurrent),
         NEW ini \in Nat, NEW end \in Nat, NEW new, NEW point,
         NEW C, DividePeriod(C, Len(ps), ps, ini, end, new, point), NEW i \in 1 .. Len(ps),
         NEW o, o = ps[i],
         NEW f, \A d \in DaysIn(o, ini, end, new, point) : f[d] = Pricing!DayPrice(o, d, ps, new, point),
         NEW c \in C, Pricing!Has(c, o)
  PROVE  /\ Span(c) \subseteq DaysIn(o, ini, end, new, point)
         /\ \A d \in Span(c) : f[d] \in Nat
         /\ Metrics!Total(f, Span(c))
              = Pricing!Price(Len(c.orders), Pricing!Position(c.orders, o)) * (c.end - c.ini)
  <1>1. PICK price, s : price = Pricing!Price(Len(c.orders), Pricing!Position(c.orders, o)) /\ s = c.orders
    OBVIOUS
  <1>2. IsChunk(c, Len(ps), ps, ini, end) /\ Len(ps) \in Nat
    BY DEF DividePeriod, AllDiffer
  <1>3. price \in Nat
    BY <1>1, <1>2, UnitsHavePrices
  <1>4. /\ c.ini \in Nat /\ c.end \in Nat /\ ini <= c.ini /\ c.ini <= c.end /\ c.end <= end
        /\ DOMAIN s = 1 .. Len(s)
    BY <1>1, <1>2 DEF IsChunk
  <1>5. ASSUME NEW d \in Span(c)
        PROVE  d \in DaysIn(o, ini, end, new, point) /\ f[d] = price
    <2>1. d \in Nat /\ Holds(c, d) /\ d \in ini .. end - 1
      BY <1>4 DEF Span, Holds
    <2>2. NamesThose(s, ps, PresentOf(ps, Len(ps), d, new, point))
      BY <1>1, <2>1 DEF DividePeriod
    <2>3. /\ (\E j \in DOMAIN s : s[j] = ps[i]) <=> i \in PresentOf(ps, Len(ps), d, new, point)
          /\ i \in PresentOf(ps, Len(ps), d, new, point) =>
               Pricing!DayPrice(ps[i], d, ps, new, point)
                 = Pricing!Price(Len(s), Pricing!Position(s, ps[i]))
      BY <1>4, <2>2, DayOfChunk
    <2>4. i \in PresentOf(ps, Len(ps), d, new, point)
      BY <1>1, <2>3 DEF Pricing!Has
    <2>5. d \in DaysIn(o, ini, end, new, point)
      BY <2>1, <2>4 DEF PresentOf, DaysIn
    <2>6. QED BY <1>1, <2>3, <2>4, <2>5
  <1>6. Metrics!Total(f, c.ini .. c.end - 1) = price * (c.end - c.ini)
    <2>1. \A d \in c.ini .. c.end - 1 : f[d] = price
      BY <1>5 DEF Span
    <2>2. PICK a, b : a = c.ini /\ b = c.end
      OBVIOUS
    <2>3. a \in Nat /\ b \in Nat /\ a <= b /\ \A d \in a .. b - 1 : f[d] = price
      BY <1>4, <2>1, <2>2
    <2>4. Metrics!Total(f, a .. b - 1) = price * (b - a)
      BY <1>3, <2>3, TotalOfDays
    <2>5. QED BY <2>2, <2>4
  <1>7. QED BY <1>1, <1>3, <1>5, <1>6 DEF Span

\* What an order costs, chunk by chunk, is what its days cost.
LEMMA PricedOfDays ==
  ASSUME Pricing!Assumption, Pricing!TypeOK,
         NEW ps, AllDiffer(ps), Len(ps) <= Cardinality(Concurrent),
         NEW ini \in Nat, NEW end \in Nat, NEW new, NEW point,
         NEW C, DividePeriod(C, Len(ps), ps, ini, end, new, point), NEW i \in 1 .. Len(ps),
         NEW o, o = ps[i],
         NEW f, \A d \in DaysIn(o, ini, end, new, point) : f[d] = Pricing!DayPrice(o, d, ps, new, point)
  PROVE  /\ Pricing!Priced(o, C) = Metrics!Total(f, DaysIn(o, ini, end, new, point))
         /\ \A d \in DaysIn(o, ini, end, new, point) : f[d] \in Nat
  <1>1. PICK mine, D, w :
          /\ mine = {c \in C : Pricing!Has(c, o)} /\ D = DaysIn(o, ini, end, new, point)
          /\ w = [c \in mine |->
                   Pricing!Price(Len(c.orders), Pricing!Position(c.orders, o)) * (c.end - c.ini)]
    OBVIOUS
  <1>2. Pricing!Priced(o, C) = Metrics!Total(w, mine)
    BY <1>1, SameTotals DEF Pricing!Priced
  <1>3. IsFiniteSet(mine)
    <2>1. IsFiniteSet(C) /\ mine \in SUBSET C
      BY <1>1 DEF DividePeriod
    <2>2. QED BY <2>1, FS_Subset
  <1>4. ASSUME NEW c \in mine
        PROVE  /\ Span(c) \subseteq D /\ \A d \in Span(c) : f[d] \in Nat
               /\ w[c] = Metrics!Total(f, Span(c))
               /\ c.ini \in Nat /\ c.end \in Nat /\ IsFiniteSet(Span(c))
    <2>1. c \in C /\ Pricing!Has(c, o)
      BY <1>1
    <2>2. /\ Span(c) \subseteq DaysIn(o, ini, end, new, point)
          /\ \A d \in Span(c) : f[d] \in Nat
          /\ Metrics!Total(f, Span(c))
              = Pricing!Price(Len(c.orders), Pricing!Position(c.orders, o)) * (c.end - c.ini)
      BY <2>1, ChunkOfOrder
    <2>3. c.ini \in Nat /\ c.end \in Nat
      BY <2>1 DEF DividePeriod, IsChunk
    <2>4. IsFiniteSet(Span(c))
      <3>1. c.ini \in Int /\ c.end - 1 \in Int
        BY <2>3
      <3>2. IsFiniteSet(c.ini .. c.end - 1)
        BY <3>1, FS_Interval
      <3>3. QED BY <3>2 DEF Span
    <2>5. QED BY <1>1, <2>2, <2>3, <2>4
  <1>5. ASSUME NEW d \in D PROVE \E c \in mine : d \in Span(c)
    <2>1. d \in ini .. end - 1 /\ registered[o] <= d /\ d < Pricing!Until(o, new, point) /\ d \in Nat
      BY <1>1 DEF DaysIn
    <2>2. PICK c \in C : Holds(c, d)
      BY <2>1 DEF DividePeriod
    <2>3. PICK s : s = c.orders
      OBVIOUS
    <2>4. /\ NamesThose(s, ps, PresentOf(ps, Len(ps), d, new, point)) /\ s \in Seq(Concurrent)
          /\ c.ini \in Nat /\ c.end \in Nat
      BY <2>1, <2>2, <2>3 DEF DividePeriod, IsChunk
    <2>5. DOMAIN s = 1 .. Len(s)
      BY <2>4
    <2>6. i \in PresentOf(ps, Len(ps), d, new, point)
      BY <2>1 DEF PresentOf
    <2>7. \E j \in DOMAIN s : s[j] = ps[i]
      BY <2>4, <2>5, <2>6, DayOfChunk
    <2>8. c \in mine
      BY <1>1, <2>3, <2>7 DEF Pricing!Has
    <2>9. d \in Span(c)
      BY <2>1, <2>2, <2>4 DEF Holds, Span
    <2>10. QED BY <2>8, <2>9
  <1>6. ASSUME NEW c \in mine, NEW e \in mine, c # e PROVE Span(c) \cap Span(e) = {}
    <2> SUFFICES ASSUME NEW d \in Span(c), d \in Span(e) PROVE FALSE
      OBVIOUS
    <2>1. d \in Nat /\ Holds(c, d) /\ Holds(e, d)
      BY <1>4 DEF Span, Holds
    <2>2. c = e
      BY <1>1, <2>1 DEF DividePeriod
    <2>3. QED BY <1>6, <2>2
  <1> DEFINE SpanAll(s) == {d \in D : \E c \in s : d \in Span(c)}
             A == {s \in SUBSET mine : Metrics!Total(w, s) = Metrics!Total(f, SpanAll(s))}
  <1>7. ASSUME NEW s \in SUBSET mine, \A t \in SUBSET s : t # s => t \in A PROVE s \in A
    <2>1. IsFiniteSet(s)
      BY <1>3, FS_Subset
    <2>2. CASE s = {}
      <3>1. SpanAll(s) = {}
        BY <2>2
      <3>2. QED BY <2>2, <3>1, TotalOfNone
    <2>3. CASE s # {}
      <3>1. PICK x, t : x = First(s) /\ t = s \ {x} /\ x \in s
        BY <2>3, FirstIsIn
      <3>2. Metrics!Total(w, s) = w[x] + Metrics!Total(w, t)
        BY <2>1, <2>3, <3>1, TotalStep
      <3>3. Metrics!Total(w, t) = Metrics!Total(f, SpanAll(t))
        BY <1>7, <3>1
      <3>4. SpanAll(s) = Span(x) \cup SpanAll(t) /\ Span(x) \cap SpanAll(t) = {}
        <4>1. SpanAll(s) = Span(x) \cup SpanAll(t)
          BY <1>4, <3>1
        <4>2. \A c \in t : c \in mine /\ c # x
          BY <3>1
        <4>3. QED BY <1>6, <3>1, <4>1, <4>2
      <3>5. PICK U : U = SpanAll(t)
        OBVIOUS
      <3>6. \A d \in U : f[d] \in Nat
        BY <1>4, <3>1, <3>5
      <3>7. IsFiniteSet(U) /\ IsFiniteSet(Span(x))
        <4>1. IsFiniteSet(ini .. end - 1) /\ U \in SUBSET (ini .. end - 1)
          <5>1. end - 1 \in Int /\ ini \in Int
            OBVIOUS
          <5>2. IsFiniteSet(ini .. end - 1)
            BY <5>1, FS_Interval
          <5>3. U \subseteq D /\ D \subseteq ini .. end - 1
            BY <1>1, <3>5 DEF DaysIn
          <5>4. QED BY <5>2, <5>3
        <4>2. QED BY <1>4, <3>1, <4>1, FS_Subset
      <3>8. Metrics!Total(f, Span(x) \cup U) = Metrics!Total(f, Span(x)) + Metrics!Total(f, U)
        <4>1. PICK S : S = Span(x)
          OBVIOUS
        <4>2. IsFiniteSet(S) /\ S \cap U = {} /\ \A d \in S \cup U : f[d] \in Nat
          BY <1>4, <3>1, <3>4, <3>5, <3>6, <3>7, <4>1
        <4>3. Metrics!Total(f, S \cup U) = Metrics!Total(f, S) + Metrics!Total(f, U)
          BY <3>7, <4>2, TotalOfBoth
        <4>4. QED BY <4>1, <4>3
      <3>9. w[x] = Metrics!Total(f, Span(x))
        BY <1>4, <3>1
      <3> HIDE DEF SpanAll
      <3>10. Metrics!Total(w, s) = Metrics!Total(f, SpanAll(s))
        BY <3>2, <3>3, <3>4, <3>5, <3>8, <3>9
      <3>11. QED BY <3>10
    <2>4. QED BY <2>2, <2>3
  <1>8. mine \in A
    <2> HIDE DEF A
    <2>1. QED BY <1>3, <1>7, OfAllFiniteSets
  <1>9. SpanAll(mine) = D
    BY <1>5
  <1>10. Metrics!Total(w, mine) = Metrics!Total(f, D)
    BY <1>8, <1>9
  <1>11. \A d \in D : f[d] \in Nat
    BY <1>4, <1>5
  <1>12. QED BY <1>1, <1>2, <1>10, <1>11

LEMMA SameExtremes ==
  ASSUME NEW S
  PROVE  Pricing!Min(S) = Metrics!Min(S) /\ Pricing!Max(S) = Metrics!Max(S)
  BY DEF Pricing!Min, Metrics!Min, Pricing!Max, Metrics!Max

\* A line charges no more when the price of the order is lower.
LEMMA LinesGrow ==
  ASSUME NEW a \in Nat, NEW b \in Nat, a <= b, Nominal \in Nat, NEW ini \in Nat, NEW end \in Nat, ini <= end
  PROVE  /\ Pricing!LineTotal(a, ini, end) \in Int /\ Pricing!LineTotal(b, ini, end) \in Int
         /\ Pricing!LineTotal(a, ini, end) <= Pricing!LineTotal(b, ini, end)
  <1>1. PICK m : m = Nominal * (end - ini)
    OBVIOUS
  <1>2. m \in Int
    BY <1>1
  <1>3. /\ Pricing!Min({a, m}) = (IF a <= m THEN a ELSE m)
        /\ Pricing!Min({b, m}) = (IF b <= m THEN b ELSE m)
    BY <1>2, ExtremesOfTwoDays
  <1>4. /\ Pricing!LineTotal(a, ini, end) = IF a <= m THEN a ELSE m
        /\ Pricing!LineTotal(b, ini, end) = IF b <= m THEN b ELSE m
    BY <1>1, <1>3 DEF Pricing!LineTotal
  <1>5. QED BY <1>2, <1>4

\* An order was registered before it was cancelled, and before the day it is billed until.
DatesInOrder ==
  \A o \in Concurrent :
    /\ registered[o] <= cancelled[o]
    /\ billedUntil[o] # Pricing!Null => registered[o] <= billedUntil[o]

PricingInv == Pricing!TypeOK /\ DatesInOrder /\ PaidByDays

\* What an order that is billed is charged: no less than its days cost, and just that if
\* it was billed until no day of the period.
LEMMA LineIsRight ==
  ASSUME Pricing!Assumption, Pricing!TypeOK,
         NEW ps, AllDiffer(ps), Len(ps) <= Cardinality(Concurrent),
         NEW ini \in Nat, NEW end \in Nat, NEW new, NEW point,
         NEW C, DividePeriod(C, Len(ps), ps, ini, end, new, point), NEW i \in 1 .. Len(ps),
         NEW o \in new, o = ps[i], NEW a, a = Pricing!Start(o), NEW b, b = Pricing!BillingPoint(o, point),
         a \in Nat, b \in Nat, ini <= a, a <= b, b <= end, registered[o] \in Nat, registered[o] <= a,
         NEW price, price = Pricing!Priced(o, C)
  PROVE  /\ Pricing!LineTotal(price, a, b) \in Int /\ Pricing!ByDays(o, ps, new, point) \in Int
         /\ Pricing!ByDays(o, ps, new, point) <= Pricing!LineTotal(price, a, b)
         /\ (a = registered[o] \/ a = ini) =>
              Pricing!ByDays(o, ps, new, point) = Pricing!LineTotal(price, a, b)
  <1>1. PICK f, D, ds : /\ f = [d \in Nat |-> Pricing!DayPrice(o, d, ps, new, point)]
                        /\ D = DaysIn(o, ini, end, new, point) /\ ds = a .. b - 1
    OBVIOUS
  <1>2. D \subseteq Nat /\ \A d \in D : f[d] = Pricing!DayPrice(o, d, ps, new, point)
    BY <1>1 DEF DaysIn
  <1>3. price = Metrics!Total(f, D) /\ \A d \in D : f[d] \in Nat
    BY <1>1, <1>2, PricedOfDays
  <1>4. \A d : d \in D <=> d \in ini .. end - 1 /\ registered[o] <= d /\ d < b
    BY <1>1 DEF DaysIn, Pricing!Until
  <1>5. \A d : d \in ds <=> d \in a .. b - 1
    BY <1>1
  <1>6. ds \subseteq D
    BY <1>4, <1>5
  <1>7. IsFiniteSet(D)
    <2>1. IsFiniteSet(ini .. end - 1)
      <3>1. ini \in Int /\ end - 1 \in Int
        OBVIOUS
      <3>2. QED BY <3>1, FS_Interval
    <2>2. D \in SUBSET (ini .. end - 1)
      BY <1>4
    <2>3. QED BY <2>1, <2>2, FS_Subset
  <1>8. IsFiniteSet(ds)
    BY <1>6, <1>7, FS_Subset
  <1>9. PICK raw : raw = Metrics!Total(f, ds)
    OBVIOUS
  <1>10. raw <= price /\ raw \in Nat /\ price \in Nat
    <2>1. raw <= price
      BY <1>3, <1>6, <1>7, <1>9, TotalOfFewer
    <2>2. price \in Nat
      BY <1>3, <1>7, TotalIsNat
    <2>3. \A d \in ds : f[d] \in Nat
      BY <1>3, <1>6
    <2>4. raw \in Nat
      BY <1>8, <1>9, <2>3, TotalIsNat
    <2>5. QED BY <2>1, <2>2, <2>4
  <1>11. Pricing!ByDays(o, ps, new, point) = Pricing!LineTotal(raw, a, b)
    <2>1. PICK g : g = [d \in ds |-> Pricing!DayPrice(o, d, ps, new, point)]
      OBVIOUS
    <2>2. \A d \in ds : g[d] = f[d]
      BY <1>2, <1>6, <2>1
    <2>3. Metrics!Total(g, ds) = raw
      BY <1>8, <1>9, <2>2, TotalOfSame
    <2>4. Pricing!Total(g, ds) = raw
      BY <2>3, SameTotals
    <2>5. Pricing!ByDays(o, ps, new, point) = Pricing!LineTotal(Pricing!Total(g, ds), a, b)
      BY <1>1, <2>1 DEF Pricing!ByDays
    <2>6. QED BY <2>4, <2>5
  <1>12. (a = registered[o] \/ a = ini) => ds = D
    <2>1. ASSUME a = registered[o] \/ a = ini, NEW d \in D PROVE d \in ds
      BY <1>4, <1>5, <2>1
    <2>2. QED BY <1>6, <2>1
  <1>13. Nominal \in Nat
    BY PricingConstants
  <1>14. /\ Pricing!LineTotal(raw, a, b) \in Int /\ Pricing!LineTotal(price, a, b) \in Int
         /\ Pricing!LineTotal(raw, a, b) <= Pricing!LineTotal(price, a, b)
    BY <1>10, <1>13, LinesGrow
  <1>15. QED BY <1>3, <1>9, <1>11, <1>12, <1>14

\* The dates of an order that is billed.
LEMMA DatesOfBilled ==
  ASSUME Pricing!Assumption, Pricing!TypeOK, DatesInOrder,
         NEW new \in SUBSET Concurrent, NEW point \in Points, Pricing!Bill(new, point), NEW o \in new
  PROVE  /\ Pricing!Start(o) \in 0 .. LastPriced /\ Pricing!BillingPoint(o, point) \in 0 .. LastPriced
         /\ registered[o] \in Nat /\ registered[o] <= Pricing!Start(o)
         /\ Pricing!Start(o) <= Pricing!BillingPoint(o, point)
         /\ billedUntil[o] = Pricing!Null => Pricing!Start(o) = registered[o]
         /\ billedUntil[o] # Pricing!Null => Pricing!Start(o) = billedUntil[o]
  <1>1. /\ o \in Pricing!Chosen(new, point) /\ registered[o] <= billDay /\ point >= billDay
    BY DEF Pricing!Bill
  <1>2. billedUntil[o] < Pricing!BillingPoint(o, point)
    BY <1>1 DEF Pricing!Chosen
  <1>3. LastPriced \in Nat /\ point \in 0 .. LastPriced
    BY PricingConstants
  <1>4. /\ registered[o] \in 0 .. LastPriced /\ cancelled[o] \in 0 .. LastPriced + 1
        /\ billedUntil[o] \in 0 .. LastPriced \/ billedUntil[o] = Pricing!Null
        /\ billDay \in 0 .. LastPriced
    BY DEF Pricing!TypeOK, Pricing!Days, Pricing!Forever
  <1>5. /\ registered[o] <= cancelled[o]
        /\ billedUntil[o] # Pricing!Null => registered[o] <= billedUntil[o]
    BY DEF DatesInOrder
  <1>6. Pricing!BillingPoint(o, point) = IF point <= cancelled[o] THEN point ELSE cancelled[o]
    BY <1>3, <1>4, ExtremesOfTwoDays DEF Pricing!BillingPoint
  <1>7. Pricing!Start(o) = IF billedUntil[o] = Pricing!Null THEN registered[o] ELSE billedUntil[o]
    BY DEF Pricing!Start
  <1>8. QED BY <1>1, <1>2, <1>3, <1>4, <1>5, <1>6, <1>7

\* The orders of a billing, sorted.
LEMMA SortedOrders ==
  ASSUME Pricing!Assumption, NEW S \in SUBSET Concurrent, NEW ps \in Pricing!Sorted(S)
  PROVE  /\ AllDiffer(ps) /\ Len(ps) <= Cardinality(Concurrent)
         /\ \A i \in 1 .. Len(ps) : ps[i] \in S
  <1>1. PICK n : n = Cardinality(S)
    OBVIOUS
  <1>2. n \in Nat /\ n <= Cardinality(Concurrent)
    BY <1>1, PricingConstants, FS_Subset, FS_CardinalityType
  <1>3. ps \in [1 .. n -> S] /\ \A i, j \in 1 .. n : ps[i] = ps[j] => i = j
    BY <1>1, SameCounts DEF Pricing!Sorted, Pricing!IsInjective
  <1>4. Len(ps) = n /\ DOMAIN ps = 1 .. n
    BY <1>2, <1>3
  <1>5. QED BY <1>2, <1>3, <1>4 DEF AllDiffer

\* What a billing leaves of an order.
LEMMA BillStep ==
  ASSUME Pricing!Assumption, PricingInv,
         NEW new \in SUBSET Concurrent, NEW point \in Points, Pricing!Bill(new, point)
  PROVE  PricingInv'
  <1>1. Pricing!TypeOK /\ DatesInOrder /\ PaidByDays
    BY DEF PricingInv
  <1>2. PICK ini, end : /\ ini = Pricing!Min({Pricing!Start(o) : o \in new})
                        /\ end = Pricing!Max({Pricing!BillingPoint(o, point) : o \in new})
    OBVIOUS
  <1>3. PICK ps \in Pricing!Sorted(new \cup Pricing!PricingOrders(ini, end)) :
          LET chunks == Pricing!get_chunks(ps, ini, end, new, point)
              lines == {o \in new : \E c \in chunks : Pricing!Has(c, o)}
          IN /\ excess' = [o \in Concurrent |->
                  IF o \in lines
                  THEN excess[o] - Pricing!ByDays(o, ps, new, point)
                         + Pricing!LineTotal(Pricing!Priced(o, chunks), Pricing!Start(o),
                                             Pricing!BillingPoint(o, point))
                  ELSE excess[o]]
             /\ billedUntil' = [o \in Concurrent |->
                  IF o \in lines THEN Pricing!BillingPoint(o, point) ELSE billedUntil[o]]
    BY <1>2 DEF Pricing!Bill
  <1>4. /\ new # {} /\ repriced' = repriced \cup {o \in new : billedUntil[o] > ini}
        /\ UNCHANGED <<billDay, rating, tariff, registered, cancelled>>
    BY <1>2 DEF Pricing!Bill
  <1>5. PICK chunks : chunks = Pricing!get_chunks(ps, ini, end, new, point)
    OBVIOUS
  <1>6. PICK lines : lines = {o \in new : \E c \in chunks : Pricing!Has(c, o)}
    OBVIOUS
  <1>7. /\ excess' = [o \in Concurrent |->
              IF o \in lines
              THEN excess[o] - Pricing!ByDays(o, ps, new, point)
                     + Pricing!LineTotal(Pricing!Priced(o, chunks), Pricing!Start(o),
                                         Pricing!BillingPoint(o, point))
              ELSE excess[o]]
        /\ billedUntil' = [o \in Concurrent |->
              IF o \in lines THEN Pricing!BillingPoint(o, point) ELSE billedUntil[o]]
    BY <1>3, <1>5, <1>6
  <1>8. LastPriced \in Nat
    BY PricingConstants
  <1>9. ASSUME NEW o \in new
        PROVE  /\ Pricing!Start(o) \in 0 .. LastPriced /\ Pricing!BillingPoint(o, point) \in 0 .. LastPriced
               /\ registered[o] \in Nat /\ registered[o] <= Pricing!Start(o)
               /\ Pricing!Start(o) <= Pricing!BillingPoint(o, point)
               /\ billedUntil[o] = Pricing!Null => Pricing!Start(o) = registered[o]
               /\ billedUntil[o] # Pricing!Null => Pricing!Start(o) = billedUntil[o]
    BY <1>1, <1>9, DatesOfBilled
  <1>10. /\ ini \in Nat /\ end \in Nat /\ ini <= end
         /\ \A o \in new : ini <= Pricing!Start(o) /\ Pricing!BillingPoint(o, point) <= end
    <2>1. PICK starts, ends : /\ starts = {Pricing!Start(o) : o \in new}
                              /\ ends = {Pricing!BillingPoint(o, point) : o \in new}
      OBVIOUS
    <2>2. /\ starts \in SUBSET (0 .. LastPriced) /\ starts # {}
          /\ ends \in SUBSET (0 .. LastPriced) /\ ends # {}
      BY <1>4, <1>9, <2>1
    <2>3. ini \in starts /\ \A x \in starts : ini <= x
      BY <1>2, <1>8, <2>1, <2>2, LeastNumber, SameExtremes
    <2>4. end \in ends /\ \A x \in ends : x <= end
      BY <1>2, <1>8, <2>1, <2>2, GreatestNumber, SameExtremes
    <2>5. \A o \in new : ini <= Pricing!Start(o) /\ Pricing!BillingPoint(o, point) <= end
      BY <2>1, <2>3, <2>4
    <2>6. PICK o \in new : TRUE
      BY <1>4
    <2>7. ini \in Nat /\ end \in Nat
      BY <2>2, <2>3, <2>4
    <2>8. ini <= end
      BY <1>9, <2>5, <2>6, <2>7
    <2>9. QED BY <2>5, <2>7, <2>8
  <1>11. /\ AllDiffer(ps) /\ Len(ps) <= Cardinality(Concurrent) /\ Len(ps) \in Nat
         /\ \A i \in 1 .. Len(ps) : ps[i] \in new \cup Pricing!PricingOrders(ini, end)
    <2>1. new \cup Pricing!PricingOrders(ini, end) \in SUBSET Concurrent
      BY DEF Pricing!PricingOrders
    <2>2. QED BY <2>1, SortedOrders DEF AllDiffer
  <1>12. ASSUME NEW i \in 1 .. Len(ps) PROVE HasDates(ps[i], new, point)
    <2>1. PICK o : o = ps[i]
      OBVIOUS
    <2>2. CASE o \in new
      <3>1. Pricing!Until(o, new, point) = Pricing!BillingPoint(o, point)
        BY <2>2 DEF Pricing!Until
      <3>2. Pricing!BillingPoint(o, point) \in Nat /\ registered[o] \in Nat
            /\ registered[o] <= Pricing!BillingPoint(o, point)
        BY <1>9, <2>2
      <3>3. QED BY <2>1, <2>2, <3>1, <3>2 DEF HasDates
    <2>3. CASE o \notin new
      <3>1. Pricing!Until(o, new, point) = billedUntil[o] /\ o \in Concurrent
        BY <1>11, <2>1, <2>3 DEF Pricing!Until, Pricing!PricingOrders
      <3>2. registered[o] \in Nat /\ (billedUntil[o] \in Nat \/ billedUntil[o] = Pricing!Null)
        BY <1>1, <1>8, <3>1 DEF Pricing!TypeOK, Pricing!Days
      <3>3. billedUntil[o] # Pricing!Null => registered[o] <= billedUntil[o]
        BY <1>1, <3>1 DEF DatesInOrder
      <3>4. QED BY <2>1, <3>1, <3>2, <3>3 DEF HasDates
    <2>4. QED BY <2>2, <2>3
  <1>13. DividePeriod(chunks, Len(ps), ps, ini, end, new, point)
    BY <1>5, <1>10, <1>11, <1>12, ChunksDivide
  <1>14. ASSUME NEW o \in lines
         PROVE  /\ o \in new
                /\ excess'[o] \in Int /\ excess[o] \in Int /\ excess[o] <= excess'[o]
                /\ excess[o] < excess'[o] => o \in repriced'
    <2>1. PICK c \in chunks : Pricing!Has(c, o) /\ o \in new
      BY <1>6
    <2>2. PICK s : s = c.orders
      OBVIOUS
    <2>3. PICK j \in DOMAIN s : s[j] = o
      BY <2>1, <2>2 DEF Pricing!Has
    <2>4. \A k \in DOMAIN s : \E i \in 1 .. Len(ps) : s[k] = ps[i]
      BY <1>13, <2>2 DEF DividePeriod, IsChunk
    <2>5. PICK i \in 1 .. Len(ps) : o = ps[i]
      BY <2>3, <2>4
    <2>6. PICK a, b, price, line, days :
            /\ a = Pricing!Start(o) /\ b = Pricing!BillingPoint(o, point) /\ price = Pricing!Priced(o, chunks)
            /\ line = Pricing!LineTotal(price, a, b) /\ days = Pricing!ByDays(o, ps, new, point)
      OBVIOUS
    <2>7. /\ a \in Nat /\ b \in Nat /\ ini <= a /\ a <= b /\ b <= end
          /\ registered[o] \in Nat /\ registered[o] <= a
      BY <1>9, <1>10, <2>1, <2>6
    <2>8. /\ line \in Int /\ days \in Int /\ days <= line
          /\ (a = registered[o] \/ a = ini) => days = line
      BY <1>1, <1>10, <1>11, <1>13, <2>1, <2>5, <2>6, <2>7, LineIsRight
    <2>9. o \in Concurrent /\ excess[o] \in Int
      BY <1>1, <2>1 DEF Pricing!TypeOK
    <2>10. excess'[o] = excess[o] - days + line
      BY <1>7, <2>6, <2>9
    <2>11. ASSUME excess[o] < excess'[o] PROVE o \in repriced'
      <3>1. days # line
        BY <2>8, <2>9, <2>10, <2>11
      <3>2. a # registered[o] /\ a # ini
        BY <2>8, <3>1
      <3>3. billedUntil[o] = a
        BY <1>9, <2>1, <2>6, <3>2
      <3>4. billedUntil[o] > ini
        BY <1>10, <2>7, <3>2, <3>3
      <3>5. QED BY <1>4, <2>1, <3>4
    <2>12. excess'[o] \in Int /\ excess[o] <= excess'[o]
      BY <2>8, <2>9, <2>10
    <2>13. QED BY <2>1, <2>9, <2>11, <2>12
  <1>15. ASSUME NEW o \in Concurrent, o \notin lines
         PROVE  excess'[o] = excess[o] /\ billedUntil'[o] = billedUntil[o]
    BY <1>7, <1>15
  <1>16. PaidByDays'
    <2>1. ASSUME NEW o \in Concurrent PROVE excess'[o] >= 0 /\ (excess'[o] > 0 => o \in repriced')
      <3>1. excess[o] \in Int /\ excess[o] >= 0 /\ (excess[o] > 0 => o \in repriced)
        BY <1>1 DEF PaidByDays, Pricing!PaidByDays, Pricing!TypeOK
      <3>2. CASE o \in lines
        <4>1. /\ excess'[o] \in Int /\ excess[o] <= excess'[o]
              /\ excess[o] < excess'[o] => o \in repriced'
          BY <1>14, <3>2
        <4>2. QED BY <1>4, <3>1, <4>1
      <3>3. CASE o \notin lines
        BY <1>4, <1>15, <3>1, <3>3
      <3>4. QED BY <3>2, <3>3
    <2>2. QED BY <2>1 DEF PaidByDays, Pricing!PaidByDays
  <1>17. DatesInOrder'
    <2>1. ASSUME NEW o \in Concurrent
          PROVE  billedUntil'[o] # Pricing!Null => registered[o] <= billedUntil'[o]
      <3>1. CASE o \in lines
        <4>1. o \in new /\ billedUntil'[o] = Pricing!BillingPoint(o, point)
          BY <1>7, <1>14, <3>1
        <4>2. registered[o] <= Pricing!BillingPoint(o, point)
          BY <1>8, <1>9, <4>1
        <4>3. QED BY <4>1, <4>2
      <3>2. CASE o \notin lines
        BY <1>1, <1>15, <3>2 DEF DatesInOrder
      <3>3. QED BY <3>1, <3>2
    <2>2. QED BY <1>1, <1>4, <2>1 DEF DatesInOrder, Pricing!Null
  <1>18. Pricing!TypeOK'
    <2>1. excess' \in [Concurrent -> Int]
      <3>1. \A o \in Concurrent : excess'[o] \in Int
        BY <1>1, <1>14, <1>15 DEF Pricing!TypeOK
      <3>2. excess' = [o \in Concurrent |-> excess'[o]]
        BY <1>7
      <3>3. QED BY <3>1, <3>2
    <2>2. billedUntil' \in [Concurrent -> Pricing!Days \cup {Pricing!Null}]
      <3>1. ASSUME NEW o \in Concurrent PROVE billedUntil'[o] \in Pricing!Days \cup {Pricing!Null}
        <4>1. CASE o \in lines
          BY <1>7, <1>9, <1>14, <4>1 DEF Pricing!Days
        <4>2. CASE o \notin lines
          BY <1>1, <1>15, <4>2 DEF Pricing!TypeOK
        <4>3. QED BY <4>1, <4>2
      <3>2. billedUntil' = [o \in Concurrent |-> billedUntil'[o]]
        BY <1>7
      <3>3. QED BY <3>1, <3>2
    <2>3. repriced' \subseteq Concurrent
      BY <1>1, <1>4 DEF Pricing!TypeOK
    <2>4. QED BY <1>1, <1>4, <2>1, <2>2, <2>3 DEF Pricing!TypeOK, Pricing!Days, Pricing!Null, Pricing!Forever
  <1>19. QED BY <1>16, <1>17, <1>18 DEF PricingInv

\* The invariant is inductive: orders begin with nothing billed, and days and
\* cancellations change no price.
LEMMA PricingInvIsInductive ==
  ASSUME Pricing!Assumption
  PROVE  /\ Pricing!Init => PricingInv
         /\ PricingInv /\ [Pricing!Next]_(Pricing!vars) => PricingInv'
  <1>1. ASSUME Pricing!Init PROVE PricingInv
    <2>1. LastPriced \in Nat /\ RegisterDays \subseteq 0 .. LastPriced
      BY PricingConstants
    <2>2. /\ \A o \in Concurrent : registered[o] \in 0 .. LastPriced
          /\ registered = [o \in Concurrent |-> registered[o]]
          /\ cancelled = [o \in Concurrent |-> LastPriced + 1]
          /\ billedUntil = [o \in Concurrent |-> Pricing!Null]
          /\ excess = [o \in Concurrent |-> 0] /\ repriced = {}
          /\ billDay = 0 /\ rating \in Methods /\ tariff \in Tariffs
      BY <1>1, <2>1 DEF Pricing!Init, Pricing!Forever
    <2>3. Pricing!TypeOK
      <3>1. registered \in [Concurrent -> 0 .. LastPriced]
        BY <2>2
      <3>2. cancelled \in [Concurrent -> 0 .. LastPriced + 1]
        BY <2>1, <2>2
      <3>3. billedUntil \in [Concurrent -> (0 .. LastPriced) \cup {Pricing!Null}]
        BY <2>2
      <3>4. excess \in [Concurrent -> Int] /\ repriced \subseteq Concurrent /\ billDay \in 0 .. LastPriced
        BY <2>1, <2>2
      <3>5. QED BY <2>2, <3>1, <3>2, <3>3, <3>4 DEF Pricing!TypeOK, Pricing!Days, Pricing!Forever
    <2>4. DatesInOrder
      <3>1. ASSUME NEW o \in Concurrent
            PROVE  registered[o] <= cancelled[o] /\ billedUntil[o] = Pricing!Null
        BY <2>1, <2>2
      <3>2. QED BY <3>1 DEF DatesInOrder
    <2>5. PaidByDays
      BY <1>1 DEF Pricing!Init, PaidByDays, Pricing!PaidByDays
    <2>6. QED BY <2>3, <2>4, <2>5 DEF PricingInv
  <1>2. ASSUME PricingInv, Pricing!NewDay PROVE PricingInv'
    <2>1. LastPriced \in Nat
      BY PricingConstants
    <2>2. Pricing!TypeOK'
      BY <1>2, <2>1 DEF PricingInv, Pricing!NewDay, Pricing!TypeOK, Pricing!Days, Pricing!Forever, Pricing!Null
    <2>3. DatesInOrder' /\ PaidByDays'
      BY <1>2 DEF PricingInv, Pricing!NewDay, DatesInOrder, PaidByDays, Pricing!PaidByDays, Pricing!Null
    <2>4. QED BY <2>2, <2>3 DEF PricingInv
  <1>3. ASSUME PricingInv, NEW o \in Concurrent, Pricing!Cancel(o) PROVE PricingInv'
    <2>1. LastPriced \in Nat
      BY PricingConstants
    <2>2. Pricing!TypeOK /\ DatesInOrder /\ PaidByDays
      BY <1>3 DEF PricingInv
    <2>3. /\ cancelled' = [cancelled EXCEPT ![o] = billDay] /\ registered[o] <= billDay
          /\ UNCHANGED <<billDay, rating, tariff, registered, billedUntil, excess, repriced>>
      BY <1>3 DEF Pricing!Cancel
    <2>4. Pricing!TypeOK'
      BY <2>1, <2>2, <2>3 DEF Pricing!TypeOK, Pricing!Days, Pricing!Forever, Pricing!Null
    <2>5. DatesInOrder'
      BY <2>2, <2>3 DEF DatesInOrder, Pricing!Null, Pricing!TypeOK
    <2>6. PaidByDays'
      BY <2>2, <2>3 DEF PaidByDays, Pricing!PaidByDays
    <2>7. QED BY <2>4, <2>5, <2>6 DEF PricingInv
  <1>4. ASSUME PricingInv, UNCHANGED Pricing!vars PROVE PricingInv'
    BY <1>4 DEF PricingInv, Pricing!vars, Pricing!TypeOK, DatesInOrder, PaidByDays, Pricing!PaidByDays,
                Pricing!Days, Pricing!Forever, Pricing!Null
  <1>5. QED BY <1>1, <1>2, <1>3, <1>4, BillStep DEF Pricing!Next

\* bill_concurrent_orders, get_chunks: however the orders of an account divide the period
\* of a bill, each pays for its days what the rates say of as many orders as there are
\* on each, and never less; only orders that were billed until after the period began pay more.
THEOREM OrdersPayByDays ==
  ASSUME Pricing!Assumption
  PROVE  Pricing!Spec => []PaidByDays
  <1>1. Pricing!Init => PricingInv
    BY PricingInvIsInductive
  <1>2. PricingInv /\ [Pricing!Next]_(Pricing!vars) => PricingInv'
    BY PricingInvIsInductive
  <1>3. PricingInv => PaidByDays
    BY DEF PricingInv
  <1>4. QED BY <1>1, <1>2, <1>3, PTL DEF Pricing!Spec
================================================================================
