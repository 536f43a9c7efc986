-------------------------- MODULE OrderCompensation --------------------------
(***************************************************************************)
(* The billing of the orders of an account for one prepaid service that    *)
(* compensates cancellations (orchestra.contrib.services, .orders): an     *)
(* order cancelled before the day it is billed until has days of credit,   *)
(* which discount the same days from other orders when these are billed.   *)
(*                                                                         *)
(* Dates are natural numbers.  Prices, which are the nominal ones here,    *)
(* the proportional size of a period and the amounts of lines are          *)
(* abstracted to the days they stand for.  A billing is one request, in    *)
(* one database transaction; the passing of days and the cancellations     *)
(* that others do meanwhile are left out.                                  *)
(***************************************************************************)
EXTENDS Integers, Sequences, FiniteSets, Bags, FiniteSetsExt

CONSTANTS
  Orders,       \* the identifiers of the orders, which are numbers
  LastDay,      \* bound of the days that pass
  RegisterDays, \* the days orders may be registered on
  Points        \* the days orders may be billed until

ASSUME OrdersAssumption ==
  /\ Orders \subseteq Nat /\ IsFiniteSet(Orders)
  /\ LastDay \in Nat
  /\ RegisterDays \subseteq 0 .. LastDay /\ Points \subseteq 0 .. LastDay

VARIABLES
  today,
  registered, cancelled, billedUntil, \* the dates of each order
  charged,    \* charged[o][d]: how many lines charged day d of the order
  credited,   \* credited[g][d]: how many lines were discounted day d of giver g
  phase,      \* what the request of billing is doing
  newUntil,   \* order.new_billed_until of the orders that are billed
  waiting,    \* the orders that did not get their compensations yet
  receiver,   \* the order that is getting them
  pieces,     \* remaining_interval: what of the receiver is not compensated
  applied,    \* applied_compensations: for each one applied, where it applies
  pending,    \* ordered_intersections: the credits that may still be applied
  rest,       \* remaining_compensations: what is left of the applied ones
  used,       \* order._compensations of each order that is billed
  givenUntil  \* new_billed_until of each giver of a used credit

dates == <<registered, cancelled, billedUntil>>
history == <<charged, credited>>
matching == <<receiver, pieces, applied, rest>>
batch == <<newUntil, waiting, pending, used, givenUntil>>
vars == <<today, dates, history, phase, matching, batch>>

Days == 0 .. LastDay
Forever == LastDay + 1  \* datetime.date.max, and the date of what never happens
Null == -1
NoOrder == -1

Billed(o) == newUntil[o] # Null

-----------------------------------------------------------------------------
(* Intervals of days, from ini to the day before end. *)

Interval(ini, end, o) == [ini |-> ini, end |-> end, order |-> o]
Intervals == [ini : 0 .. Forever, end : 0 .. Forever, order : Orders]
DaysOf(i) == i.ini .. (i.end - 1)
AllDays(S) == UNION {DaysOf(i) : i \in S}

Least(a, b) == IF a < b THEN a ELSE b
Greatest(a, b) == IF a > b THEN a ELSE b

Meet(i, j) == Interval(Greatest(i.ini, j.ini), Least(i.end, j.end), i.order)

\* A slip: what follows the other interval starts where it always did.
MinusUncut(i, j) ==
  {x \in {Interval(i.ini, Least(i.end, j.ini), i.order)} : i.ini < j.ini}
    \cup {x \in {i} : i.end > j.end}

Minus(i, j) ==
  {x \in {Interval(i.ini, Least(i.end, j.ini), i.order)} : i.ini < j.ini}
    \cup {x \in {Interval(Greatest(i.ini, j.end), i.end, i.order)} : i.end > j.end}

\* How many days of the pieces a credit covers; the pieces do not overlap.
Overlap(c) == Cardinality(DaysOf(c) \cap AllDays(pieces))

\* What a credit leaves when it is applied to some intervals: what each of
\* them leaves of it, put together.
Leftover(c, S) ==
  [x \in UNION {Minus(c, i) : i \in S} |-> Cardinality({i \in S : x \in Minus(c, i)})]

-----------------------------------------------------------------------------
Init ==
  /\ today = 0
  /\ registered \in [Orders -> RegisterDays]
  /\ cancelled = [o \in Orders |-> Forever]
  /\ billedUntil = [o \in Orders |-> Null]
  /\ charged = [o \in Orders |-> [d \in Days |-> 0]]
  /\ credited = [o \in Orders |-> [d \in Days |-> 0]]
  /\ phase = "idle"
  /\ receiver = NoOrder /\ pieces = {} /\ applied = <<>> /\ rest = EmptyBag
  /\ newUntil = [o \in Orders |-> Null]
  /\ waiting = {} /\ pending = EmptyBag
  /\ used = [o \in Orders |-> <<>>]
  /\ givenUntil = [o \in Orders |-> Null]

NewDay ==
  /\ phase = "idle" /\ today < LastDay
  /\ today' = today + 1
  /\ UNCHANGED <<dates, history, phase, matching, batch>>

Cancel(o) ==
  /\ phase = "idle"
  /\ registered[o] <= today /\ cancelled[o] = Forever
  /\ cancelled' = [cancelled EXCEPT ![o] = today]
  /\ UNCHANGED <<today, registered, billedUntil, history, phase, matching, batch>>

\* A slip: the lines of an order start again on its registration.
StartAtRegistration(o) == registered[o]

\* The first day of an order that is not billed.
Start(o) == IF billedUntil[o] = Null THEN registered[o] ELSE billedUntil[o]

Cancelled(o) == billedUntil[o] # Null /\ cancelled[o] < billedUntil[o]

BillingPoint(o, point) == Least(point, cancelled[o])

Credit(g) == Interval(cancelled[g], billedUntil[g], g)

\* Cancelled orders whose period meets the one that is billed.
Givers(ini, end) ==
  {g \in Orders : Cancelled(g) /\ billedUntil[g] > ini /\ registered[g] < end}

\* Bill orders until a day that is fixed and not in the past.  Orders that are
\* cancelled and billed, or billed until then, are left out.
StartBilling(S, point) ==
  LET Chosen == {o \in S : ~ Cancelled(o) /\ billedUntil[o] < BillingPoint(o, point)}
      first == Min({Start(o) : o \in Chosen})
      last == Max({BillingPoint(o, point) : o \in Chosen})
  IN /\ phase = "idle"
     /\ \A o \in S : registered[o] <= today
     /\ point >= today
     /\ Chosen # {}
     /\ phase' = "billing"
     /\ newUntil' = [o \in Orders |-> IF o \in Chosen THEN BillingPoint(o, point) ELSE Null]
     /\ waiting' = Chosen
     /\ pending' = SetToBag({Credit(g) : g \in Givers(first, last)})
     /\ UNCHANGED <<today, dates, history, matching, used, givenUntil>>

-----------------------------------------------------------------------------
(* Orders get their compensations one by one, in the order of              *)
(* cmp_billed_until_or_registered_on.  Where that comparison is not an     *)
(* order (it may have cycles), the sort may leave any of them first.       *)

Before(a, b) ==
  IF billedUntil[a] = billedUntil[b] THEN a < b
  ELSE IF billedUntil[a] # Null /\ billedUntil[b] # Null THEN billedUntil[b] < billedUntil[a]
  ELSE IF billedUntil[a] # Null THEN registered[b] < billedUntil[a]
  ELSE billedUntil[b] < registered[a]

IsFirst(o) ==
  \/ \A w \in waiting : ~ Before(w, o)
  \/ \A v \in waiting : \E w \in waiting : Before(w, v)

\* A slip: an order that was cancelled is compensated for ever.
PeriodUncut(o) == Interval(Start(o), Forever, o)
Period(o) == Interval(Start(o), cancelled[o], o)

NextReceiver(o) ==
  /\ phase = "billing" /\ o \in waiting /\ IsFirst(o)
  /\ phase' = "matching"
  /\ receiver' = o
  /\ waiting' = waiting \ {o}
  /\ pieces' = {Period(o)}
  /\ UNCHANGED <<today, dates, history, applied, rest, newUntil, pending, used, givenUntil>>

\* Apply the credit that covers most of what is not compensated (any of them
\* when several do).
ApplyCompensation(c) ==
  /\ phase = "matching"
  /\ c \in BagToSet(pending)
  /\ Overlap(c) > 0
  /\ \A d \in BagToSet(pending) : Overlap(d) <= Overlap(c)
  /\ pending' = pending (-) SetToBag({c})
  /\ rest' = rest (+) Leftover(c, pieces)
  /\ applied' = Append(applied, {m \in {Meet(c, i) : i \in pieces} : m.ini < m.end})
  /\ pieces' = UNION {Minus(i, c) : i \in pieces}
  /\ UNCHANGED <<today, dates, history, phase, receiver, newUntil, waiting, used, givenUntil>>

Members(s) == UNION {s[i] : i \in DOMAIN s}
GivenBy(g, S) == {c.ini : c \in {c \in S : c.order = g}}

\* A slip: what a giver gave to the last receiver hides what it gave before.
GiveUntilLast(S) ==
  [g \in Orders |-> IF GivenBy(g, S) = {} THEN givenUntil[g] ELSE Min(GivenBy(g, S))]

\* A giver is billed until the first day it gave.
GiveUntil(S) ==
  [g \in Orders |->
    IF GivenBy(g, S) = {} THEN givenUntil[g]
    ELSE Min(GivenBy(g, S) \cup (IF givenUntil[g] = Null THEN {} ELSE {givenUntil[g]}))]

ReceiverIsDone ==
  /\ phase = "matching"
  /\ \A c \in BagToSet(pending) : Overlap(c) = 0
  /\ phase' = "billing"
  /\ used' = [used EXCEPT ![receiver] = applied]
  /\ givenUntil' = GiveUntil(Members(applied))
  /\ pending' = rest (+) pending
  /\ receiver' = NoOrder /\ pieces' = {} /\ applied' = <<>> /\ rest' = EmptyBag
  /\ UNCHANGED <<today, dates, history, newUntil, waiting>>

-----------------------------------------------------------------------------
(* The lines. *)

\* The compensations that are discounted from the line of an order: those
\* that start before its billing point, and those it is worth waiting for.
Discounted(o) ==
  {c \in Members(used[o]) :
    \/ c.ini < newUntil[o]
    \/ c.end - c.ini > 3 * (c.ini - newUntil[o])}

Extending(o) == {c \in Discounted(o) : c.end > newUntil[o]}

\* The line ends at the billing point, or where the last of the compensations
\* that go beyond it does.
LineEnd(o) ==
  IF Extending(o) = {} THEN newUntil[o]
  ELSE LET i == Max({i \in DOMAIN used[o] : used[o][i] \cap Extending(o) # {}})
       IN Max({c.end : c \in used[o][i] \cap Extending(o)})

Line(o) == Interval(Start(o), LineEnd(o), o)

\* The lines of a billing that is committed charge and discount days; a
\* proforma and the preview of a billing leave the orders as they are.
FinishBilling(commit) ==
  /\ phase = "billing" /\ waiting = {}
  /\ phase' = "idle"
  /\ IF commit
     THEN /\ billedUntil' = [o \in Orders |->
               IF Billed(o) THEN LineEnd(o)
               ELSE IF givenUntil[o] # Null THEN givenUntil[o] ELSE billedUntil[o]]
          /\ charged' = [o \in Orders |-> [d \in Days |->
               IF Billed(o) /\ d \in DaysOf(Line(o)) THEN charged[o][d] + 1 ELSE charged[o][d]]]
          /\ credited' = [g \in Orders |-> [d \in Days |->
               credited[g][d] + Cardinality({o \in Orders : \E c \in Discounted(o) :
                                               c.order = g /\ d \in DaysOf(c)})]]
     ELSE UNCHANGED <<billedUntil, charged, credited>>
  /\ newUntil' = [o \in Orders |-> Null]
  /\ pending' = EmptyBag
  /\ used' = [o \in Orders |-> <<>>]
  /\ givenUntil' = [o \in Orders |-> Null]
  /\ UNCHANGED <<today, registered, cancelled, matching, waiting>>

Next ==
  \/ NewDay
  \/ \E o \in Orders : Cancel(o)
  \/ \E S \in SUBSET Orders, point \in Points : StartBilling(S, point)
  \/ \E o \in Orders : NextReceiver(o)
  \/ \E c \in BagToSet(pending) : ApplyCompensation(c)
  \/ ReceiverIsDone
  \/ \E commit \in BOOLEAN : FinishBilling(commit)

Spec == Init /\ [][Next]_vars

-----------------------------------------------------------------------------
(* Properties. *)

\* The types of the variables.
TypeOK ==
  /\ today \in Days
  /\ registered \in [Orders -> Days]
  /\ cancelled \in [Orders -> 0 .. Forever]
  /\ billedUntil \in [Orders -> Days \cup {Null}]
  /\ charged \in [Orders -> [Days -> Nat]]
  /\ credited \in [Orders -> [Days -> Nat]]
  /\ phase \in {"idle", "billing", "matching"}
  /\ newUntil \in [Orders -> Days \cup {Null}]
  /\ waiting \subseteq Orders
  /\ receiver \in Orders \cup {NoOrder}
  /\ pieces \subseteq Intervals
  /\ applied \in Seq(SUBSET Intervals)
  /\ BagToSet(pending) \subseteq Intervals
  /\ BagToSet(rest) \subseteq Intervals
  /\ used \in [Orders -> Seq(SUBSET Intervals)]
  /\ givenUntil \in [Orders -> Days \cup {Null}]

\* No day of an order is charged by two lines, whatever was cancelled, given
\* and billed before.
BilledOnce == \A o \in Orders, d \in Days : charged[o][d] <= 1

\* No day of an order is discounted by two credits of one billing: what is
\* applied and what remains are disjoint, and together the whole period.
CompensatedOnce ==
  phase = "matching" =>
    /\ AllDays(pieces) \cup AllDays(Members(applied)) = DaysOf(Period(receiver))
    /\ AllDays(pieces) \cap AllDays(Members(applied)) = {}
    /\ \A i, j \in DOMAIN applied : \A c \in applied[i], d \in applied[j] :
         c = d \/ DaysOf(c) \cap DaysOf(d) = {}

\* Credits are days that were charged to an order after its cancellation.
CreditsArePaid ==
  \A c \in BagToSet(pending) \cup BagToSet(rest) \cup Members(applied)
            \cup UNION {Members(used[o]) : o \in Orders} :
    c.ini >= cancelled[c.order] /\ \A d \in DaysOf(c) : charged[c.order][d] = 1

\* The days a giver was credited are no longer billed in it: another billing
\* does not credit them again.
GivenIsGone ==
  phase = "idle" => \A g \in Orders, d \in Days :
    credited[g][d] > 0 => billedUntil[g] <= d /\ cancelled[g] <= billedUntil[g]

\* What is credited was paid, and is no longer billed in the order that gives it: no
\* billing credits days that were not charged, and none credits them again.
CreditsAreReal == CreditsArePaid /\ GivenIsGone

\* No line charges days that come after the cancellation of its order.
CancelledIsNotCharged ==
  [][\A o \in Orders : charged'[o] # charged[o] => billedUntil'[o] <= cancelled[o]]_vars

\* Each day of credit is discounted to one order at most.
CreditUsedOnce == \A g \in Orders, d \in Days : credited[g][d] <= 1

-----------------------------------------------------------------------------
(* The inductive invariant. *)

\* Each phase has its variables, and the others are empty.
Quiet ==
  /\ phase = "idle" =>
       /\ waiting = {} /\ BagToSet(pending) = {}
       /\ \A o \in Orders : newUntil[o] = Null /\ used[o] = <<>> /\ givenUntil[o] = Null
  /\ phase # "matching" => pieces = {} /\ applied = <<>> /\ BagToSet(rest) = {}
  /\ phase = "matching" => receiver \in Orders /\ Billed(receiver)
  /\ \A o \in Orders : o \in waiting \/ used[o] # <<>> => Billed(o)

\* What was charged to an order: all days until the one it is billed until,
\* and none after it if it may be billed again.
Charges ==
  \A o \in Orders :
    /\ registered[o] <= cancelled[o]
    /\ \A d \in Days :
         /\ charged[o][d] <= 1
         /\ registered[o] <= d /\ d < Start(o) => charged[o][d] = 1
         /\ Start(o) < cancelled[o] /\ Start(o) <= d => charged[o][d] = 0

Batch == \A o \in Orders : Billed(o) => Start(o) <= newUntil[o] /\ newUntil[o] <= cancelled[o]

InCredit(c) ==
  /\ Cancelled(c.order)
  /\ cancelled[c.order] <= c.ini /\ c.end <= billedUntil[c.order]

InPeriod(c, o) == Start(o) <= c.ini /\ c.end <= cancelled[o]

Credits ==
  /\ \A c \in BagToSet(pending) \cup BagToSet(rest) : InCredit(c)
  /\ \A c \in Members(applied) : InCredit(c) /\ InPeriod(c, receiver) /\ c.ini < c.end
  /\ \A o \in Orders : \A c \in Members(used[o]) :
       InCredit(c) /\ InPeriod(c, o) /\ c.ini < c.end

\* The day a giver is to be billed until comes before all it gave.
Given ==
  /\ \A g \in Orders : givenUntil[g] # Null =>
       Cancelled(g) /\ cancelled[g] <= givenUntil[g] /\ givenUntil[g] <= billedUntil[g]
  /\ \A o \in Orders : \A c \in Members(used[o]) :
       givenUntil[c.order] # Null /\ givenUntil[c.order] <= c.ini

Gone ==
  \A g \in Orders, d \in Days :
    credited[g][d] > 0 => billedUntil[g] <= d /\ cancelled[g] <= billedUntil[g]

Separate ==
  /\ \A i \in pieces : InPeriod(i, receiver) /\ i.ini <= i.end
  /\ \A i, j \in pieces : i = j \/ DaysOf(i) \cap DaysOf(j) = {}
  /\ CompensatedOnce

BillingInv ==
  Quiet /\ Charges /\ Batch /\ Credits /\ Given /\ Gone /\ Separate

=============================================================================
