----------------------- MODULE OrderCompensation_proofs -----------------------
(***************************************************************************)
(* The billing of orders with compensations charges each day once, never   *)
(* days after a cancellation, and gives each credit once per billing, for  *)
(* any orders and any days.                                                *)
(***************************************************************************)
EXTENDS OrderCompensation, FiniteSetTheorems, WellFoundedInduction, TLAPS

(***************************************************************************)
(* Extremes of sets of numbers.                                            *)
(***************************************************************************)

\* Min of a set of numbers is its least element.
LEMMA MinIsLeast ==
  ASSUME NEW S \in SUBSET Nat, S # {}
  PROVE  Min(S) \in S /\ \A x \in S : Min(S) <= x
<1> DEFINE R == {ss \in Nat \X Nat : ss[1] < ss[2]}
<1>1. IsWellFoundedOn(R, Nat)
  BY NatLessThanWellFounded DEF OpToRel
<1>2. PICK m \in S : \A y \in S : ~ (<<y, m>> \in R)
  <2> HIDE DEF R
  <2> QED
    BY <1>1, WFMin, Zenon
<1>3. \A y \in S : m <= y
  <2> SUFFICES ASSUME NEW y \in S, y < m PROVE FALSE
    OBVIOUS
  <2>1. <<y, m>> \in R
    OBVIOUS
  <2> QED
    BY <2>1, <1>2
<1> QED
  BY <1>3 DEF Min

\* Max of a bounded set of numbers is its greatest element.
LEMMA MaxIsGreatest ==
  ASSUME NEW N \in Nat, NEW S \in SUBSET (0 .. N), S # {}
  PROVE  Max(S) \in S /\ \A x \in S : x <= Max(S)
<1> DEFINE T == {N - x : x \in S}
<1>1. \A x \in S : x \in Nat /\ N - x \in Nat
  OBVIOUS
<1>2. T \in SUBSET Nat /\ T # {}
  BY <1>1, Zenon
<1>3. PICK t \in T : \A y \in T : t <= y
  <2> HIDE DEF T
  <2> QED
    BY <1>2, MinIsLeast
<1>4. PICK m \in S : t = N - m
  OBVIOUS
<1>5. \A x \in S : N - m <= N - x
  BY <1>3, <1>4
<1>6. \A x \in S : x <= m
  BY <1>5, <1>1
<1> QED
  BY <1>6, <1>1 DEF Max

(***************************************************************************)
(* Intervals.                                                              *)
(***************************************************************************)

LEMMA Bounds == LastDay \in Nat /\ Forever \in Nat /\ Orders \subseteq Nat /\ Null \notin Days
  BY OrdersAssumption DEF Forever, Null, Days

\* The dates of an order are numbers.
LEMMA Dates ==
  ASSUME TypeOK, NEW o \in Orders
  PROVE  /\ LastDay \in Nat /\ Forever = LastDay + 1 /\ Null = -1
         /\ today \in Int /\ 0 <= today /\ today <= LastDay
         /\ registered[o] \in Int /\ 0 <= registered[o] /\ registered[o] <= LastDay
         /\ cancelled[o] \in Int /\ 0 <= cancelled[o] /\ cancelled[o] <= LastDay + 1
         /\ billedUntil[o] \in Int /\ -1 <= billedUntil[o] /\ billedUntil[o] <= LastDay
         /\ newUntil[o] \in Int /\ -1 <= newUntil[o] /\ newUntil[o] <= LastDay
         /\ givenUntil[o] \in Int /\ -1 <= givenUntil[o] /\ givenUntil[o] <= LastDay
         /\ Start(o) \in Int /\ 0 <= Start(o) /\ Start(o) <= LastDay
         /\ Start(o) = IF billedUntil[o] = -1 THEN registered[o] ELSE billedUntil[o]
<1>1. LastDay \in Nat /\ Forever = LastDay + 1 /\ Null = -1
  BY OrdersAssumption DEF Forever, Null
<1>2. today \in Int /\ 0 <= today /\ today <= LastDay
  BY <1>1 DEF TypeOK, Days
<1>3. registered[o] \in 0 .. LastDay
  BY DEF TypeOK, Days
<1>4. cancelled[o] \in 0 .. (LastDay + 1)
  BY <1>1 DEF TypeOK
<1>5. billedUntil[o] \in (0 .. LastDay) \cup {-1}
  BY <1>1 DEF TypeOK, Days
<1>7. newUntil[o] \in (0 .. LastDay) \cup {-1}
  BY <1>1 DEF TypeOK, Days
<1>8. givenUntil[o] \in (0 .. LastDay) \cup {-1}
  BY <1>1 DEF TypeOK, Days
<1>6. Start(o) = IF billedUntil[o] = -1 THEN registered[o] ELSE billedUntil[o]
  BY <1>1 DEF Start
<1> QED
  BY <1>1, <1>2, <1>3, <1>4, <1>5, <1>6, <1>7, <1>8

\* The days of an interval that another one leaves are those it has not.
LEMMA MinusDays ==
  ASSUME NEW i \in Intervals, NEW j \in Intervals, j.ini <= j.end
  PROVE  /\ Minus(i, j) \in SUBSET Intervals
         /\ AllDays(Minus(i, j)) = DaysOf(i) \ DaysOf(j)
         /\ \A x \in Minus(i, j) :
              /\ x.order = i.order /\ i.ini <= x.ini /\ x.end <= i.end
              /\ i.ini <= i.end => x.ini <= x.end
         /\ \A x, y \in Minus(i, j) : x = y \/ DaysOf(x) \cap DaysOf(y) = {}
<1> DEFINE l == [ini |-> i.ini, end |-> Least(i.end, j.ini), order |-> i.order]
           r == [ini |-> Greatest(i.ini, j.end), end |-> i.end, order |-> i.order]
<1>1. i.ini \in Nat /\ i.end \in Nat /\ j.ini \in Nat /\ j.end \in Nat
  BY Bounds DEF Intervals
<1>2. \A x : x \in Minus(i, j) <=> (x = l /\ i.ini < j.ini) \/ (x = r /\ i.end > j.end)
  BY Zenon DEF Minus, Interval
<1>3. l \in Intervals /\ r \in Intervals
  BY <1>1, Bounds DEF Intervals, Least, Greatest
<1>4. Minus(i, j) \in SUBSET Intervals
  BY <1>2, <1>3, Zenon
<1>5. /\ l.order = i.order /\ i.ini <= l.ini /\ l.end <= i.end /\ l.end <= j.ini
      /\ r.order = i.order /\ i.ini <= r.ini /\ r.end <= i.end /\ j.end <= r.ini
      /\ l.ini = i.ini /\ r.end = i.end
      /\ i.ini < j.ini /\ i.ini <= i.end => l.ini <= l.end
      /\ i.end > j.end /\ i.ini <= i.end => r.ini <= r.end
  BY <1>1 DEF Least, Greatest
<1>6. DaysOf(l) \cap DaysOf(r) = {}
  BY <1>1, <1>5 DEF DaysOf, Least, Greatest
<1>7. i.ini < j.ini => DaysOf(l) = {d \in DaysOf(i) : d < j.ini}
  BY <1>1 DEF DaysOf, Least
<1>8. i.end > j.end => DaysOf(r) = {d \in DaysOf(i) : d >= j.end}
  BY <1>1 DEF DaysOf, Greatest
<1>9. DaysOf(i) \ DaysOf(j) =
        {d \in DaysOf(i) : i.ini < j.ini /\ d < j.ini}
          \cup {d \in DaysOf(i) : i.end > j.end /\ d >= j.end}
  BY <1>1 DEF DaysOf
<1>10. AllDays(Minus(i, j)) = DaysOf(i) \ DaysOf(j)
  <2> HIDE DEF l, r
  <2>1. AllDays(Minus(i, j)) = UNION {DaysOf(x) : x \in Minus(i, j)}
    BY DEF AllDays
  <2>2. \A d : d \in AllDays(Minus(i, j)) <=>
          (i.ini < j.ini /\ d \in DaysOf(l)) \/ (i.end > j.end /\ d \in DaysOf(r))
    BY <2>1, <1>2, Zenon
  <2> QED
    BY <2>2, <1>7, <1>8, <1>9
<1> QED
  <2> HIDE DEF l, r
  <2> QED
    BY <1>2, <1>4, <1>5, <1>6, <1>10

\* The days of the intersection of two intervals are those of both.
LEMMA MeetDays ==
  ASSUME NEW i \in Intervals, NEW j \in Intervals
  PROVE  /\ Meet(i, j) \in Intervals
         /\ Meet(i, j).order = i.order
         /\ i.ini <= Meet(i, j).ini /\ j.ini <= Meet(i, j).ini
         /\ Meet(i, j).end <= i.end /\ Meet(i, j).end <= j.end
         /\ DaysOf(Meet(i, j)) = DaysOf(i) \cap DaysOf(j)
  BY Bounds DEF Meet, Intervals, Interval, DaysOf, Least, Greatest

\* Joining and leaving bags only joins and leaves elements.
LEMMA BagMembers ==
  ASSUME NEW A, NEW B
  PROVE  /\ BagToSet(A (+) B) = BagToSet(A) \cup BagToSet(B)
         /\ BagToSet(A (-) B) \subseteq BagToSet(A)
         /\ BagToSet(SetToBag(A)) = A
         /\ BagToSet(EmptyBag) = {}
  BY DEF BagToSet, SetToBag, EmptyBag, (+), (-)

(***************************************************************************)
(* The inductive invariant.                                                *)
(***************************************************************************)

LEMMA InitInv == Init => TypeOK /\ BillingInv
<1> SUFFICES ASSUME Init PROVE TypeOK /\ BillingInv
  OBVIOUS
<1> USE OrdersAssumption, Bounds
<1>1. BagToSet(EmptyBag) = {}
  BY BagMembers
<1>2. registered \in [Orders -> Days]
  BY DEF Init, Days
<1>3. Members(<<>>) = {}
  BY DEF Members
<1>4. TypeOK
  BY <1>1, <1>2 DEF Init, TypeOK, Days, Forever, Null, NoOrder
<1>5. Quiet
  BY <1>1 DEF Init, Quiet, Billed
<1>6. Charges
  BY <1>2 DEF Init, Charges, Days, Forever, Start
<1>7. Batch /\ Given /\ Gone
  BY <1>3 DEF Init, Batch, Given, Gone, Billed
<1>8. Credits
  BY <1>1, <1>3 DEF Init, Credits
<1>9. Separate
  BY DEF Init, Separate, CompensatedOnce
<1> QED
  BY <1>4, <1>5, <1>6, <1>7, <1>8, <1>9 DEF BillingInv

LEMMA Stuttering == TypeOK /\ BillingInv /\ UNCHANGED vars => (TypeOK /\ BillingInv)'
<1> SUFFICES ASSUME TypeOK, BillingInv, UNCHANGED vars PROVE (TypeOK /\ BillingInv)'
  OBVIOUS
<1> USE DEF vars, dates, history, matching, batch
<1>1. TypeOK'
  BY DEF TypeOK
<1>2. Quiet' /\ Charges' /\ Batch' /\ Gone'
  BY DEF BillingInv, Quiet, Charges, Batch, Gone, Billed, Start
<1>3. Credits' /\ Given'
  BY DEF BillingInv, Credits, Given, InCredit, InPeriod, Cancelled, Start, Members
<1>4. Separate'
  BY DEF BillingInv, Separate, CompensatedOnce, InPeriod, Period, Start
<1> QED
  BY <1>1, <1>2, <1>3, <1>4 DEF BillingInv

LEMMA NewDayInv == TypeOK /\ BillingInv /\ NewDay => (TypeOK /\ BillingInv)'
<1> SUFFICES ASSUME TypeOK, BillingInv, NewDay PROVE (TypeOK /\ BillingInv)'
  OBVIOUS
<1> USE DEF NewDay, dates, history, matching, batch
<1>1. TypeOK'
  <2>1. today' \in Days
    BY Bounds DEF TypeOK, Days
  <2> QED
    BY <2>1 DEF TypeOK
<1>2. Quiet' /\ Charges' /\ Batch' /\ Gone'
  BY DEF BillingInv, Quiet, Charges, Batch, Gone, Billed, Start
<1>3. Credits' /\ Given'
  BY DEF BillingInv, Credits, Given, InCredit, InPeriod, Cancelled, Start, Members
<1>4. Separate'
  BY DEF BillingInv, Separate, CompensatedOnce, InPeriod, Period, Start
<1> QED
  BY <1>1, <1>2, <1>3, <1>4 DEF BillingInv

\* Nobody is being billed when an order is cancelled, and an order that gave
\* days was cancelled before.
LEMMA CancelInv ==
  ASSUME NEW o \in Orders, TypeOK, BillingInv, Cancel(o)
  PROVE  (TypeOK /\ BillingInv)'
<1>1. /\ phase = "idle" /\ registered[o] <= today /\ cancelled[o] = Forever
      /\ cancelled' = [cancelled EXCEPT ![o] = today]
      /\ UNCHANGED <<today, registered, billedUntil, charged, credited, phase, receiver,
                     pieces, applied, rest, newUntil, waiting, pending, used, givenUntil>>
  BY DEF Cancel, dates, history, matching, batch
<1>2. cancelled' \in [Orders -> 0 .. Forever]
  <2>1. today \in 0 .. Forever
    BY Dates
  <2> QED
    BY <1>1, <2>1 DEF TypeOK
<1>3. /\ cancelled'[o] = today
      /\ \A p \in Orders : p # o => cancelled'[p] = cancelled[p]
  BY <1>1 DEF TypeOK
<1>4. TypeOK'
  BY <1>1, <1>2 DEF TypeOK
<1>5. Quiet'
  BY <1>1 DEF BillingInv, Quiet, Billed
<1>6. Charges'
  <2>1. \A p \in Orders : Start(p)' = Start(p)
    BY <1>1 DEF Start
  <2>2. Start(o) < cancelled[o] /\ cancelled[o] = LastDay + 1
    BY <1>1, Dates
  <2>3. \A p \in Orders : registered[p] <= cancelled'[p]
    BY <1>1, <1>3 DEF BillingInv, Charges
  <2> QED
    BY <1>1, <1>3, <2>1, <2>2, <2>3 DEF BillingInv, Charges
<1>7. Batch'
  BY <1>1 DEF BillingInv, Quiet, Batch, Billed
<1>8. Members(<<>>) = {}
  BY DEF Members
<1>9. Credits' /\ Given'
  BY <1>1, <1>8 DEF BillingInv, Quiet, Credits, Given
<1>10. Gone'
  <2>1. billedUntil[o] < cancelled[o]
    BY <1>1, Dates
  <2>2. ~ (cancelled[o] <= billedUntil[o])
    BY <2>1, Dates
  <2> QED
    BY <1>1, <1>3, <2>2 DEF BillingInv, Gone
<1>11. Separate'
  BY <1>1 DEF BillingInv, Quiet, Separate, CompensatedOnce
<1> QED
  BY <1>4, <1>5, <1>6, <1>7, <1>9, <1>10, <1>11 DEF BillingInv

LEMMA StartBillingInv ==
  ASSUME NEW S \in SUBSET Orders, NEW point \in Points, TypeOK, BillingInv,
         StartBilling(S, point)
  PROVE  (TypeOK /\ BillingInv)'
<1> DEFINE Chosen == {o \in S : ~ Cancelled(o) /\ billedUntil[o] < BillingPoint(o, point)}
<1>1. PICK first, last :
        pending' = SetToBag({Credit(g) : g \in Givers(first, last)})
  BY DEF StartBilling
<1>2. /\ phase = "idle" /\ phase' = "billing"
      /\ \A o \in Chosen : registered[o] <= today
      /\ point >= today
      /\ newUntil' = [o \in Orders |-> IF o \in Chosen THEN BillingPoint(o, point) ELSE Null]
      /\ waiting' = Chosen
      /\ UNCHANGED <<today, registered, cancelled, billedUntil, charged, credited,
                     receiver, pieces, applied, rest, used, givenUntil>>
  BY DEF StartBilling, dates, history, matching
<1>3. Chosen \subseteq Orders
  OBVIOUS
<1>4. point \in Days
  BY OrdersAssumption DEF Days
<1>5. \A o \in Chosen :
        /\ BillingPoint(o, point) \in Days
        /\ Start(o) <= BillingPoint(o, point) /\ BillingPoint(o, point) <= cancelled[o]
  <2> SUFFICES ASSUME NEW o \in Chosen
               PROVE  /\ BillingPoint(o, point) \in Days
                      /\ Start(o) <= BillingPoint(o, point)
                      /\ BillingPoint(o, point) <= cancelled[o]
    OBVIOUS
  <2>1. o \in Orders /\ registered[o] <= today /\ billedUntil[o] < BillingPoint(o, point)
    BY <1>2, <1>3
  <2>2. registered[o] <= cancelled[o]
    BY <2>1 DEF BillingInv, Charges
  <2>3. BillingPoint(o, point) = IF point < cancelled[o] THEN point ELSE cancelled[o]
    BY DEF BillingPoint, Least
  <2>4. point \in Int /\ 0 <= point /\ point <= LastDay /\ today <= point
    BY <1>2, <1>4, <2>1, Dates DEF Days
  <2> HIDE DEF Chosen
  <2> QED
    BY <2>1, <2>2, <2>3, <2>4, Dates DEF Days
<1>6. BagToSet(pending') = {Credit(g) : g \in Givers(first, last)}
  BY <1>1, BagMembers
<1>7. \A c \in BagToSet(pending') : c \in Intervals /\ InCredit(c)
  <2> SUFFICES ASSUME NEW c \in BagToSet(pending') PROVE c \in Intervals /\ InCredit(c)
    OBVIOUS
  <2>1. PICK g \in Givers(first, last) : c = Credit(g)
    BY <1>6
  <2>2. g \in Orders /\ Cancelled(g)
    BY DEF Givers
  <2>3. billedUntil[g] # Null /\ cancelled[g] < billedUntil[g]
    BY <2>2 DEF Cancelled
  <2>4. cancelled[g] \in 0 .. Forever /\ billedUntil[g] \in 0 .. Forever
    BY <2>2, <2>3, Dates
  <2>5. c = [ini |-> cancelled[g], end |-> billedUntil[g], order |-> g]
    BY <2>1 DEF Credit, Interval
  <2> QED
    BY <2>2, <2>4, <2>5 DEF Intervals, InCredit
<1> HIDE DEF Chosen
<1>8. TypeOK'
  BY <1>2, <1>3, <1>5, <1>7 DEF TypeOK
<1>9. Quiet'
  BY <1>2, <1>3, <1>5, Bounds DEF BillingInv, Quiet, Billed
<1>10. Charges' /\ Gone'
  BY <1>2 DEF BillingInv, Charges, Gone, Start
<1>11. Batch'
  BY <1>2, <1>5 DEF Batch, Billed, Start
<1>12. Members(<<>>) = {}
  BY DEF Members
<1>13. Credits'
  <2>1. \A c : InCredit(c)' <=> InCredit(c)
    BY <1>2 DEF InCredit, Cancelled
  <2> QED
    BY <1>2, <1>7, <1>12, <2>1 DEF BillingInv, Quiet, Credits
<1>14. Given'
  BY <1>2, <1>12 DEF BillingInv, Quiet, Given
<1>15. Separate'
  BY <1>2 DEF BillingInv, Quiet, Separate, CompensatedOnce
<1> QED
  BY <1>8, <1>9, <1>10, <1>11, <1>13, <1>14, <1>15 DEF BillingInv

LEMMA NextReceiverInv ==
  ASSUME NEW o \in Orders, TypeOK, BillingInv, NextReceiver(o)
  PROVE  (TypeOK /\ BillingInv)'
<1>1. /\ phase = "billing" /\ phase' = "matching" /\ receiver' = o /\ o \in waiting
      /\ waiting' = waiting \ {o} /\ pieces' = {Period(o)}
      /\ UNCHANGED <<today, registered, cancelled, billedUntil, charged, credited,
                     applied, rest, newUntil, pending, used, givenUntil>>
  BY DEF NextReceiver, dates, history
<1>2. Billed(o) /\ applied = <<>>
  BY <1>1 DEF BillingInv, Quiet
<1>3. Start(o) \in Days /\ cancelled[o] \in 0 .. Forever /\ Start(o) <= cancelled[o]
  <2>1. Start(o) <= newUntil[o] /\ newUntil[o] <= cancelled[o]
    BY <1>2 DEF BillingInv, Batch
  <2> QED
    BY <2>1, Dates DEF Days
<1>4. Period(o) \in Intervals /\ InPeriod(Period(o), o) /\ Period(o).ini <= Period(o).end
  BY <1>3, Bounds DEF Period, Interval, Intervals, InPeriod, Days, Forever
<1>5. TypeOK'
  BY <1>1, <1>4 DEF TypeOK
<1>6. Quiet'
  BY <1>1, <1>2 DEF BillingInv, Quiet, Billed
<1>7. Charges' /\ Gone' /\ Batch'
  BY <1>1 DEF BillingInv, Charges, Gone, Batch, Billed, Start
<1>8. Members(<<>>) = {}
  BY DEF Members
<1>9. Credits' /\ Given'
  BY <1>1, <1>2, <1>8 DEF BillingInv, Credits, Given, InCredit, InPeriod, Cancelled, Start
<1>10. Separate'
  <2>1. \A i : InPeriod(i, o)' <=> InPeriod(i, o)
    BY <1>1 DEF InPeriod, Start
  <2>2. Period(o)' = Period(o)
    BY <1>1 DEF Period, Start
  <2>3. AllDays({Period(o)}) = DaysOf(Period(o)) /\ AllDays({}) = {}
    BY DEF AllDays
  <2>4. CompensatedOnce'
    <3>1. applied' = <<>> /\ Members(applied') = {} /\ DOMAIN applied' = {}
      BY <1>1, <1>2, <1>8
    <3>2. AllDays(pieces') = DaysOf(Period(o)) /\ AllDays(Members(applied')) = {}
      BY <1>1, <2>3, <3>1
    <3>3. Period(receiver)' = Period(o)
      BY <1>1, <2>2
    <3>4. AllDays(pieces)' = AllDays(pieces') /\ AllDays(Members(applied))' = AllDays(Members(applied'))
      BY DEF AllDays, Members
    <3> QED
      BY <3>1, <3>2, <3>3, <3>4 DEF CompensatedOnce, DaysOf
  <2> QED
    BY <1>1, <1>4, <2>1, <2>4 DEF Separate
<1> QED
  BY <1>5, <1>6, <1>7, <1>9, <1>10 DEF BillingInv

\* The intervals a receiver holds are well formed, and so is the credit.
LEMMA ApplyCompensationInv ==
  ASSUME NEW c \in BagToSet(pending), TypeOK, BillingInv, ApplyCompensation(c)
  PROVE  (TypeOK /\ BillingInv)'
<1> DEFINE new == {m \in {Meet(c, i) : i \in pieces} : m.ini < m.end}
           left == Leftover(c, pieces)
<1>1. /\ phase = "matching" /\ Overlap(c) > 0
      /\ pending' = pending (-) SetToBag({c})
      /\ rest' = rest (+) left
      /\ applied' = Append(applied, new)
      /\ pieces' = UNION {Minus(i, c) : i \in pieces}
      /\ UNCHANGED <<today, registered, cancelled, billedUntil, charged, credited, phase,
                     receiver, newUntil, waiting, used, givenUntil>>
  BY DEF ApplyCompensation, dates, history
<1>2. receiver \in Orders
  BY <1>1 DEF BillingInv, Quiet
<1>3. c \in Intervals /\ InCredit(c)
  BY DEF TypeOK, BillingInv, Credits
<1>4. c.ini <= c.end
  <2>1. DaysOf(c) # {}
    <3> SUFFICES ASSUME DaysOf(c) = {} PROVE FALSE
      OBVIOUS
    <3>1. DaysOf(c) \cap AllDays(pieces) = {}
      OBVIOUS
    <3>2. Overlap(c) = 0
      BY <3>1, FS_EmptySet DEF Overlap
    <3> QED
      BY <1>1, <3>2
  <2> QED
    BY <1>3, <2>1, Bounds DEF DaysOf, Intervals
<1>5. pieces \subseteq Intervals /\ applied \in Seq(SUBSET Intervals)
  BY DEF TypeOK
<1>6. \A i \in pieces : InPeriod(i, receiver) /\ i.ini <= i.end
  BY DEF BillingInv, Separate
<1>7. \A i \in pieces :
        /\ Minus(i, c) \in SUBSET Intervals
        /\ AllDays(Minus(i, c)) = DaysOf(i) \ DaysOf(c)
        /\ \A x \in Minus(i, c) : i.ini <= x.ini /\ x.end <= i.end /\ x.ini <= x.end
        /\ \A x, y \in Minus(i, c) : x = y \/ DaysOf(x) \cap DaysOf(y) = {}
  BY <1>3, <1>4, <1>5, <1>6, MinusDays
<1>8. \A i \in pieces :
        /\ Minus(c, i) \in SUBSET Intervals
        /\ \A x \in Minus(c, i) : x.order = c.order /\ c.ini <= x.ini /\ x.end <= c.end
  BY <1>3, <1>5, <1>6, MinusDays
<1>9. \A i \in pieces :
        /\ Meet(c, i) \in Intervals /\ Meet(c, i).order = c.order
        /\ c.ini <= Meet(c, i).ini /\ i.ini <= Meet(c, i).ini
        /\ Meet(c, i).end <= c.end /\ Meet(c, i).end <= i.end
        /\ DaysOf(Meet(c, i)) = DaysOf(c) \cap DaysOf(i)
  BY <1>3, <1>5, MeetDays
<1>10. BagToSet(left) = UNION {Minus(c, i) : i \in pieces}
  BY DEF Leftover, BagToSet
<1>11. \A x \in BagToSet(left) :
         x \in Intervals /\ x.order = c.order /\ c.ini <= x.ini /\ x.end <= c.end
  BY <1>8, <1>10
<1>12. BagToSet(rest') = BagToSet(rest) \cup BagToSet(left)
  BY <1>1, BagMembers
<1>13. BagToSet(pending') \subseteq BagToSet(pending)
  BY <1>1, BagMembers
<1>14. new \in SUBSET Intervals
  BY <1>9
<1> HIDE DEF new, left
<1>15. Members(applied') = Members(applied) \cup new
  <2>1. Len(applied) \in Nat /\ DOMAIN applied = 1 .. Len(applied)
    BY <1>5
  <2>2. DOMAIN applied' = 1 .. (Len(applied) + 1)
    BY <1>1, <1>5, <1>14
  <2>3. \A k \in 1 .. Len(applied) : applied'[k] = applied[k]
    BY <1>1, <1>5, <1>14
  <2>4. applied'[Len(applied) + 1] = new
    BY <1>1, <1>5, <1>14
  <2>5. DOMAIN applied' = (DOMAIN applied) \cup {Len(applied) + 1}
    BY <2>1, <2>2
  <2>6. \A x : x \in Members(applied') <=> \E k \in DOMAIN applied' : x \in applied'[k]
    BY DEF Members
  <2>7. \A x : x \in Members(applied) <=> \E k \in DOMAIN applied : x \in applied[k]
    BY DEF Members
  <2> QED
    BY <2>1, <2>3, <2>4, <2>5, <2>6, <2>7
<1>16. TypeOK'
  <2>1. pieces' \subseteq Intervals
    BY <1>1, <1>7
  <2>2. applied' \in Seq(SUBSET Intervals)
    BY <1>1, <1>5, <1>14
  <2> QED
    BY <1>1, <1>11, <1>12, <1>13, <2>1, <2>2 DEF TypeOK
<1>17. Quiet'
  BY <1>1 DEF BillingInv, Quiet, Billed
<1>18. Charges' /\ Gone' /\ Batch'
  BY <1>1 DEF BillingInv, Charges, Gone, Batch, Billed, Start
<1>19. \A x : InCredit(x)' <=> InCredit(x)
  BY <1>1 DEF InCredit, Cancelled
<1>20. \A x, o : InPeriod(x, o)' <=> InPeriod(x, o)
  BY <1>1 DEF InPeriod, Start
<1>21. \A x \in Intervals : x.order = c.order /\ c.ini <= x.ini /\ x.end <= c.end => InCredit(x)
  <2> SUFFICES ASSUME NEW x \in Intervals, x.order = c.order, c.ini <= x.ini, x.end <= c.end
               PROVE  InCredit(x)
    OBVIOUS
  <2>1. /\ c.order \in Orders /\ c.ini \in Int /\ c.end \in Int
        /\ x.ini \in Int /\ x.end \in Int
    BY <1>3, Bounds DEF Intervals
  <2> QED
    BY <1>3, <2>1, Dates DEF InCredit
<1>22. \A x \in new : InCredit(x) /\ InPeriod(x, receiver) /\ x.ini < x.end
  <2> SUFFICES ASSUME NEW x \in new
               PROVE  InCredit(x) /\ InPeriod(x, receiver) /\ x.ini < x.end
    OBVIOUS
  <2>1. PICK i \in pieces : x = Meet(c, i) /\ x.ini < x.end
    BY DEF new
  <2>2. x \in Intervals /\ i.ini <= x.ini /\ x.end <= i.end
    BY <1>9, <2>1
  <2>3. InCredit(x)
    BY <1>9, <1>21, <2>1
  <2>4. i \in Intervals /\ Start(receiver) <= i.ini /\ i.end <= cancelled[receiver]
    BY <1>5, <1>6 DEF InPeriod
  <2>5. x.ini \in Int /\ x.end \in Int /\ i.ini \in Int /\ i.end \in Int
    BY <2>2, <2>4, Bounds DEF Intervals
  <2>6. Start(receiver) <= x.ini /\ x.end <= cancelled[receiver]
    BY <1>2, <2>2, <2>4, <2>5, Dates
  <2> QED
    BY <2>1, <2>3, <2>6 DEF InPeriod
<1>23. Credits'
  <2>1. \A x \in BagToSet(pending') \cup BagToSet(rest') : InCredit(x)
    BY <1>11, <1>12, <1>13, <1>21 DEF BillingInv, Credits
  <2>2. \A x \in Members(applied') : InCredit(x) /\ InPeriod(x, receiver) /\ x.ini < x.end
    BY <1>15, <1>22 DEF BillingInv, Credits
  <2>3. \A o : Members(used[o])' = Members(used[o])
    BY <1>1 DEF Members
  <2>4. Members(applied)' = Members(applied')
    BY DEF Members
  <2> QED
    BY <1>1, <1>19, <1>20, <2>1, <2>2, <2>3, <2>4 DEF BillingInv, Credits
<1>24. Given'
  BY <1>1 DEF BillingInv, Given, Cancelled, Members
<1>25. AllDays(pieces') = AllDays(pieces) \ DaysOf(c)
  <2>1. \A d : d \in AllDays(pieces') <=> \E i \in pieces : d \in AllDays(Minus(i, c))
    <3>1. \A d : d \in AllDays(pieces') <=> \E x \in pieces' : d \in DaysOf(x)
      BY DEF AllDays
    <3>2. \A x : x \in pieces' <=> \E i \in pieces : x \in Minus(i, c)
      BY <1>1
    <3>3. \A i, d : d \in AllDays(Minus(i, c)) <=> \E x \in Minus(i, c) : d \in DaysOf(x)
      BY DEF AllDays
    <3> QED
      BY <3>1, <3>2, <3>3, Zenon
  <2>2. \A d : d \in AllDays(pieces) <=> \E i \in pieces : d \in DaysOf(i)
    BY DEF AllDays
  <2> QED
    BY <1>7, <2>1, <2>2
<1>26. AllDays(new) = AllDays(pieces) \cap DaysOf(c)
  <2>1. \A i \in pieces : \A d \in DaysOf(Meet(c, i)) : Meet(c, i).ini < Meet(c, i).end
    BY <1>9, Bounds DEF DaysOf, Intervals
  <2>2. \A d : d \in AllDays(new) <=> \E i \in pieces : d \in DaysOf(Meet(c, i))
    BY <2>1, Zenon DEF AllDays, new
  <2>3. \A d : d \in AllDays(pieces) <=> \E i \in pieces : d \in DaysOf(i)
    BY DEF AllDays
  <2> QED
    BY <1>9, <2>2, <2>3
<1>27. Separate'
  <2>1. \A i \in pieces' : InPeriod(i, receiver) /\ i.ini <= i.end
    <3> SUFFICES ASSUME NEW x \in pieces' PROVE InPeriod(x, receiver) /\ x.ini <= x.end
      OBVIOUS
    <3>1. PICK i \in pieces : x \in Minus(i, c)
      BY <1>1
    <3>2. x \in Intervals /\ i \in Intervals /\ i.ini <= x.ini /\ x.end <= i.end /\ x.ini <= x.end
      BY <1>5, <1>7, <3>1
    <3>3. x.ini \in Int /\ x.end \in Int /\ i.ini \in Int /\ i.end \in Int
      BY <3>2, Bounds DEF Intervals
    <3> QED
      BY <1>2, <1>6, <3>2, <3>3, Dates DEF InPeriod
  <2>2. ASSUME NEW x \in pieces', NEW y \in pieces'
        PROVE  x = y \/ DaysOf(x) \cap DaysOf(y) = {}
    <3>1. PICK i \in pieces : x \in Minus(i, c)
      BY <1>1
    <3>2. PICK j \in pieces : y \in Minus(j, c)
      BY <1>1
    <3>3. DaysOf(x) \subseteq DaysOf(i) /\ DaysOf(y) \subseteq DaysOf(j)
      BY <1>7, <3>1, <3>2 DEF AllDays
    <3>4. i = j \/ DaysOf(i) \cap DaysOf(j) = {}
      BY DEF BillingInv, Separate
    <3> QED
      BY <1>7, <3>1, <3>2, <3>3, <3>4
  <2>3. /\ AllDays(pieces) \cup AllDays(Members(applied)) = DaysOf(Period(receiver))
        /\ AllDays(pieces) \cap AllDays(Members(applied)) = {}
        /\ \A k, l \in DOMAIN applied : \A x \in applied[k], y \in applied[l] :
             x = y \/ DaysOf(x) \cap DaysOf(y) = {}
    BY <1>1 DEF BillingInv, Separate, CompensatedOnce
  <2>4. AllDays(Members(applied')) = AllDays(Members(applied)) \cup AllDays(new)
    BY <1>15 DEF AllDays
  <2>5. /\ AllDays(pieces') \cup AllDays(Members(applied')) = DaysOf(Period(receiver))
        /\ AllDays(pieces') \cap AllDays(Members(applied')) = {}
    BY <1>25, <1>26, <2>3, <2>4
  <2>6. \A x, y \in Members(applied) : x = y \/ DaysOf(x) \cap DaysOf(y) = {}
    BY <2>3 DEF Members
  <2>7. \A x \in Members(applied), y \in new : DaysOf(x) \cap DaysOf(y) = {}
    BY <1>26, <2>3 DEF AllDays
  <2>8. \A x, y \in new : x = y \/ DaysOf(x) \cap DaysOf(y) = {}
    <3> SUFFICES ASSUME NEW x \in new, NEW y \in new
                 PROVE  x = y \/ DaysOf(x) \cap DaysOf(y) = {}
      OBVIOUS
    <3>1. PICK i \in pieces : x = Meet(c, i)
      BY DEF new
    <3>2. PICK j \in pieces : y = Meet(c, j)
      BY DEF new
    <3>3. i = j \/ DaysOf(i) \cap DaysOf(j) = {}
      BY DEF BillingInv, Separate
    <3> QED
      BY <1>9, <3>1, <3>2, <3>3
  <2>9. \A x, y \in Members(applied') : x = y \/ DaysOf(x) \cap DaysOf(y) = {}
    BY <1>15, <2>6, <2>7, <2>8
  <2>10. \A k, l \in DOMAIN applied' : \A x \in applied'[k], y \in applied'[l] :
           x = y \/ DaysOf(x) \cap DaysOf(y) = {}
    BY <2>9 DEF Members
  <2>11. Period(receiver)' = Period(receiver)
    BY <1>1 DEF Period, Start
  <2>12. CompensatedOnce'
    <3>1. AllDays(pieces)' = AllDays(pieces') /\ AllDays(Members(applied))' = AllDays(Members(applied'))
      BY DEF AllDays, Members
    <3>2. DaysOf(Period(receiver))' = DaysOf(Period(receiver))
      BY <2>11 DEF DaysOf
    <3> QED
      BY <2>5, <2>10, <3>1, <3>2 DEF CompensatedOnce, DaysOf
  <2> QED
    BY <1>1, <1>20, <2>1, <2>2, <2>12 DEF Separate, DaysOf
<1> QED
  BY <1>16, <1>17, <1>18, <1>23, <1>24, <1>27 DEF BillingInv

LEMMA ReceiverIsDoneInv ==
  ASSUME TypeOK, BillingInv, ReceiverIsDone
  PROVE  (TypeOK /\ BillingInv)'
<1> DEFINE S == Members(applied)
<1>1. /\ phase = "matching" /\ phase' = "billing"
      /\ used' = [used EXCEPT ![receiver] = applied]
      /\ givenUntil' = GiveUntil(S)
      /\ pending' = rest (+) pending
      /\ pieces' = {} /\ applied' = <<>> /\ rest' = EmptyBag /\ receiver' = NoOrder
      /\ UNCHANGED <<today, registered, cancelled, billedUntil, charged, credited,
                     newUntil, waiting>>
  BY DEF ReceiverIsDone, dates, history
<1>2. receiver \in Orders /\ Billed(receiver)
  BY <1>1 DEF BillingInv, Quiet
<1>3. S \subseteq Intervals
  <2>1. \A k \in DOMAIN applied : applied[k] \subseteq Intervals
    BY DEF TypeOK
  <2> QED
    BY <2>1 DEF Members
<1>4. \A c \in S : InCredit(c) /\ InPeriod(c, receiver) /\ c.ini < c.end
  BY DEF BillingInv, Credits
<1>5. \A c \in S : /\ c.order \in Orders /\ c.ini \in Nat /\ Cancelled(c.order)
                   /\ cancelled[c.order] <= c.ini /\ c.ini <= billedUntil[c.order]
  <2> SUFFICES ASSUME NEW c \in S
               PROVE  /\ c.order \in Orders /\ c.ini \in Nat /\ Cancelled(c.order)
                      /\ cancelled[c.order] <= c.ini /\ c.ini <= billedUntil[c.order]
    OBVIOUS
  <2>1. c.order \in Orders /\ c.ini \in Nat /\ c.end \in Nat
    BY <1>3, Bounds DEF Intervals
  <2>2. /\ c.ini < c.end /\ Cancelled(c.order)
        /\ cancelled[c.order] <= c.ini /\ c.end <= billedUntil[c.order]
    BY <1>4 DEF InCredit
  <2> QED
    BY <2>1, <2>2, Dates
<1>6. /\ \A o \in Orders : o # receiver => used'[o] = used[o]
      /\ used'[receiver] = applied
      /\ used' \in [Orders -> Seq(SUBSET Intervals)]
  BY <1>1, <1>2 DEF TypeOK
<1> HIDE DEF S
<1>7. ASSUME NEW g \in Orders
      PROVE  /\ givenUntil[g] # Null => givenUntil'[g] # Null /\ givenUntil'[g] <= givenUntil[g]
             /\ \A c \in S : c.order = g => givenUntil'[g] # Null /\ givenUntil'[g] <= c.ini
             /\ givenUntil'[g] # Null =>
                  /\ Cancelled(g) /\ cancelled[g] <= givenUntil'[g]
                  /\ givenUntil'[g] <= billedUntil[g]
             /\ givenUntil'[g] \in Days \cup {Null}
  <2> DEFINE G == GivenBy(g, S)
             T == G \cup (IF givenUntil[g] = Null THEN {} ELSE {givenUntil[g]})
  <2>1. givenUntil[g] # Null =>
          /\ Cancelled(g) /\ cancelled[g] <= givenUntil[g] /\ givenUntil[g] <= billedUntil[g]
    BY DEF BillingInv, Given
  <2>2. \A x : x \in G <=> \E c \in S : c.order = g /\ c.ini = x
    BY DEF GivenBy
  <2>3. \A x \in G : x \in Nat /\ Cancelled(g) /\ cancelled[g] <= x /\ x <= billedUntil[g]
    BY <1>5, <2>2
  <2>4. givenUntil'[g] = IF G = {} THEN givenUntil[g] ELSE Min(T)
    BY <1>1 DEF GiveUntil
  <2>5. givenUntil[g] \in Days \cup {Null} /\ Null \notin Nat
    <3>1. givenUntil[g] \in Days \cup {Null}
      BY DEF TypeOK
    <3>2. Null \notin Nat
      BY Dates
    <3> QED
      BY <3>1, <3>2
  <2>6. T \in SUBSET Nat
    <3>1. givenUntil[g] # Null => givenUntil[g] \in Nat
      BY Dates
    <3> QED
      BY <2>3, <3>1
  <2>7. \A x \in T : Cancelled(g) /\ cancelled[g] <= x /\ x <= billedUntil[g]
    BY <2>1, <2>3
  <2>8. CASE G = {}
    <3>1. givenUntil'[g] = givenUntil[g]
      BY <2>4, <2>8
    <3>2. \A c \in S : c.order # g
      BY <2>2, <2>8
    <3> QED
      BY <2>1, <2>5, <3>1, <3>2, Dates
  <2>9. CASE G # {}
    <3>1. T # {} /\ givenUntil'[g] = Min(T)
      BY <2>4, <2>9
    <3> HIDE DEF T, G
    <3>2. Min(T) \in T /\ \A x \in T : Min(T) <= x
      BY <2>6, <3>1, MinIsLeast
    <3>3. givenUntil'[g] \in Nat /\ givenUntil'[g] \in T
      BY <2>6, <3>1, <3>2
    <3>4. /\ Cancelled(g) /\ cancelled[g] <= givenUntil'[g]
          /\ givenUntil'[g] <= billedUntil[g]
      BY <2>7, <3>3
    <3>5. givenUntil'[g] \in Days
      BY <3>3, <3>4, Dates DEF Days
    <3>6. givenUntil[g] # Null => givenUntil[g] \in T
      BY DEF T
    <3>7. \A c \in S : c.order = g => c.ini \in T
      BY <2>2 DEF T
    <3> QED
      BY <2>5, <3>1, <3>2, <3>3, <3>4, <3>5, <3>6, <3>7
  <2> QED
    BY <2>8, <2>9
<1>8. BagToSet(pending') = BagToSet(pending) \cup BagToSet(rest) /\ BagToSet(rest') = {}
  BY <1>1, BagMembers
<1>9. Members(<<>>) = {}
  BY DEF Members
<1>10. TypeOK'
  <2>1. givenUntil' \in [Orders -> Days \cup {Null}]
    BY <1>1, <1>7 DEF GiveUntil
  <2> QED
    BY <1>1, <1>6, <1>8, <2>1 DEF TypeOK
<1>11. Quiet'
  BY <1>1, <1>2, <1>6, <1>8 DEF BillingInv, Quiet, Billed
<1>12. Charges' /\ Gone' /\ Batch'
  BY <1>1 DEF BillingInv, Charges, Gone, Batch, Billed, Start
<1>13. \A x : InCredit(x)' <=> InCredit(x)
  BY <1>1 DEF InCredit, Cancelled
<1>14. \A x, o : InPeriod(x, o)' <=> InPeriod(x, o)
  BY <1>1 DEF InPeriod, Start
<1>15. /\ \A o \in Orders : o # receiver => Members(used'[o]) = Members(used[o])
       /\ Members(used'[receiver]) = S
  BY <1>6 DEF S
<1>16. Credits'
  <2>1. \A o \in Orders : \A c \in Members(used'[o]) :
          InCredit(c) /\ InPeriod(c, o) /\ c.ini < c.end
    BY <1>2, <1>4, <1>15 DEF BillingInv, Credits
  <2>2. \A c \in BagToSet(pending') \cup BagToSet(rest') : InCredit(c)
    BY <1>8 DEF BillingInv, Credits
  <2>3. Members(applied') = {} /\ Members(applied)' = Members(applied')
    BY <1>1, <1>9 DEF Members
  <2>4. \A o : Members(used[o])' = Members(used'[o])
    BY DEF Members
  <2> QED
    BY <1>13, <1>14, <2>1, <2>2, <2>3, <2>4 DEF Credits
<1>17. Given'
  <2>1. \A g \in Orders : Cancelled(g)' <=> Cancelled(g)
    BY <1>1 DEF Cancelled
  <2>2. \A o \in Orders : \A c \in Members(used'[o]) :
          givenUntil'[c.order] # Null /\ givenUntil'[c.order] <= c.ini
    <3> SUFFICES ASSUME NEW o \in Orders, NEW c \in Members(used'[o])
                 PROVE  givenUntil'[c.order] # Null /\ givenUntil'[c.order] <= c.ini
      OBVIOUS
    <3>1. CASE o = receiver
      BY <1>5, <1>7, <1>15, <3>1
    <3>2. CASE o # receiver
      <4>1. c \in Members(used[o])
        BY <1>15, <3>2
      <4>2. givenUntil[c.order] # Null /\ givenUntil[c.order] <= c.ini
        BY <4>1 DEF BillingInv, Given
      <4>3. \A k \in DOMAIN used[o] : used[o][k] \subseteq Intervals
        BY DEF TypeOK
      <4>4. c.order \in Orders /\ c.ini \in Nat
        BY <4>1, <4>3, Bounds DEF Members, Intervals
      <4>5. givenUntil'[c.order] # Null /\ givenUntil'[c.order] <= givenUntil[c.order]
        BY <1>7, <4>2, <4>4
      <4>6. givenUntil'[c.order] \in Int
        BY <1>7, <4>4, <4>5, Dates DEF Days
      <4> QED
        BY <4>2, <4>4, <4>5, <4>6, Dates
    <3> QED
      BY <3>1, <3>2
  <2>3. \A o : Members(used[o])' = Members(used'[o])
    BY DEF Members
  <2> QED
    BY <1>1, <1>7, <2>1, <2>2, <2>3 DEF Given
<1>18. Separate'
  BY <1>1 DEF Separate, CompensatedOnce
<1> QED
  BY <1>10, <1>11, <1>12, <1>16, <1>17, <1>18 DEF BillingInv

\* A line ends at the billing point of its order or after it, and never after
\* the cancellation.
LEMMA LineEndBounds ==
  ASSUME TypeOK, BillingInv, NEW o \in Orders, Billed(o)
  PROVE  /\ LineEnd(o) \in Days
         /\ newUntil[o] <= LineEnd(o) /\ LineEnd(o) <= cancelled[o]
<1>1. Start(o) <= newUntil[o] /\ newUntil[o] <= cancelled[o] /\ newUntil[o] \in Days
  BY DEF BillingInv, Batch, TypeOK, Billed
<1>2. CASE Extending(o) = {}
  BY <1>1, <1>2, Dates DEF LineEnd
<1>3. CASE Extending(o) # {}
  <2> DEFINE I == {k \in DOMAIN used[o] : used[o][k] \cap Extending(o) # {}}
             E == {c.end : c \in used[o][Max(I)] \cap Extending(o)}
  <2>1. used[o] \in Seq(SUBSET Intervals)
    BY DEF TypeOK
  <2>2. LineEnd(o) = Max(E)
    BY <1>3 DEF LineEnd
  <2>3. Extending(o) \subseteq Members(used[o])
    BY DEF Extending, Discounted
  <2>4. I \in SUBSET (0 .. Len(used[o])) /\ Len(used[o]) \in Nat
    BY <2>1
  <2>5. I # {}
    BY <1>3, <2>3 DEF Members
  <2> HIDE DEF I
  <2>6. Max(I) \in I
    BY <2>4, <2>5, MaxIsGreatest
  <2>7. E # {}
    BY <2>6 DEF I
  <2>8. \A c \in Extending(o) :
          /\ c.end \in 0 .. LastDay
          /\ newUntil[o] < c.end /\ c.end <= cancelled[o]
    <3> SUFFICES ASSUME NEW c \in Extending(o)
                 PROVE  /\ c.end \in 0 .. LastDay
                        /\ newUntil[o] < c.end /\ c.end <= cancelled[o]
      OBVIOUS
    <3>1. InCredit(c) /\ InPeriod(c, o) /\ newUntil[o] < c.end
      BY <2>3 DEF Extending, BillingInv, Credits
    <3>2. \A k \in DOMAIN used[o] : used[o][k] \subseteq Intervals
      BY <2>1
    <3>3. c.order \in Orders /\ c.end \in Nat
      BY <2>3, <3>2, Bounds DEF Members, Intervals
    <3>4. c.end <= billedUntil[c.order] /\ c.end <= cancelled[o]
      BY <3>1 DEF InCredit, InPeriod
    <3> QED
      BY <3>1, <3>3, <3>4, Dates
  <2>9. \A e \in E : e \in 0 .. LastDay /\ newUntil[o] < e /\ e <= cancelled[o]
    BY <2>8
  <2> HIDE DEF E
  <2>10. Max(E) \in E
    BY <2>7, <2>9, Bounds, MaxIsGreatest
  <2> QED
    BY <1>1, <2>2, <2>9, <2>10, Dates DEF Days
<1> QED
  BY <1>2, <1>3

\* What a billing that is committed saves of each order.
LEMMA Saved ==
  ASSUME TypeOK, BillingInv, FinishBilling(TRUE), NEW o \in Orders
  PROVE  /\ billedUntil'[o] = IF Billed(o) THEN LineEnd(o)
                              ELSE IF givenUntil[o] # Null THEN givenUntil[o] ELSE billedUntil[o]
         /\ billedUntil'[o] \in Days \cup {Null}
         /\ \A d \in Days :
              charged'[o][d] = IF Billed(o) /\ Start(o) <= d /\ d < LineEnd(o)
                               THEN charged[o][d] + 1 ELSE charged[o][d]
         /\ Billed(o) => Start(o) <= LineEnd(o) /\ Start(o)' = LineEnd(o)
         /\ Billed(o) => LineEnd(o) \in Days /\ LineEnd(o) <= cancelled[o]
<1>1. billedUntil'[o] = IF Billed(o) THEN LineEnd(o)
                        ELSE IF givenUntil[o] # Null THEN givenUntil[o] ELSE billedUntil[o]
  BY DEF FinishBilling
<1>2. Billed(o) => /\ LineEnd(o) \in Days /\ LineEnd(o) <= cancelled[o]
                   /\ newUntil[o] <= LineEnd(o) /\ Start(o) <= newUntil[o]
  BY LineEndBounds DEF BillingInv, Batch
<1>3. billedUntil'[o] \in Days \cup {Null}
  BY <1>1, <1>2 DEF TypeOK
<1>4. Billed(o) => Start(o) <= LineEnd(o)
  BY <1>2, Dates DEF Days
<1>5. Billed(o) => Start(o)' = LineEnd(o)
  BY <1>1, <1>2, Bounds DEF Start
<1>6. ASSUME NEW d \in Days
      PROVE  charged'[o][d] = IF Billed(o) /\ Start(o) <= d /\ d < LineEnd(o)
                              THEN charged[o][d] + 1 ELSE charged[o][d]
  <2>1. charged'[o][d] = IF Billed(o) /\ d \in DaysOf(Line(o))
                         THEN charged[o][d] + 1 ELSE charged[o][d]
    BY DEF FinishBilling
  <2>2. Line(o).ini = Start(o) /\ Line(o).end = LineEnd(o)
    BY DEF Line, Interval
  <2>3. Billed(o) => (d \in DaysOf(Line(o)) <=> Start(o) <= d /\ d < LineEnd(o))
    BY <1>2, <2>2, Dates DEF DaysOf, Days
  <2> QED
    BY <2>1, <2>3
<1> QED
  BY <1>1, <1>2, <1>3, <1>4, <1>5, <1>6

LEMMA FinishBillingInv ==
  ASSUME NEW commit \in BOOLEAN, TypeOK, BillingInv, FinishBilling(commit)
  PROVE  (TypeOK /\ BillingInv)'
<1>1. /\ phase = "billing" /\ phase' = "idle" /\ waiting = {} /\ waiting' = {}
      /\ newUntil' = [o \in Orders |-> Null] /\ pending' = EmptyBag
      /\ used' = [o \in Orders |-> <<>>] /\ givenUntil' = [o \in Orders |-> Null]
      /\ UNCHANGED <<today, registered, cancelled, receiver, pieces, applied, rest>>
  BY DEF FinishBilling, matching
<1>2. pieces = {} /\ applied = <<>> /\ BagToSet(rest) = {}
  BY <1>1 DEF BillingInv, Quiet
<1>3. BagToSet(pending') = {}
  BY <1>1, BagMembers
<1>4. Members(<<>>) = {}
  BY DEF Members
<1>5. Quiet'
  BY <1>1, <1>2, <1>3 DEF Quiet, Billed
<1>6. Batch' /\ Credits' /\ Given'
  BY <1>1, <1>2, <1>3, <1>4 DEF Batch, Billed, Credits, Given
<1>7. Separate'
  BY <1>1, <1>2 DEF Separate, CompensatedOnce
<1>8. CASE ~ commit
  <2>1. UNCHANGED <<billedUntil, charged, credited>>
    BY <1>8 DEF FinishBilling
  <2>2. TypeOK'
    BY <1>1, <1>2, <1>3, <2>1 DEF TypeOK
  <2>3. Charges' /\ Gone'
    BY <1>1, <2>1 DEF BillingInv, Charges, Gone, Start
  <2> QED
    BY <1>5, <1>6, <1>7, <2>2, <2>3 DEF BillingInv
<1>9. CASE commit
  <2>1. FinishBilling(TRUE)
    BY <1>9
  <2> DEFINE Receivers(g, d) ==
        {o \in Orders : \E c \in Discounted(o) : c.order = g /\ d \in DaysOf(c)}
  <2>2. \A g \in Orders, d \in Days :
          credited'[g][d] = credited[g][d] + Cardinality(Receivers(g, d))
    <3>1. credited' = [g \in Orders |-> [d \in Days |->
                        credited[g][d] + Cardinality(Receivers(g, d))]]
      BY <2>1, Zenon DEF FinishBilling
    <3> HIDE DEF Receivers
    <3> QED
      BY <3>1
  <2>3. \A g, d : Cardinality(Receivers(g, d)) \in Nat
    BY OrdersAssumption, FS_Subset, FS_CardinalityType
  <2>4. TypeOK'
    <3>1. billedUntil' \in [Orders -> Days \cup {Null}]
      BY <2>1, Saved DEF FinishBilling
    <3>2. \A o \in Orders, d \in Days : charged[o][d] \in Nat /\ credited[o][d] \in Nat
      BY DEF TypeOK
    <3>3. charged' \in [Orders -> [Days -> Nat]]
      <4>1. \A o \in Orders, d \in Days : charged'[o][d] \in Nat
        BY <2>1, <3>2, Saved
      <4>2. charged' = [o \in Orders |-> [d \in Days |-> charged'[o][d]]]
        BY <2>1 DEF FinishBilling
      <4> QED
        BY <4>1, <4>2
    <3>4. credited' \in [Orders -> [Days -> Nat]]
      <4>1. \A o \in Orders, d \in Days : credited'[o][d] \in Nat
        <5> HIDE DEF Receivers
        <5> QED
          BY <2>2, <2>3, <3>2
      <4>2. credited' = [o \in Orders |-> [d \in Days |-> credited'[o][d]]]
        BY <2>1 DEF FinishBilling
      <4> QED
        BY <4>1, <4>2
    <3> QED
      BY <1>1, <1>2, <1>3, <3>1, <3>3, <3>4 DEF TypeOK
  <2>5. Charges'
    <3> SUFFICES ASSUME NEW o \in Orders
                 PROVE  /\ registered[o] <= cancelled[o]
                        /\ \A d \in Days :
                             /\ charged'[o][d] <= 1
                             /\ registered[o] <= d /\ d < Start(o)' => charged'[o][d] = 1
                             /\ Start(o)' < cancelled[o] /\ Start(o)' <= d => charged'[o][d] = 0
      BY <1>1 DEF Charges
    <3>1. /\ registered[o] <= cancelled[o]
          /\ \A d \in Days :
               /\ charged[o][d] <= 1
               /\ registered[o] <= d /\ d < Start(o) => charged[o][d] = 1
               /\ Start(o) < cancelled[o] /\ Start(o) <= d => charged[o][d] = 0
      BY DEF BillingInv, Charges
    <3>2. \A d \in Days : d \in Int /\ charged[o][d] \in Nat
      BY Bounds DEF TypeOK, Days
    <3>3. CASE Billed(o)
      <4>1. /\ LineEnd(o) \in Int /\ LineEnd(o) <= cancelled[o] /\ Start(o) <= LineEnd(o)
            /\ Start(o)' = LineEnd(o)
        BY <2>1, <3>3, Saved, Bounds DEF Days
      <4>2. \A d \in Days :
              charged'[o][d] = IF Start(o) <= d /\ d < LineEnd(o)
                               THEN charged[o][d] + 1 ELSE charged[o][d]
        BY <2>1, <3>3, Saved
      <4> QED
        BY <3>1, <3>2, <4>1, <4>2, Dates
    <3>4. CASE ~ Billed(o)
      <4>1. \A d \in Days : charged'[o][d] = charged[o][d]
        BY <2>1, <3>4, Saved
      <4>2. CASE givenUntil[o] = Null
        <5>1. Start(o)' = Start(o)
          BY <1>1, <2>1, <3>4, <4>2, Saved DEF Start
        <5> QED
          BY <3>1, <4>1, <5>1
      <4>3. CASE givenUntil[o] # Null
        <5>1. /\ billedUntil[o] # Null /\ cancelled[o] <= givenUntil[o]
              /\ givenUntil[o] <= billedUntil[o]
          BY <4>3 DEF BillingInv, Given, Cancelled
        <5>2. billedUntil'[o] = givenUntil[o]
          BY <2>1, <3>4, <4>3, Saved
        <5>3. Start(o)' = givenUntil[o]
          BY <4>3, <5>2 DEF Start
        <5>4. Start(o) = billedUntil[o]
          BY <5>1 DEF Start
        <5> QED
          BY <3>1, <3>2, <4>1, <5>1, <5>3, <5>4, Dates
      <4> QED
        BY <4>2, <4>3
    <3> QED
      BY <3>3, <3>4
  <2>6. Gone'
    <3> SUFFICES ASSUME NEW g \in Orders, NEW d \in Days, credited'[g][d] > 0
                 PROVE  billedUntil'[g] <= d /\ cancelled[g] <= billedUntil'[g]
      BY <1>1 DEF Gone
    <3>1. d \in Int
      BY Bounds DEF Days
    <3>2. Billed(g) => ~ Cancelled(g)
      <4>1. Billed(g) => Start(g) <= newUntil[g] /\ newUntil[g] <= cancelled[g]
        BY DEF BillingInv, Batch
      <4>2. Cancelled(g) => Start(g) = billedUntil[g] /\ cancelled[g] < billedUntil[g]
        BY DEF Cancelled, Start
      <4> QED
        BY <4>1, <4>2, Dates
    <3>3. CASE credited[g][d] > 0
      <4>1. billedUntil[g] <= d /\ cancelled[g] <= billedUntil[g]
        BY <3>3 DEF BillingInv, Gone
      <4>2. billedUntil[g] # Null
        BY <4>1, Dates
      <4>3. CASE Billed(g)
        <5>1. /\ LineEnd(g) \in Int /\ LineEnd(g) <= cancelled[g] /\ Start(g) <= LineEnd(g)
              /\ billedUntil'[g] = LineEnd(g)
          BY <2>1, <4>3, Saved, Bounds DEF Days
        <5>2. Start(g) = billedUntil[g]
          BY <4>2 DEF Start
        <5> QED
          BY <3>1, <4>1, <5>1, <5>2, Dates
      <4>4. CASE ~ Billed(g) /\ givenUntil[g] = Null
        <5>1. billedUntil'[g] = billedUntil[g]
          BY <2>1, <4>4, Saved
        <5> QED
          BY <4>1, <5>1
      <4>5. CASE ~ Billed(g) /\ givenUntil[g] # Null
        <5>1. billedUntil'[g] = givenUntil[g]
          BY <2>1, <4>5, Saved
        <5>2. cancelled[g] <= givenUntil[g] /\ givenUntil[g] <= billedUntil[g]
          BY <4>5 DEF BillingInv, Given
        <5> QED
          BY <3>1, <4>1, <5>1, <5>2, Dates
      <4> QED
        BY <4>3, <4>4, <4>5
    <3>4. CASE ~ (credited[g][d] > 0)
      <4>1. Receivers(g, d) # {}
        <5>1. credited[g][d] \in Nat
          BY DEF TypeOK
        <5>2. Cardinality(Receivers(g, d)) # 0
          BY <2>2, <2>3, <3>4, <5>1
        <5> HIDE DEF Receivers
        <5> QED
          BY <5>2, FS_EmptySet
      <4>2. PICK o \in Orders : \E c \in Discounted(o) : c.order = g /\ d \in DaysOf(c)
        BY <4>1
      <4>3. PICK c \in Discounted(o) : c.order = g /\ d \in DaysOf(c)
        BY <4>2
      <4>4. c \in Members(used[o])
        BY DEF Discounted
      <4>5. Cancelled(g)
        BY <4>3, <4>4 DEF BillingInv, Credits, InCredit
      <4>6. givenUntil[g] # Null /\ givenUntil[g] <= c.ini /\ cancelled[g] <= givenUntil[g]
        BY <4>3, <4>4 DEF BillingInv, Given
      <4>7. billedUntil'[g] = givenUntil[g]
        BY <2>1, <3>2, <4>5, <4>6, Saved
      <4>8. \A k \in DOMAIN used[o] : used[o][k] \subseteq Intervals
        <5>1. used[o] \in Seq(SUBSET Intervals)
          BY DEF TypeOK
        <5> QED
          BY ONLY <5>1
      <4>9. c.ini \in Nat /\ c.end \in Nat
        BY <4>4, <4>8, Bounds DEF Members, Intervals
      <4>10. c.ini <= d
        BY <4>3, <4>9 DEF DaysOf
      <4> QED
        BY <3>1, <4>6, <4>7, <4>9, <4>10, Dates
    <3> QED
      BY <3>3, <3>4
  <2> QED
    BY <1>5, <1>6, <1>7, <2>4, <2>5, <2>6 DEF BillingInv
<1> QED
  BY <1>8, <1>9

LEMMA NextInv == TypeOK /\ BillingInv /\ [Next]_vars => (TypeOK /\ BillingInv)'
<1> SUFFICES ASSUME TypeOK, BillingInv, [Next]_vars PROVE (TypeOK /\ BillingInv)'
  OBVIOUS
<1>1. CASE NewDay
  BY <1>1, NewDayInv
<1>2. ASSUME NEW o \in Orders, Cancel(o) PROVE (TypeOK /\ BillingInv)'
  BY <1>2, CancelInv
<1>3. ASSUME NEW S \in SUBSET Orders, NEW point \in Points, StartBilling(S, point)
      PROVE  (TypeOK /\ BillingInv)'
  BY <1>3, StartBillingInv
<1>4. ASSUME NEW o \in Orders, NextReceiver(o) PROVE (TypeOK /\ BillingInv)'
  BY <1>4, NextReceiverInv
<1>5. ASSUME NEW c \in BagToSet(pending), ApplyCompensation(c)
      PROVE  (TypeOK /\ BillingInv)'
  BY <1>5, ApplyCompensationInv
<1>6. CASE ReceiverIsDone
  BY <1>6, ReceiverIsDoneInv
<1>7. ASSUME NEW commit \in BOOLEAN, FinishBilling(commit) PROVE (TypeOK /\ BillingInv)'
  BY <1>7, FinishBillingInv
<1>8. CASE UNCHANGED vars
  BY <1>8, Stuttering
<1> QED
  BY <1>1, <1>2, <1>3, <1>4, <1>5, <1>6, <1>7, <1>8 DEF Next

-----------------------------------------------------------------------------
(* The theorems. *)

\* The variables have their types and the invariant of billing holds, whatever
\* the orders are, the days they are registered and cancelled on and the order
\* they are compensated in (bill_with_orders, helpers.compensate).
THEOREM BillingInvariant == Spec => [](TypeOK /\ BillingInv)
<1> QED
  BY InitInv, NextInv, PTL DEF Spec

\* The variables always have their types.
THEOREM TypeCorrect == Spec => []TypeOK
<1> QED
  BY BillingInvariant, PTL

\* No day of an order is ever charged by two lines (generate_bill_lines saves
\* billed_until with what it charges).
THEOREM EachDayBilledOnce == Spec => []BilledOnce
<1>1. BillingInv => BilledOnce
  BY DEF BillingInv, Charges, BilledOnce
<1> QED
  BY <1>1, BillingInvariant, PTL

\* What compensate applies to an order and what it leaves of its period do not
\* overlap and are all of it.
THEOREM EachDayCompensatedOnce == Spec => []CompensatedOnce
<1>1. BillingInv => CompensatedOnce
  BY DEF BillingInv, Separate
<1> QED
  BY <1>1, BillingInvariant, PTL

\* The credits that are applied, or left to apply, are days that were paid,
\* after the cancellation of the order that gives them.
THEOREM CreditsWerePaid == Spec => []CreditsArePaid
<1>1. ASSUME TypeOK, BillingInv, NEW c \in Intervals, InCredit(c)
      PROVE  c.ini >= cancelled[c.order] /\ \A d \in DaysOf(c) : charged[c.order][d] = 1
  <2>1. c.order \in Orders /\ c.ini \in Nat /\ c.end \in Nat
    BY Bounds DEF Intervals
  <2>2. /\ billedUntil[c.order] # Null /\ cancelled[c.order] <= c.ini
        /\ c.end <= billedUntil[c.order]
    BY <1>1 DEF InCredit, Cancelled
  <2>3. Start(c.order) = billedUntil[c.order]
    BY <2>2 DEF Start
  <2>4. registered[c.order] <= cancelled[c.order]
    BY <1>1, <2>1 DEF BillingInv, Charges
  <2>5. \A d \in DaysOf(c) :
          d \in Days /\ registered[c.order] <= d /\ d < Start(c.order)
    BY <1>1, <2>1, <2>2, <2>3, <2>4, Dates DEF DaysOf, Days
  <2> QED
    BY <1>1, <2>1, <2>2, <2>5, Dates DEF BillingInv, Charges
<1>2. TypeOK /\ BillingInv => CreditsArePaid
  <2> SUFFICES ASSUME TypeOK, BillingInv,
                      NEW c \in BagToSet(pending) \cup BagToSet(rest) \cup Members(applied)
                                  \cup UNION {Members(used[o]) : o \in Orders}
               PROVE  c \in Intervals /\ InCredit(c)
    BY <1>1 DEF CreditsArePaid
  <2>1. /\ \A k \in DOMAIN applied : applied[k] \subseteq Intervals
        /\ \A o \in Orders : \A k \in DOMAIN used[o] : used[o][k] \subseteq Intervals
    BY DEF TypeOK
  <2>2. c \in Intervals
    BY <2>1 DEF TypeOK, Members
  <2>3. InCredit(c)
    BY DEF BillingInv, Credits
  <2> QED
    BY <2>2, <2>3
<1> QED
  BY <1>2, BillingInvariant, PTL

\* An order that gave days is billed until the first of them at most, and no
\* line charges or credits them again.
THEOREM GivenDaysAreGone == Spec => []GivenIsGone
<1>1. BillingInv => GivenIsGone
  BY DEF BillingInv, Gone, GivenIsGone
<1> QED
  BY <1>1, BillingInvariant, PTL

\* assign_compensations: the credits of a billing are of days that were paid, and that
\* their givers have no longer.
THEOREM CreditsStayReal == Spec => []CreditsAreReal
<1>1. CreditsArePaid /\ GivenIsGone => CreditsAreReal
  BY DEF CreditsAreReal
<1> QED
  BY <1>1, CreditsWerePaid, GivenDaysAreGone, PTL

\* A line never charges days after the cancellation of its order, not even
\* when a compensation extends it.
THEOREM NothingAfterCancellation == Spec => CancelledIsNotCharged
<1>1. ASSUME TypeOK, BillingInv, [Next]_vars, NEW o \in Orders, charged'[o] # charged[o]
      PROVE  billedUntil'[o] <= cancelled[o]
  <2>1. FinishBilling(TRUE)
    <3>1. ASSUME NewDay \/ ReceiverIsDone \/ UNCHANGED vars PROVE FALSE
      BY <1>1, <3>1 DEF NewDay, ReceiverIsDone, vars, history
    <3>2. ASSUME NEW p \in Orders, Cancel(p) \/ NextReceiver(p) PROVE FALSE
      BY <1>1, <3>2 DEF Cancel, NextReceiver, history
    <3>3. ASSUME NEW S \in SUBSET Orders, NEW point \in Points, StartBilling(S, point)
          PROVE  FALSE
      BY <1>1, <3>3 DEF StartBilling, history
    <3>4. ASSUME NEW c \in BagToSet(pending), ApplyCompensation(c) PROVE FALSE
      BY <1>1, <3>4 DEF ApplyCompensation, history
    <3>5. ASSUME NEW commit \in BOOLEAN, FinishBilling(commit) PROVE FinishBilling(TRUE)
      <4>1. commit # FALSE
        BY <1>1, <3>5 DEF FinishBilling
      <4> QED
        BY <3>5, <4>1
    <3> QED
      BY <1>1, <3>1, <3>2, <3>3, <3>4, <3>5 DEF Next
  <2>2. Billed(o)
    <3> SUFFICES ASSUME ~ Billed(o) PROVE FALSE
      OBVIOUS
    <3>1. \A d \in Days : charged'[o][d] = charged[o][d]
      BY <1>1, <2>1, Saved
    <3>2. charged'[o] \in [Days -> Nat] /\ charged[o] \in [Days -> Nat]
      BY <1>1, NextInv DEF TypeOK
    <3> QED
      BY <1>1, <3>1, <3>2
  <2> QED
    BY <1>1, <2>1, <2>2, Saved
<1>2. TypeOK /\ BillingInv /\ [Next]_vars =>
        [\A o \in Orders : charged'[o] # charged[o] => billedUntil'[o] <= cancelled[o]]_vars
  BY <1>1
<1> QED
  BY <1>2, BillingInvariant, PTL DEF Spec, CancelledIsNotCharged

===============================================================================
