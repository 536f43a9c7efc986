--------------------------------- MODULE Plans ---------------------------------
(***************************************************************************)
(* The plans of the panel, the rates a service has in each, and the plans  *)
(* that accounts contract (orchestra.contrib.plans.models): what rates an  *)
(* account gets, and what any number of units costs it.                    *)
(***************************************************************************)
EXTENDS Integers, FiniteSets, SequencesExt

CONSTANTS
  Accounts,
  Plans,      \* numbers, for plans have an order
  Default,    \* plans with is_default
  Multiple,   \* plans with allow_multiple
  Quantities, Prices,  \* of rates
  Nominal,    \* the nominal price of the service
  MaxRates,   \* rates of the service
  MaxContracts,
  Units       \* the units that are priced

VARIABLES
  method,     \* rate_algorithm of the service
  combinable, \* plans with is_combinable
  rates,      \* the rates of the service
  contracts   \* contracts[a][p]: how many times the account a contracted p

vars == <<method, combinable, rates, contracts>>

Rates == [plan : Plans, quantity : Quantities, price : Prices]

Init ==
  /\ method \in {"step", "match", "best"}
  /\ combinable \in SUBSET Plans
  /\ rates = {}
  /\ contracts = [a \in Accounts |-> [p \in Plans |-> 0]]

R == INSTANCE Ratings WITH Combinable <- combinable

-----------------------------------------------------------------------------
(* The pages of the panel *)

\* A plan has one rate of a service for each quantity.
AddRate(rate) ==
  /\ Cardinality(rates) < MaxRates
  /\ \A r \in rates : r.plan # rate.plan \/ r.quantity # rate.quantity
  /\ rates' = rates \cup {rate}
  /\ UNCHANGED <<method, combinable, contracts>>

DeleteRate(rate) ==
  /\ rate \in rates
  /\ rates' = rates \ {rate}
  /\ UNCHANGED <<method, combinable, contracts>>

Contract(a, p) ==
  /\ contracts[a][p] < MaxContracts
  /\ contracts[a][p] > 0 => p \in Multiple
  /\ contracts' = [contracts EXCEPT ![a][p] = @ + 1]
  /\ UNCHANGED <<method, combinable, rates>>

Leave(a, p) ==
  /\ contracts[a][p] > 0
  /\ contracts' = [contracts EXCEPT ![a][p] = @ - 1]
  /\ UNCHANGED <<method, combinable, rates>>

Next ==
  \/ \E rate \in Rates : AddRate(rate) \/ DeleteRate(rate)
  \/ \E a \in Accounts, p \in Plans : Contract(a, p) \/ Leave(a, p)

Spec == Init /\ [][Next]_vars

-----------------------------------------------------------------------------
(* What an account pays *)

Contracts(p) == FoldLeft(LAMBDA sum, a : sum + contracts[a][p], 0, SetToSeq(Accounts))

\* How many times the rates of a plan are in the answer of the database: once for
\* each contract of the account; those of a default plan once for each contract of
\* anybody, or once.
Copies(a, p) ==
  IF p \in Default THEN IF Contracts(p) = 0 THEN 1 ELSE Contracts(p)
  ELSE contracts[a][p]

\* Rate.objects.by_account
by_account(a) ==
  LET Earlier(r, s) == r.plan < s.plan \/ (r.plan = s.plan /\ r.quantity < s.quantity)
      At(n) == CHOOSE r \in rates : Cardinality({s \in rates : Earlier(s, r)}) = n - 1
  IN FlattenSeq([n \in 1 .. Cardinality(rates) |->
       [k \in 1 .. Copies(a, At(n).plan) |-> At(n)]])

\* The steps for some units, with each algorithm, of all the rates or of one plan's.
Answers(mine, metric) ==
  [m \in {"step", "match", "best"}, some \in {mine} \cup {R!OfPlan(mine, p) : p \in Plans} |->
     R!Rated(m, some, metric)]

\* A plan whose rates are there several times, none of them for the first unit:
\* its steps go back, with negative quantities, for each first block that is added.
GoesBack(a) ==
  /\ method = "step"
  /\ \E p \in Plans :
       /\ Copies(a, p) > 1
       /\ {r \in rates : r.plan = p} # {}
       /\ \A r \in rates : r.plan = p => r.quantity > 0

-----------------------------------------------------------------------------
(* Properties. *)

TypeOK ==
  /\ method \in {"step", "match", "best"}
  /\ combinable \subseteq Plans
  /\ rates \subseteq Rates
  /\ contracts \in [Accounts -> [Plans -> 0 .. MaxContracts]]

\* The algorithms answer for all units, no more and no less, so that get_price never
\* raises "Rating algorithm bad result".
AllUnitsArePriced(steps, metric) ==
  /\ ~R!BadResult(steps, metric)
  /\ R!Quantity(steps) = metric

\* The prices of the units, asked one by one as for concurrent orders, add up to
\* the price of all of them.
PositionsAddUp(steps, metric) ==
  LET units == [k \in 1 .. metric |-> [quantity |-> 1, price |-> R!PositionPrice(steps, k)]]
  IN R!Cost(units) = R!AccumulatedPrice(steps, metric)

\* The price of a unit is that of the last rate that begins up to it, or the nominal
\* one; a price that matches is that of the last unit; and the best price is not above
\* either of them.
FollowsTheRates(mine, answers, metric) ==
  LET steps == answers[method, mine]
      Begun(k) == SelectSeq(mine, LAMBDA rate : rate.quantity <= k)
      RateAt(k) == IF Begun(k) = << >> THEN Nominal ELSE Last(Begun(k)).price
      Pays(prices) == \A k \in 1 .. metric : R!PositionPrice(steps, k) = prices[k]
  IN CASE method = "step" -> Pays([k \in 1 .. metric |-> RateAt(k)])
       [] method = "match" -> Pays([k \in 1 .. metric |-> RateAt(metric)])
       [] method = "best" ->
            \A other \in {"step", "match"} : R!Cost(steps) <= R!Cost(answers[other, mine])

\* With the rates of one plan, contracted once.
Simple(mine) ==
  /\ mine # << >>
  /\ R!PlansOf(mine) = <<mine[1].plan>> /\ R!Distinct(mine) = R!Indices(mine)

\* Whatever the rates and contracts, all units are priced, one by one as all together,
\* as the rates say; and a plan that is not combined with others is not dearer than it
\* is alone.
UnitsArePriced ==
  \A a \in Accounts, metric \in Units :
    LET mine == by_account(a)
        answers == Answers(mine, metric)
        steps == answers[method, mine]
    IN /\ AllUnitsArePriced(steps, metric)
       /\ GoesBack(a) \/ PositionsAddUp(steps, metric)
       /\ Simple(mine) /\ metric > 0 => FollowsTheRates(mine, answers, metric)
       /\ method = "step" =>
            \A p \in Plans \ combinable :
              LET alone == R!OfPlan(mine, p)
              IN alone # << >> => R!Cost(steps) <= R!Cost(answers["step", alone])
================================================================================
