-------------------------------- MODULE Ratings --------------------------------
(***************************************************************************)
(* How many units of a service at what price (orchestra.contrib.plans      *)
(* .ratings): rates, ordered by plan and quantity, say from which quantity *)
(* on a price holds in a plan.  The rates of a plan that is contracted     *)
(* several times are there as many times.                                  *)
(*                                                                         *)
(* An answer is a sequence of steps, each a quantity and its price, or     *)
(* Nothing.                                                                *)
(***************************************************************************)
EXTENDS Integers, FiniteSets, SequencesExt

CONSTANTS
  Nominal,    \* the nominal price of the service
  Combinable  \* the plans that can be combined with others

Nothing == << >>

Quantity(steps) == FoldLeft(LAMBDA sum, step : sum + step.quantity, 0, steps)
Cost(steps) == FoldLeft(LAMBDA sum, step : sum + step.quantity * step.price, 0, steps)

\* sort(key=price), which keeps the order of equal prices.
ByPrice(s) ==
  LET Earlier(i, j) == s[i].price < s[j].price \/ (s[i].price = s[j].price /\ i < j)
      At(n) == CHOOSE i \in DOMAIN s : Cardinality({j \in DOMAIN s : Earlier(j, i)}) = n - 1
  IN [n \in DOMAIN s |-> s[At(n)]]

\* The steps that have a price are put together with the ones before.
Push(steps, quantity, price) ==
  IF steps # << >> /\ Last(steps).price = price
  THEN [steps EXCEPT ![Len(steps)].quantity = @ + quantity]
  ELSE Append(steps, [quantity |-> quantity, price |-> price])

Indices(rates) == [i \in DOMAIN rates |-> i]

\* group_by('plan')
OfPlan(rates, plan) == SelectSeq(rates, LAMBDA rate : rate.plan = plan)
PlansOf(rates) ==
  LET Begins(i) == i = 1 \/ rates[i - 1].plan # rates[i].plan
      first == SelectSeq(Indices(rates), Begins)
  IN [k \in DOMAIN first |-> rates[first[k]].plan]

\* The block that is missing before the first rate has the nominal price.
Standardize(rates) ==
  LET minimal == rates[1].quantity IN
  FlattenSeq([i \in DOMAIN rates |->
    IF rates[i].quantity = minimal /\ minimal > 0
    THEN <<[rates[i] EXCEPT !.quantity = 0, !.price = Nominal], rates[i]>>
    ELSE <<rates[i]>>])

-----------------------------------------------------------------------------
(* Step price: each block of units has the price of its rate *)

\* The last of each rate that is there several times.
Distinct(rates) ==
  LET Ends(i) == i = Len(rates) \/ rates[i] # rates[i + 1] IN SelectSeq(Indices(rates), Ends)

\* A slip: the block of the first units has as many as its rate is away from the next one.
BlockFromZero(rates, i, fold) ==
  LET width == rates[i + 1].quantity - rates[i].quantity
  IN [width |-> width,
      units |-> IF rates[i + 1].price > rates[i].price THEN width * fold ELSE width]

\* A cheaper block is as many times as large as its plan was contracted.
BlockOf(rates, i, fold) ==
  LET width == rates[i + 1].quantity - (IF rates[i].quantity > 1 THEN rates[i].quantity ELSE 1)
  IN [width |-> width,
      units |-> IF rates[i + 1].price > rates[i].price THEN width * fold ELSE width]

\* The steps of one plan.  The last rate, or the one that reaches the metric, takes
\* what is left.
ComputeSteps(rates, metric) ==
  LET Rest(sofar) == [width |-> metric - sofar.accumulated, units |-> metric - sofar.accumulated]
      AddStep(sofar, i) ==
        LET block == IF i = Len(rates) THEN Rest(sofar) ELSE BlockOf(rates, i, i - sofar.last)
            cut == sofar.accumulated + block.units > metric
            units == IF cut THEN metric - sofar.accumulated ELSE block.units
        IN IF sofar.end THEN sofar
           ELSE [steps |-> Append(sofar.steps, [quantity |-> units, price |-> rates[i].price,
                                                barrier |-> sofar.barrier]),
                 accumulated |-> sofar.accumulated + units,
                 barrier |-> sofar.barrier + block.width, last |-> i, end |-> cut]
      nothing == [steps |-> << >>, accumulated |-> 0, barrier |-> 1, last |-> 0, end |-> FALSE]
  IN FoldLeft(AddStep, nothing, Distinct(rates)).steps

\* What remains of a step after some of it was taken.
Use(steps, ix, quantity) ==
  IF steps[ix].quantity = quantity THEN RemoveAt(steps, ix)
  ELSE [steps EXCEPT ![ix].quantity = @ - quantity]

\* Combine the steps of several plans, by price: a step may be taken once its barrier
\* is reached.  When a cheaper one comes within reach meanwhile, part of the step is
\* left.
RECURSIVE Merge(_, _, _, _)
Merge(steps, metric, counter, result) ==
  LET open == {i \in DOMAIN steps : steps[i].barrier <= counter + 1}
      ix == CHOOSE i \in open : \A j \in open : i <= j
      step == steps[ix]
      reached == {i \in 1 .. ix - 1 : counter + step.quantity >= steps[i].barrier}
      target == steps[CHOOSE i \in reached : \A j \in reached : i <= j].barrier
      part == counter + step.quantity + 1 - target
  IN IF counter >= metric THEN result
     ELSE IF counter + step.quantity > metric
     THEN Push(result, metric - counter, step.price)
     ELSE IF reached # {}
     THEN Merge(Use(steps, ix, part), metric, counter + part, Push(result, part, step.price))
     ELSE Merge(RemoveAt(steps, ix), metric, counter + step.quantity,
                Push(result, step.quantity, step.price))

\* The cheapest of the plans that are not combinable and of the combination of the
\* others.  A single combinable plan is not computed, but the last plan again.
step_price(rates, metric) ==
  LET plans == PlansOf(rates)
      steps == [i \in DOMAIN plans |->
                  ComputeSteps(Standardize(OfPlan(rates, plans[i])), metric)]
      alone == SelectSeq(Indices(plans), LAMBDA i : plans[i] \notin Combinable)
      group == SelectSeq(Indices(plans), LAMBDA i : plans[i] \in Combinable)
      StepsOf(indices) == [k \in DOMAIN indices |-> steps[indices[k]]]
      together ==
        IF Len(group) = 0 THEN << >>
        ELSE IF Len(group) = 1 THEN <<Last(steps)>>
        ELSE <<Merge(ByPrice(FlattenSeq(StepsOf(group))), metric, 0, << >>)>>
      answers == StepsOf(alone) \o together
      Better(best, other) == IF Cost(other) < Cost(best) THEN other ELSE best
  IN FoldLeft(Better, answers[1], Tail(answers))

-----------------------------------------------------------------------------
(* Match price: all units have the price of one rate *)

\* Of each plan, the rate before the first that begins after the metric; the first
\* block that may be missing is that of the first plan.
match_price(rates, metric) ==
  LET New(i) == \A j \in 1 .. i - 1 : rates[j] # rates[i]
      distinct == SelectSeq(Indices(rates), New)
      all == Standardize([k \in DOMAIN distinct |-> rates[distinct[k]]])
      Fits(prev) == prev.quantity <= metric
      Found(sofar, prev) == IF Fits(prev) THEN Append(sofar, prev) ELSE sofar
      Visit(sofar, i) ==
        LET prev == all[i - 1]
            left == IF prev.plan # all[i].plan
                    THEN [selected |-> FALSE,
                          candidates |-> IF sofar.selected THEN sofar.candidates
                                         ELSE Found(sofar.candidates, prev)]
                    ELSE sofar
        IN IF ~left.selected /\ all[i].quantity > metric
           THEN [selected |-> Fits(prev), candidates |-> Found(left.candidates, prev)]
           ELSE left
      end == FoldLeft(Visit, [selected |-> FALSE, candidates |-> << >>],
                      Tail(Indices(all)))
      candidates == IF end.selected THEN end.candidates ELSE Found(end.candidates, Last(all))
  IN IF candidates = << >> THEN Nothing
     ELSE <<[quantity |-> metric, price |-> ByPrice(candidates)[1].price]>>

-----------------------------------------------------------------------------
(* Best price: the cheapest rates first, each up to where it is replaced *)

\* The rates of a plan that the metric reaches, each up to the next one; consecutive
\* rates of the same price are one, that many times.
Candidates(rates, metric) ==
  LET Consider(sofar, rate) ==
        IF sofar.end \/ rate.quantity > metric THEN [sofar EXCEPT !.end = TRUE]
        ELSE LET n == Len(sofar.found)
                 new == [price |-> rate.price, quantity |-> metric, fold |-> 1]
             IN IF n = 0 THEN [sofar EXCEPT !.found = <<new>>]
                ELSE IF sofar.found[n].price = rate.price
                THEN [sofar EXCEPT !.found[n].fold = @ + 1]
                ELSE [sofar EXCEPT !.found =
                        Append([@ EXCEPT ![n].quantity = rate.quantity - 1], new)]
  IN FoldLeft(Consider, [found |-> << >>, end |-> FALSE], rates).found

best_price(rates, metric) ==
  LET plans == PlansOf(rates)
      candidates == ByPrice(FlattenSeq([i \in DOMAIN plans |->
                      Candidates(Standardize(OfPlan(rates, plans[i])), metric)]))
      Take(sofar, c) ==
        LET whole == c.quantity * c.fold
            units == IF sofar.accumulated + whole > metric THEN metric - sofar.accumulated
                     ELSE whole
        IN IF c.quantity < sofar.accumulated THEN sofar
           ELSE [accumulated |-> sofar.accumulated + units,
                 steps |-> IF units = 0 THEN sofar.steps ELSE Push(sofar.steps, units, c.price)]
  IN FoldLeft(Take, [accumulated |-> 0, steps |-> << >>], candidates).steps

-----------------------------------------------------------------------------
(* What a service charges (Service.get_price) *)

rate_method(method, rates, metric) ==
  CASE method = "step" -> step_price(rates, metric)
    [] method = "match" -> match_price(rates, metric)
    [] method = "best" -> best_price(rates, metric)

\* Without rates, or when none applies, all units have the nominal price.
Rated(method, rates, metric) ==
  LET steps == IF rates = << >> THEN Nothing ELSE rate_method(method, rates, metric)
  IN IF steps = Nothing THEN <<[quantity |-> metric, price |-> Nominal]>> ELSE steps

\* How many units the first steps have.
Reached(steps, i) == Quantity(SubSeq(steps, 1, i))

\* The first step with which there are enough units, if any.
Enough(steps, units) ==
  LET found == {i \in DOMAIN steps : Reached(steps, i) >= units}
  IN IF found = {} THEN 0 ELSE CHOOSE i \in found : \A j \in found : i <= j

\* RuntimeError: Rating algorithm bad result
BadResult(steps, units) == Enough(steps, units) = 0

\* The price of all units; what the last step has beyond the metric is not charged.
AccumulatedPrice(steps, metric) ==
  LET i == Enough(steps, metric)
  IN Cost(SubSeq(steps, 1, i - 1)) + (metric - Reached(steps, i - 1)) * steps[i].price

\* The price of the unit that has a position.
PositionPrice(steps, position) == steps[Enough(steps, position)].price

\* The price of each unit, by how many there are.
UnitPrices(methods, tariffs, most) ==
  [m \in methods, rates \in tariffs, metric \in 1 .. most |->
     LET steps == Rated(m, rates, metric)
     IN [position \in 1 .. metric |-> PositionPrice(steps, position)]]
================================================================================
