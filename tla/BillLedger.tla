------------------------------ MODULE BillLedger ------------------------------
(***************************************************************************)
(* What closing bills promises: the lines of a bill change while it is     *)
(* open; closing it is one step that gives it the next number of a year,   *)
(* charges exactly its total, and is the last that happens to it.          *)
(*                                                                         *)
(* A bill that a request spoilt, as it wrote on what it had read before    *)
(* another wrote, is promised less: no other bill suffers, no transaction  *)
(* is taken back, and the holes between numbers are numbers it had.        *)
(***************************************************************************)
EXTENDS Naturals

CONSTANTS
  Bills,
  Amounts,  \* what the lines of a bill may add up to
  Years

VARIABLES
  open,    \* open[b]: Bill.is_open
  number,  \* number[b]: Bill.number
  total,   \* total[b]: what the lines of b add up to
  charges, \* charges[b]: the amounts of its transactions
  spoilt,  \* bills that were written on reads that did not hold
  lost     \* numbers that such bills had and lost

vars == <<open, number, total, charges, spoilt, lost>>

Draft == [year |-> 0, seq |-> 0]

\* The numbers of bills in a year, and all that were ever given in it
Given(y) == {number[b].seq : b \in {c \in Bills : number[c].year = y}}
Spent(y) == Given(y) \cup {n.seq : n \in {m \in lost : m.year = y}}

\* Numbers that follow one that was given, or are the first of a year.
Following == UNION {{[year |-> y, seq |-> m + 1] : m \in {0} \cup Spent(y)} : y \in Years}

\* No other bill has n, and all numbers before it were given.
MayHave(b, n) ==
  /\ \A c \in Bills \ {b} : number[c] # n
  /\ \A m \in 1 .. n.seq - 1 : m \in Spent(n.year)

Init ==
  /\ open = [b \in Bills |-> TRUE]
  /\ number = [b \in Bills |-> Draft]
  /\ total \in [Bills -> Amounts]
  /\ charges = [b \in Bills |-> {}]
  /\ spoilt = {}
  /\ lost = {}

ChangeLines(b) ==
  /\ b \notin spoilt /\ open[b]
  /\ \E n \in Amounts : total' = [total EXCEPT ![b] = n]
  /\ UNCHANGED <<open, number, charges, spoilt, lost>>

Close(b) ==
  /\ b \notin spoilt /\ open[b]
  /\ \E n \in Following :
       MayHave(b, n) /\ number' = [number EXCEPT ![b] = n]
  /\ open' = [open EXCEPT ![b] = FALSE]
  /\ charges' = [charges EXCEPT ![b] = {total[b]}]
  /\ UNCHANGED <<total, spoilt, lost>>

Disturb(b) ==
  /\ spoilt' = spoilt \cup {b}
  /\ \E n \in Following \cup {Draft} :
       /\ n = Draft \/ MayHave(b, n)
       /\ number' = [number EXCEPT ![b] = n]
       /\ open' = [open EXCEPT ![b] = n = Draft]
       /\ lost' = lost \cup ({number[b]} \ {n, Draft})
  /\ \E n \in Amounts : total' = [total EXCEPT ![b] = n]
  /\ \E more \in SUBSET Amounts : charges' = [charges EXCEPT ![b] = @ \cup more]

Next == \E b \in Bills : ChangeLines(b) \/ Close(b) \/ Disturb(b)

Spec == Init /\ [][Next]_vars

===============================================================================
