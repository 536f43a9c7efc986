--------------------------- MODULE Accounting_proofs ---------------------------
(***************************************************************************)
(* Proofs about what customers are charged by, in three sections:          *)
(*   - the closing of bills (BillClosing), for any bills, users, amounts   *)
(*     and years, and any of them at the same bill,                        *)
(*   - the wizard of billing (BillingWizard),                              *)
(*   - the monitoring of traffic (TrafficMonitor), with sums of rows.      *)
(* Each defines the invariant its properties follow from, what the         *)
(* component keeps between its steps, and shows that it is inductive.      *)
(* Constants have any values that the assumptions of the components allow. *)
(***************************************************************************)
EXTENDS BillClosing, Hosting, Integers, FiniteSets, Sequences, NaturalsInduction,
        WellFoundedInduction, FiniteSetTheorems, TLAPS

-----------------------------------------------------------------------------
(* The closing of bills *)

\* Numbers that were given in a year are the first ones, and no two bills have the same.
NumbersKept ==
  \A y \in 1 .. MaxYear : \A n \in Spent(y) :
    n \in Nat \ {0} /\ \A m \in 1 .. (n - 1) : m \in Spent(y)

Unique ==
  \A b, c \in Bills : number[b] = number[c] /\ number[b] # Draft => b = c

\* What a request writes of a number was given, or comes next.
RequestHolds(u) ==
  LET row == visit[u].row IN
  /\ visit[u].at = "save" =>
       /\ row.number \in Numbers
       /\ \A m \in 1 .. (row.number.seq - 1) : m \in Spent(row.number.year)
  /\ visit[u].at = "edit" =>
       /\ row.open <=> row.number = Draft
       /\ row.number # Draft => row.number.seq \in Spent(row.number.year)

\* What a request read holds, unless another was at its bill.
AloneHolds(u) ==
  LET b == visit[u].bill  row == visit[u].row IN
  b \in shared \/
    /\ visit[u].at \in {"close", "save", "billing"} => open[b]
    /\ visit[u].at \in {"close", "save"} => row.total = total[b]
    /\ visit[u].at = "edit" => row.open = open[b] /\ row.number = number[b]

AloneAtBill ==
  \A u, v \in Users :
    ~ Idle(u) /\ ~ Idle(v) /\ u # v /\ visit[u].bill = visit[v].bill => visit[u].bill \in shared

\* What the rows of bills are, and what the requests in progress may rely on.
RowsInv == OpenIsDraft /\ ChargedItsTotal /\ SpoiltByOverlap

RequestsInv ==
  AloneAtBill /\ \A u \in Users : ~ Idle(u) => RequestHolds(u) /\ AloneHolds(u)

BillsInv == TypeOK /\ NumbersKept /\ Unique /\ RowsInv /\ RequestsInv

(* Numbers. *)

LEMMA SpentMember ==
  ASSUME NEW y, NEW n
  PROVE  n \in Spent(y) <=> \/ \E b \in Bills : number[b].year = y /\ number[b].seq = n
                            \/ \E m \in lost : m.year = y /\ m.seq = n
  BY DEF Spent, Given

\* A bounded set of numbers has a greatest one.
LEMMA GreatestExists ==
  ASSUME NEW N \in Nat, NEW S \in SUBSET (0 .. N), S # {}
  PROVE  \E m \in S : \A x \in S : x <= m
  <1> DEFINE R == {ss \in Nat \X Nat : ss[1] < ss[2]}
             T == {N - x : x \in S}
  <1>1. IsWellFoundedOn(R, Nat)
    BY NatLessThanWellFounded DEF OpToRel
  <1>2. \A x \in S : x \in Nat /\ N - x \in Nat /\ N - (N - x) = x
    OBVIOUS
  <1>3. T \in SUBSET Nat /\ T # {}
    BY <1>2, Zenon
  <1>4. PICK t \in T : \A y \in T : ~ (<<y, t>> \in R)
    <2> HIDE DEF R, T
    <2>1. QED BY <1>1, <1>3, WFMin, Zenon
  <1>5. PICK m \in S : t = N - m
    OBVIOUS
  <1>6. ASSUME NEW x \in S PROVE x <= m
    <2>1. <<N - x, t>> \notin R /\ N - x \in Nat /\ N - m \in Nat
      BY <1>2, <1>4
    <2>2. ~(N - x < N - m)
      BY <1>5, <2>1
    <2>3. QED
      BY <1>2, <2>2
  <1>7. QED
    BY <1>6

LEMMA NextAfterSpent ==
  ASSUME NumbersKept, NEW y \in 1 .. MaxYear
  PROVE  /\ NextNumber(y) \in Nat \ {0}
         /\ \A m \in 1 .. (NextNumber(y) - 1) : m \in Spent(y)
  <1> DEFINE S == {0} \cup (Given(y) \cap 1 .. Limit)
  <1>1. Limit \in Nat /\ S \in SUBSET (0 .. Limit) /\ 0 \in S
    BY BillAssumption
  <1>2. PICK m \in S : \A x \in S : x <= m
    <2> HIDE DEF S
    <2>1. S # {}
      BY <1>1
    <2> QED BY <1>1, <2>1, GreatestExists
  <1>3. m >= m /\ \A x \in S : m >= x
    BY <1>1, <1>2
  <1>4. Max(S) \in S /\ \A x \in S : Max(S) >= x
    <2> HIDE DEF S
    <2> QED BY <1>3 DEF Max
  <1>5. NextNumber(y) = Max(S) + 1
    BY DEF NextNumber
  <1> DEFINE last == Max(S)
  <1>6. last \in Nat /\ (last = 0 \/ last \in Given(y))
    BY <1>1, <1>4
  <1> HIDE DEF last, S
  <1>7. last # 0 => last \in Spent(y)
    BY <1>6 DEF Spent
  <1>8. \A n \in 1 .. last : n \in Spent(y)
    <2>1. CASE last = 0
      BY <2>1
    <2>2. CASE last # 0
      BY <1>6, <1>7, <2>2 DEF NumbersKept
    <2> QED BY <2>1, <2>2
  <1> QED BY <1>5, <1>6, <1>8 DEF last

\* What is spent by a write of a number.
LEMMA SpentByWrite ==
  ASSUME TypeOK, NEW b \in Bills, NEW n \in Numbers \cup {Draft}, NEW y \in 1 .. MaxYear,
         number' = [number EXCEPT ![b] = n], lost' = lost \cup ({number[b]} \ {Draft, n})
  PROVE  Spent(y)' = Spent(y) \cup (IF n.year = y THEN {n.seq} ELSE {})
  <1>1. number'[b] = n /\ \A c \in Bills \ {b} : number'[c] = number[c]
    BY DEF TypeOK
  <1>2. Draft.year # y
    BY DEF Draft
  <1>3. ASSUME NEW k
        PROVE  k \in Spent(y)' <=> k \in Spent(y) \cup (IF n.year = y THEN {n.seq} ELSE {})
    <2>1. k \in Spent(y) <=> \/ \E c \in Bills : number[c].year = y /\ number[c].seq = k
                             \/ \E m \in lost : m.year = y /\ m.seq = k
      BY SpentMember
    <2>2. k \in Spent(y)' <=> \/ \E c \in Bills : number'[c].year = y /\ number'[c].seq = k
                              \/ \E m \in lost' : m.year = y /\ m.seq = k
      BY DEF Spent, Given
    <2>3. k \in Spent(y)' => k \in Spent(y) \/ (n.year = y /\ n.seq = k)
      BY <1>1, <2>1, <2>2
    <2>4. n.year = y /\ n.seq = k => k \in Spent(y)'
      BY <1>1, <2>2
    <2>5. k \in Spent(y) => k \in Spent(y)'
      <3>1. ASSUME NEW c \in Bills, number[c].year = y, number[c].seq = k PROVE k \in Spent(y)'
        <4>1. CASE c # b
          BY <1>1, <2>2, <3>1, <4>1
        <4>2. CASE c = b /\ number[b] # n
          <5>1. number[b] # Draft
            BY <1>2, <3>1, <4>2
          <5>2. number[b] \in lost'
            BY <4>2, <5>1
          <5> QED BY <2>2, <3>1, <4>2, <5>2
        <4>3. CASE c = b /\ number[b] = n
          BY <1>1, <2>2, <3>1, <4>3
        <4> QED BY <4>1, <4>2, <4>3
      <3>2. ASSUME NEW m \in lost, m.year = y, m.seq = k PROVE k \in Spent(y)'
        BY <2>2, <3>2
      <3> QED BY <2>1, <3>1, <3>2
    <2> QED BY <2>3, <2>4, <2>5
  <1> QED BY <1>3

LEMMA SpentSame ==
  ASSUME UNCHANGED <<number, lost>>, NEW y
  PROVE  Spent(y)' = Spent(y)
  BY DEF Spent, Given

LEMMA NumbersSame ==
  ASSUME UNCHANGED <<number, lost>>, NumbersKept, Unique
  PROVE  NumbersKept' /\ Unique'
  <1>1. \A y \in 1 .. MaxYear : Spent(y)' = Spent(y)
    BY SpentSame
  <1> QED BY <1>1 DEF NumbersKept, Unique

\* A write of a number that was given, or comes next, and that nobody else has.
LEMMA NumbersByWrite ==
  ASSUME TypeOK, NumbersKept, Unique, NEW b \in Bills, NEW n \in Numbers \cup {Draft},
         number' = [number EXCEPT ![b] = n], lost' = lost \cup ({number[b]} \ {Draft, n}),
         ~ IsTaken(b, n),
         n # Draft => \A m \in 1 .. (n.seq - 1) : m \in Spent(n.year)
  PROVE  /\ NumbersKept' /\ Unique'
         /\ \A y \in 1 .. MaxYear : Spent(y) \subseteq Spent(y)'
  <1>1. \A y \in 1 .. MaxYear :
          Spent(y)' = Spent(y) \cup (IF n.year = y THEN {n.seq} ELSE {})
    BY SpentByWrite
  <1>2. NumbersKept'
    <2> SUFFICES ASSUME NEW y \in 1 .. MaxYear, NEW k \in Spent(y)'
                 PROVE  k \in Nat \ {0} /\ \A m \in 1 .. (k - 1) : m \in Spent(y)'
      BY DEF NumbersKept
    <2>1. CASE k \in Spent(y)
      BY <1>1, <2>1 DEF NumbersKept
    <2>2. CASE n.year = y /\ k = n.seq
      <3>1. n # Draft
        BY <2>2 DEF Draft
      <3>2. n.seq \in Nat \ {0}
        BY <3>1 DEF Numbers
      <3> QED BY <1>1, <2>2, <3>1, <3>2
    <2> QED BY <1>1, <2>1, <2>2
  <1>3. number'[b] = n /\ \A c \in Bills \ {b} : number'[c] = number[c]
    BY DEF TypeOK
  <1>4. n = Draft \/ \A c \in Bills \ {b} : number[c] # n
    BY DEF IsTaken
  <1>5. Unique'
    BY <1>3, <1>4 DEF Unique
  <1> QED BY <1>1, <1>2, <1>5

(* Types. *)

LEMMA StartTypes ==
  ASSUME TypeOK, NEW u \in Users, NEW b \in Bills, NEW at \in {"close", "edit", "billing"},
         NEW mail \in {"none", "list", "page"}, NEW row \in {Read(b), Computed(b)},
         Starts(u, b, at, mail, row)
  PROVE  TypeOK'
  <1>1. row \in Instances
    <2>1. Read(b) \in Instances /\ Computed(b) \in Instances
      BY BillAssumption DEF TypeOK, Read, Computed, Instances, Amounts
    <2> QED BY <2>1
  <1>2. [at |-> at, bill |-> b, mail |-> mail, row |-> row] \in Visits
    BY <1>1 DEF Visits
  <1>3. visit' \in [Users -> Visits \cup {Nothing}]
    BY <1>2 DEF TypeOK, Starts
  <1> QED BY <1>3 DEF TypeOK, Starts, billRows

LEMMA EndTypes ==
  ASSUME TypeOK, NEW u \in Users, Ends(u)
  PROVE  visit' \in [Users -> Visits \cup {Nothing}]
  BY DEF TypeOK, Ends

LEMMA RequestType ==
  ASSUME TypeOK, NEW u \in Users, ~ Idle(u)
  PROVE  /\ visit[u] \in Visits /\ visit[u].bill \in Bills
         /\ visit[u].row \in Instances
         /\ visit[u].row.number \in Numbers \cup {Draft}
         /\ visit[u].row.open \in BOOLEAN /\ visit[u].row.total \in Amounts
  <1>1. visit[u] \in Visits
    BY DEF TypeOK, Idle, Nothing
  <1> QED BY <1>1 DEF Visits, Instances

LEMMA NumberTypes ==
  ASSUME TypeOK, NumbersKept, NEW u \in Users, GetNumber(u)
  PROVE  TypeOK'
  <1>1. visit[u] \in Visits
    BY RequestType DEF GetNumber, Idle
  <1>2. [year |-> year, seq |-> NextNumber(year)] \in Numbers
    BY NextAfterSpent DEF TypeOK, Numbers
  <1>3. visit' = [visit EXCEPT ![u].at = "save",
                                ![u].row.number = [year |-> year, seq |-> NextNumber(year)]]
    BY DEF GetNumber
  <1>4. visit'[u] \in Visits
    BY <1>1, <1>2, <1>3 DEF TypeOK, Visits, Instances
  <1>5. visit' \in [Users -> Visits \cup {Nothing}]
    BY <1>3, <1>4 DEF TypeOK
  <1> QED BY <1>5 DEF TypeOK, GetNumber, billRows, history

LEMMA SpoilsTypes ==
  ASSUME TypeOK, NEW u \in Users, ~ Idle(u), NEW holds, Spoils(u, holds)
  PROVE  /\ drafts' \subseteq Bills /\ shared' \subseteq Bills /\ spoilt' \subseteq Bills
         /\ lost' \subseteq Numbers
  <1>1. visit[u].bill \in Bills
    BY RequestType
  <1>2. number[visit[u].bill] \in Numbers \cup {Draft}
    BY <1>1 DEF TypeOK
  <1> QED BY <1>1, <1>2 DEF TypeOK, Spoils

LEMMA CloseTypes ==
  ASSUME TypeOK, NEW u \in Users, SaveClosed(u)
  PROVE  TypeOK'
  <1> DEFINE b == visit[u].bill
             row == visit[u].row
  <1>1. visit[u] \in Visits /\ ~ Idle(u) /\ b \in Bills
        /\ row.number \in Numbers \cup {Draft} /\ row.total \in Amounts
    BY RequestType DEF SaveClosed, Idle
  <1>2. /\ open' = [open EXCEPT ![b] = FALSE]
        /\ number' = [number EXCEPT ![b] = row.number]
        /\ charges' = [charges EXCEPT ![b] = Append(@, row.total)]
        /\ visit' = [visit EXCEPT ![u] = IF @.mail = "none" THEN Nothing ELSE [@ EXCEPT !.at = "send"]]
        /\ total' = total /\ year' = year
    BY DEF SaveClosed
  <1>3. [visit[u] EXCEPT !.at = "send"] \in Visits
    BY <1>1 DEF Visits
  <1>4. visit' \in [Users -> Visits \cup {Nothing}]
    BY <1>2, <1>3 DEF TypeOK
  <1>5. charges' \in [Bills -> Seq(Amounts)]
    BY <1>1, <1>2 DEF TypeOK
  <1>6. open' \in [Bills -> BOOLEAN] /\ number' \in [Bills -> Numbers \cup {Draft}]
    BY <1>1, <1>2 DEF TypeOK
  <1>7. /\ drafts' \subseteq Bills /\ shared' \subseteq Bills /\ spoilt' \subseteq Bills
        /\ lost' \subseteq Numbers
    BY <1>1, SpoilsTypes DEF SaveClosed
  <1> QED BY <1>2, <1>4, <1>5, <1>6, <1>7 DEF TypeOK

LEMMA EditTypes ==
  ASSUME TypeOK, NEW u \in Users, SaveEdit(u)
  PROVE  TypeOK'
  <1> DEFINE b == visit[u].bill
             row == visit[u].row
  <1>1. ~ Idle(u) /\ b \in Bills
        /\ row.number \in Numbers \cup {Draft} /\ row.open \in BOOLEAN
    BY RequestType DEF SaveEdit, Idle
  <1>2. PICK n \in Amounts : total' = [total EXCEPT ![b] = n]
    BY DEF SaveEdit
  <1>3. total' \in [Bills -> Amounts]
    BY <1>1, <1>2 DEF TypeOK
  <1>4. open' = [open EXCEPT ![b] = row.open]
    BY DEF SaveEdit
  <1>5. open' \in [Bills -> BOOLEAN]
    BY <1>1, <1>4, Zenon DEF TypeOK
  <1>6. number' \in [Bills -> Numbers \cup {Draft}]
    BY <1>1 DEF TypeOK, SaveEdit
  <1>7. /\ drafts' \subseteq Bills /\ shared' \subseteq Bills /\ spoilt' \subseteq Bills
        /\ lost' \subseteq Numbers
    BY <1>1, SpoilsTypes DEF SaveEdit
  <1> QED BY <1>3, <1>5, <1>6, <1>7, EndTypes DEF TypeOK, SaveEdit

LEMMA TypeStep ==
  ASSUME TypeOK, NumbersKept, [Next]_vars
  PROVE  TypeOK'
  <1>1. ASSUME NEW u \in Users, NEW b \in Bills, NEW mail \in Mails, StartClose(u, b, mail)
        PROVE  TypeOK'
    BY <1>1, StartTypes, BillAssumption DEF StartClose
  <1>2. ASSUME NEW u \in Users, NEW b \in Bills, StartEdit(u, b) PROVE TypeOK'
    BY <1>2, StartTypes DEF StartEdit
  <1>3. ASSUME NEW u \in Users, NEW b \in Bills, StartBilling(u, b) PROVE TypeOK'
    BY <1>3, StartTypes DEF StartBilling
  <1>4. ASSUME NEW u \in Users, GetNumber(u) PROVE TypeOK'
    BY <1>4, NumberTypes
  <1>5. ASSUME NEW u \in Users, SaveClosed(u) PROVE TypeOK'
    BY <1>5, CloseTypes
  <1>6. ASSUME NEW u \in Users, NumberIsTaken(u) \/ Fails(u) PROVE TypeOK'
    BY <1>6, EndTypes DEF TypeOK, NumberIsTaken, Fails, billRows, history
  <1>7. ASSUME NEW u \in Users, MailClosed(u) PROVE TypeOK'
    <2>1. visit[u].bill \in Bills
      BY <1>7, RequestType DEF MailClosed, Idle
    <2> QED BY <1>7, <2>1, EndTypes DEF TypeOK, MailClosed, billRows
  <1>8. ASSUME NEW u \in Users, SaveEdit(u) PROVE TypeOK'
    BY <1>8, EditTypes
  <1>9. ASSUME NEW u \in Users, AddLines(u) PROVE TypeOK'
    <2>1. visit[u].bill \in Bills
      BY <1>9, RequestType DEF AddLines, Idle
    <2> QED BY <1>9, <2>1, EndTypes DEF TypeOK, AddLines
  <1>10. CASE NewYear
    BY <1>10, BillAssumption DEF TypeOK, NewYear, billRows, history
  <1>11. CASE UNCHANGED vars
    BY <1>11 DEF TypeOK, vars
  <1> QED BY <1>1, <1>2, <1>3, <1>4, <1>5, <1>6, <1>7, <1>8, <1>9, <1>10, <1>11
    DEF Next

(* Requests that leave the rows of bills as they are. *)

LEMMA RowsSame ==
  ASSUME RowsInv, UNCHANGED <<open, number, total, charges, spoilt>>, shared \subseteq shared'
  PROVE  RowsInv'
  BY DEF RowsInv, OpenIsDraft, ChargedItsTotal, SpoiltByOverlap

\* A request that was at work goes on to hold what it holds when rows stay.
LEMMA OthersHold ==
  ASSUME RequestsInv, UNCHANGED <<open, number, total, lost>>, shared \subseteq shared',
         NEW v \in Users, ~ Idle(v), visit'[v] = visit[v]
  PROVE  RequestHolds(v)' /\ AloneHolds(v)'
  <1>1. \A y : Spent(y)' = Spent(y)
    BY SpentSame
  <1>2. RequestHolds(v)'
    BY <1>1 DEF RequestsInv, RequestHolds
  <1>3. AloneHolds(v)'
    BY DEF RequestsInv, AloneHolds
  <1> QED BY <1>2, <1>3

LEMMA StartKeeps ==
  ASSUME TypeOK, RowsInv, RequestsInv, NEW u \in Users, NEW b \in Bills,
         NEW at \in {"close", "edit", "billing"}, NEW mail, NEW row, Starts(u, b, at, mail, row),
         at = "edit" => row = Read(b),
         at \in {"close", "billing"} => open[b],
         at = "close" => row.total = total[b]
  PROVE  RowsInv' /\ RequestsInv'
  <1> DEFINE new == [at |-> at, bill |-> b, mail |-> mail, row |-> row]
  <1>1. visit'[u] = new /\ \A v \in Users \ {u} : visit'[v] = visit[v]
    BY DEF Starts, TypeOK
  <1>2. /\ UNCHANGED <<open, number, total, charges, spoilt, lost>> /\ Idle(u)
        /\ shared' = shared \cup {c \in {b} : \E v \in Users : ~ Idle(v) /\ visit[v].bill = c}
    BY DEF Starts, billRows
  <1>3. RowsInv'
    BY <1>2, RowsSame
  <1>4. \A v \in Users \ {u} : Idle(v)' = Idle(v)
    BY <1>1 DEF Idle
  <1>5. \A v \in Users \ {u} : ~ Idle(v) => RequestHolds(v)' /\ AloneHolds(v)'
    BY <1>1, <1>2, OthersHold
  <1>6. at = "edit" => row.open = open[b] /\ row.number = number[b]
    BY DEF Read
  <1>7. AloneHolds(u)'
    BY <1>1, <1>2, <1>6 DEF AloneHolds
  <1>8. RequestHolds(u)'
    <2>1. visit'[u].at # "save" /\ visit'[u].at = at /\ visit'[u].row = row
      BY <1>1
    <2>2. at = "edit" => (row.open <=> row.number = Draft)
      BY <1>6 DEF RowsInv, OpenIsDraft
    <2>3. at = "edit" /\ row.number # Draft => row.number.seq \in Spent(row.number.year)
      BY <1>6 DEF Spent, Given
    <2>4. \A y : Spent(y)' = Spent(y)
      BY <1>2, SpentSame
    <2> QED BY <2>1, <2>2, <2>3, <2>4 DEF RequestHolds
  <1>9. AloneAtBill'
    <2> SUFFICES ASSUME NEW v \in Users, NEW w \in Users, v # w,
                        ~ Idle(v)', ~ Idle(w)', visit'[v].bill = visit'[w].bill
                 PROVE  visit'[v].bill \in shared'
      BY DEF AloneAtBill
    <2>1. CASE v # u /\ w # u
      BY <1>1, <1>2, <1>4, <2>1 DEF RequestsInv, AloneAtBill
    <2>2. CASE v = u
      BY <1>1, <1>2, <1>4, <2>2
    <2>3. CASE w = u
      BY <1>1, <1>2, <1>4, <2>3
    <2> QED BY <2>1, <2>2, <2>3
  <1> QED BY <1>3, <1>4, <1>5, <1>7, <1>8, <1>9 DEF RequestsInv

LEMMA EndKeeps ==
  ASSUME TypeOK, RowsInv, RequestsInv, NEW u \in Users, Ends(u),
         UNCHANGED <<open, number, total, charges, spoilt, lost, shared>>
  PROVE  RowsInv' /\ RequestsInv'
  <1>1. visit'[u] = Nothing /\ \A v \in Users \ {u} : visit'[v] = visit[v]
    BY DEF Ends, TypeOK
  <1>2. Idle(u)' /\ \A v \in Users \ {u} : Idle(v)' = Idle(v)
    BY <1>1 DEF Idle, Nothing
  <1>3. \A v \in Users \ {u} : ~ Idle(v) => RequestHolds(v)' /\ AloneHolds(v)'
    BY <1>1, OthersHold
  <1>4. AloneAtBill'
    BY <1>1, <1>2 DEF RequestsInv, AloneAtBill
  <1> QED BY <1>2, <1>3, <1>4, RowsSame DEF RequestsInv

LEMMA StayKeeps ==
  ASSUME RowsInv, RequestsInv, UNCHANGED <<open, number, total, charges, visit, spoilt, lost, shared>>
  PROVE  RowsInv' /\ RequestsInv'
  <1>1. \A v \in Users : Idle(v)' = Idle(v)
    BY DEF Idle
  <1>2. \A v \in Users : ~ Idle(v) => RequestHolds(v)' /\ AloneHolds(v)'
    BY OthersHold
  <1>3. AloneAtBill'
    BY <1>1 DEF RequestsInv, AloneAtBill
  <1> QED BY <1>1, <1>2, <1>3, RowsSame DEF RequestsInv

LEMMA NumberKeeps ==
  ASSUME TypeOK, NumbersKept, RowsInv, RequestsInv, NEW u \in Users, GetNumber(u)
  PROVE  RowsInv' /\ RequestsInv'
  <1> DEFINE new == [year |-> year, seq |-> NextNumber(year)]
  <1>1. visit[u] \in Visits /\ ~ Idle(u) /\ visit[u].at = "close"
    BY RequestType DEF GetNumber, Idle
  <1>2. visit' = [visit EXCEPT ![u].at = "save", ![u].row.number = new]
    BY DEF GetNumber
  <1>3. /\ visit'[u] = [visit[u] EXCEPT !.at = "save", !.row.number = new]
        /\ \A v \in Users \ {u} : visit'[v] = visit[v]
    BY <1>2 DEF TypeOK
  <1>4. /\ visit'[u].at = "save" /\ visit'[u].bill = visit[u].bill
        /\ visit'[u].row.number = new /\ visit'[u].row.total = visit[u].row.total
    BY <1>1, <1>3 DEF Visits, Instances
  <1>5. UNCHANGED <<open, number, total, charges, spoilt, lost, shared>>
    BY DEF GetNumber, billRows, history
  <1>6. new \in Numbers /\ \A m \in 1 .. (new.seq - 1) : m \in Spent(new.year)
    BY NextAfterSpent DEF TypeOK, Numbers
  <1> HIDE DEF new
  <1>7. \A v \in Users : Idle(v)' = Idle(v) /\ visit'[v].bill = visit[v].bill
    BY <1>1, <1>3, <1>4 DEF Idle
  <1>8. \A v \in Users \ {u} : ~ Idle(v) => RequestHolds(v)' /\ AloneHolds(v)'
    BY <1>3, <1>5, OthersHold
  <1>9. RequestHolds(u)'
    BY <1>4, <1>5, <1>6, SpentSame DEF RequestHolds
  <1>10. AloneHolds(u)'
    BY <1>1, <1>4, <1>5 DEF RequestsInv, AloneHolds
  <1>11. AloneAtBill'
    BY <1>5, <1>7 DEF RequestsInv, AloneAtBill
  <1> QED BY <1>5, <1>7, <1>8, <1>9, <1>10, <1>11, RowsSame DEF RequestsInv

(* Requests that write a bill. *)

\* A write of u is of its bill only; numbers that were given stay so.
LEMMA WriteKeeps ==
  ASSUME TypeOK, RowsInv, RequestsInv, NEW u \in Users, ~ Idle(u), NEW b \in Bills,
         b = visit[u].bill,
         visit'[u].at \in {"none", "send"}, visit'[u].at = "send" => visit'[u].bill = b,
         \A v \in Users \ {u} : visit'[v] = visit[v],
         \A c \in Bills \ {b} : /\ open'[c] = open[c] /\ number'[c] = number[c]
                                /\ total'[c] = total[c] /\ charges'[c] = charges[c],
         \A y \in 1 .. MaxYear : Spent(y) \subseteq Spent(y)',
         shared' = shared, spoilt' = spoilt \/ spoilt' = spoilt \cup {b},
         b \in spoilt' => b \in shared,
         open'[b] <=> number'[b] = Draft,
         b \notin spoilt' => charges'[b] = IF open'[b] THEN <<>> ELSE <<total'[b]>>
  PROVE  RowsInv' /\ RequestsInv'
  <1>1. OpenIsDraft'
    BY DEF RowsInv, OpenIsDraft
  <1>2. ChargedItsTotal'
    <2> SUFFICES ASSUME NEW c \in Bills, c \notin spoilt'
                 PROVE  charges'[c] = IF open'[c] THEN <<>> ELSE <<total'[c]>>
      BY DEF ChargedItsTotal
    <2>1. CASE c = b
      BY <2>1
    <2>2. CASE c # b
      BY <2>2 DEF RowsInv, ChargedItsTotal
    <2> QED BY <2>1, <2>2
  <1>3. SpoiltByOverlap'
    BY DEF RowsInv, SpoiltByOverlap
  <1>4. \A v \in Users \ {u} : Idle(v)' = Idle(v)
    BY DEF Idle
  <1>5. ASSUME NEW v \in Users \ {u}, ~ Idle(v)
        PROVE  RequestHolds(v)' /\ AloneHolds(v)'
    <2>1. visit'[v] = visit[v] /\ RequestHolds(v) /\ AloneHolds(v)
      BY <1>5 DEF RequestsInv
    <2>2. visit[v].row.number \in Numbers \cup {Draft} /\ visit[v].bill \in Bills
      BY <1>5, RequestType
    <2>3. visit[v].row.number # Draft => visit[v].row.number.year \in 1 .. MaxYear
      BY <2>2 DEF Numbers
    <2>4. visit[v].row.number \in Numbers => visit[v].row.number.year \in 1 .. MaxYear
      BY DEF Numbers
    <2>5. RequestHolds(v)'
      BY <2>1, <2>3, <2>4 DEF RequestHolds
    <2>6. AloneHolds(v)'
      <3>1. CASE visit[v].bill = b
        BY <1>5, <2>1, <3>1 DEF RequestsInv, AloneAtBill, AloneHolds
      <3>2. CASE visit[v].bill # b
        BY <2>1, <2>2, <3>2 DEF AloneHolds
      <3> QED BY <3>1, <3>2
    <2> QED BY <2>5, <2>6
  <1>6. ~ Idle(u)' => RequestHolds(u)' /\ AloneHolds(u)'
    BY DEF Idle, RequestHolds, AloneHolds
  <1>7. AloneAtBill'
    <2> SUFFICES ASSUME NEW v \in Users, NEW w \in Users, v # w,
                        ~ Idle(v)', ~ Idle(w)', visit'[v].bill = visit'[w].bill
                 PROVE  visit'[v].bill \in shared'
      BY DEF AloneAtBill
    <2>1. CASE v # u /\ w # u
      BY <1>4, <2>1 DEF RequestsInv, AloneAtBill
    <2>2. CASE v = u
      BY <1>4, <2>2 DEF RequestsInv, AloneAtBill, Idle
    <2>3. CASE w = u
      BY <1>4, <2>3 DEF RequestsInv, AloneAtBill, Idle
    <2> QED BY <2>1, <2>2, <2>3
  <1> QED BY <1>1, <1>2, <1>3, <1>4, <1>5, <1>6, <1>7 DEF RowsInv, RequestsInv

\* What the three requests that write do to their bill: either what they read holds
\* and they do what they should, or another was at the bill.
WritesBill(b, n) ==
  /\ number' = [number EXCEPT ![b] = n] /\ lost' = lost \cup ({number[b]} \ {Draft, n})
  /\ ~ IsTaken(b, n)
  /\ n # Draft => \A m \in 1 .. (n.seq - 1) : m \in Spent(n.year)
  /\ open' = [open EXCEPT ![b] = (n = Draft)]
  /\ \E k \in Amounts : total' = [total EXCEPT ![b] = k]
  /\ \/ charges' = charges
     \/ \E k \in Amounts : charges' = [charges EXCEPT ![b] = Append(@, k)]
  /\ shared' = shared /\ (spoilt' = spoilt \/ spoilt' = spoilt \cup {b})
  /\ b \in spoilt' => b \in shared

Closes(b) ==
  /\ open[b] /\ ~ open'[b] /\ total' = total /\ spoilt' = spoilt /\ lost' = lost
  /\ charges' = [charges EXCEPT ![b] = <<total[b]>>]

Edits(b) ==
  /\ open' = open /\ number' = number /\ charges' = charges /\ spoilt' = spoilt /\ lost' = lost
  /\ open[b] \/ total' = total

LEMMA ClosedFacts ==
  ASSUME TypeOK, RowsInv, RequestsInv, NEW u \in Users, SaveClosed(u)
  PROVE  LET b == visit[u].bill  n == visit[u].row.number IN
         /\ b \in Bills /\ n \in Numbers /\ WritesBill(b, n)
         /\ b \notin spoilt' => Closes(b) /\ charges[b] = <<>>
         /\ visit'[u].at \in {"none", "send"} /\ (visit'[u].at = "send" => visit'[u].bill = b)
         /\ \A v \in Users \ {u} : visit'[v] = visit[v]
  <1> DEFINE b == visit[u].bill
             row == visit[u].row
             n == row.number
  <1>1. /\ visit[u] \in Visits /\ ~ Idle(u) /\ visit[u].at = "save" /\ b \in Bills
        /\ row.total \in Amounts /\ RequestHolds(u) /\ AloneHolds(u)
    BY RequestType DEF SaveClosed, Idle, RequestsInv
  <1>2. /\ open' = [open EXCEPT ![b] = FALSE] /\ number' = [number EXCEPT ![b] = n]
        /\ charges' = [charges EXCEPT ![b] = Append(@, row.total)]
        /\ visit' = [visit EXCEPT ![u] = IF @.mail = "none" THEN Nothing ELSE [@ EXCEPT !.at = "send"]]
        /\ total' = total /\ ~ IsTaken(b, n) /\ shared' = shared
        /\ lost' = lost \cup ({number[b]} \ {Draft, n})
        /\ spoilt' = IF open[b] /\ row.total = total[b] THEN spoilt ELSE spoilt \cup {b}
    BY DEF SaveClosed, Spoils
  <1>3. n \in Numbers /\ \A m \in 1 .. (n.seq - 1) : m \in Spent(n.year)
    BY <1>1 DEF RequestHolds
  <1>4. n # Draft
    BY <1>3 DEF Numbers, Draft
  <1>5. total' = [total EXCEPT ![b] = total[b]] /\ total[b] \in Amounts
    BY <1>1, <1>2 DEF TypeOK
  <1>6. b \in spoilt' => b \in shared
    <2>1. ~ (open[b] /\ row.total = total[b]) => b \in shared
      BY <1>1 DEF AloneHolds
    <2>2. b \in spoilt => b \in shared
      BY DEF RowsInv, SpoiltByOverlap
    <2> QED BY <1>2, <2>1, <2>2
  <1>7. open' = [open EXCEPT ![b] = (n = Draft)]
    <2>1. (n = Draft) = FALSE
      BY <1>4
    <2> QED BY <1>2, <2>1
  <1>8. WritesBill(b, n)
    <2>1. \E k \in Amounts : charges' = [charges EXCEPT ![b] = Append(@, k)]
      BY <1>1, <1>2
    <2>2. \E k \in Amounts : total' = [total EXCEPT ![b] = k]
      BY <1>5
    <2>3. spoilt' = spoilt \/ spoilt' = spoilt \cup {b}
      BY <1>2
    <2> QED BY <1>2, <1>3, <1>6, <1>7, <2>1, <2>2, <2>3 DEF WritesBill
  <1>9. b \notin spoilt' => Closes(b) /\ charges[b] = <<>>
    <2> SUFFICES ASSUME b \notin spoilt' PROVE Closes(b) /\ charges[b] = <<>>
      OBVIOUS
    <2>1. open[b] /\ row.total = total[b] /\ spoilt' = spoilt /\ b \notin spoilt
      BY <1>2
    <2>2. charges[b] = <<>> /\ number[b] = Draft
      BY <1>1, <2>1 DEF RowsInv, ChargedItsTotal, OpenIsDraft
    <2>3. lost' = lost
      BY <1>2, <2>2
    <2>4. Append(charges[b], row.total) = <<total[b]>>
      BY <2>1, <2>2
    <2>5. charges' = [charges EXCEPT ![b] = <<total[b]>>]
      BY <1>2, <2>4
    <2>6. ~ open'[b]
      BY <1>1, <1>2 DEF TypeOK
    <2> QED BY <1>2, <2>1, <2>2, <2>3, <2>5, <2>6 DEF Closes
  <1>10. /\ visit'[u].at \in {"none", "send"} /\ (visit'[u].at = "send" => visit'[u].bill = b)
         /\ \A v \in Users \ {u} : visit'[v] = visit[v]
    BY <1>1, <1>2 DEF TypeOK, Visits, Nothing
  <1> QED BY <1>1, <1>3, <1>8, <1>9, <1>10

LEMMA EditFacts ==
  ASSUME TypeOK, NumbersKept, RowsInv, RequestsInv, NEW u \in Users, SaveEdit(u)
  PROVE  LET b == visit[u].bill  n == visit[u].row.number IN
         /\ b \in Bills /\ n \in Numbers \cup {Draft} /\ WritesBill(b, n)
         /\ b \notin spoilt' => Edits(b)
  <1> DEFINE b == visit[u].bill
             row == visit[u].row
             n == row.number
  <1>1. /\ ~ Idle(u) /\ visit[u].at = "edit" /\ b \in Bills /\ n \in Numbers \cup {Draft}
        /\ row.open \in BOOLEAN /\ RequestHolds(u) /\ AloneHolds(u)
    BY RequestType DEF SaveEdit, Idle, RequestsInv
  <1>2. /\ open' = [open EXCEPT ![b] = row.open] /\ number' = [number EXCEPT ![b] = n]
        /\ charges' = charges /\ ~ IsTaken(b, n) /\ shared' = shared
        /\ lost' = lost \cup ({number[b]} \ {Draft, n})
        /\ spoilt' = IF row.open = open[b] /\ n = number[b] THEN spoilt ELSE spoilt \cup {b}
    BY DEF SaveEdit, Spoils
  <1>3. PICK k \in Amounts : total' = [total EXCEPT ![b] = k] /\ (row.open \/ k = total[b])
    BY DEF SaveEdit
  <1>4. n # Draft => \A m \in 1 .. (n.seq - 1) : m \in Spent(n.year)
    <2> SUFFICES ASSUME n # Draft PROVE \A m \in 1 .. (n.seq - 1) : m \in Spent(n.year)
      OBVIOUS
    <2>1. n.seq \in Spent(n.year) /\ n.year \in 1 .. MaxYear
      BY <1>1 DEF RequestHolds, Numbers
    <2> QED BY <2>1 DEF NumbersKept
  <1>5. b \in spoilt' => b \in shared
    <2>1. ~ (row.open = open[b] /\ n = number[b]) => b \in shared
      BY <1>1 DEF AloneHolds
    <2>2. b \in spoilt => b \in shared
      BY DEF RowsInv, SpoiltByOverlap
    <2> QED BY <1>2, <2>1, <2>2
  <1>6. open' = [open EXCEPT ![b] = (n = Draft)]
    <2>1. row.open = (n = Draft)
      BY <1>1, Zenon DEF RequestHolds
    <2> QED BY <1>2, <2>1
  <1>7. WritesBill(b, n)
    <2>1. \E m \in Amounts : total' = [total EXCEPT ![b] = m]
      BY <1>3
    <2>2. spoilt' = spoilt \/ spoilt' = spoilt \cup {b}
      BY <1>2
    <2> QED BY <1>2, <1>4, <1>5, <1>6, <2>1, <2>2 DEF WritesBill
  <1>8. b \notin spoilt' => Edits(b)
    <2> SUFFICES ASSUME b \notin spoilt' PROVE Edits(b)
      OBVIOUS
    <2>1. row.open = open[b] /\ n = number[b] /\ spoilt' = spoilt
      BY <1>2
    <2>2. open' = open /\ number' = number /\ lost' = lost
      BY <1>1, <1>2, <2>1 DEF TypeOK
    <2>3. open[b] \/ total' = total
      BY <1>1, <1>3, <2>1 DEF TypeOK
    <2> QED BY <1>2, <2>1, <2>2, <2>3 DEF Edits
  <1> QED BY <1>1, <1>7, <1>8

LEMMA LinesFacts ==
  ASSUME TypeOK, NumbersKept, Unique, RowsInv, RequestsInv, NEW u \in Users, AddLines(u)
  PROVE  LET b == visit[u].bill  n == number[b] IN
         /\ b \in Bills /\ n \in Numbers \cup {Draft} /\ WritesBill(b, n)
         /\ b \notin spoilt' => Edits(b)
  <1> DEFINE b == visit[u].bill
             n == number[b]
  <1>1. /\ ~ Idle(u) /\ visit[u].at = "billing" /\ b \in Bills /\ AloneHolds(u)
    BY RequestType DEF AddLines, Idle, RequestsInv
  <1>2. n \in Numbers \cup {Draft} /\ open[b] \in BOOLEAN
    BY <1>1 DEF TypeOK
  <1>3. /\ UNCHANGED <<open, number, charges, shared, lost>>
        /\ spoilt' = IF open[b] THEN spoilt ELSE spoilt \cup {b}
        /\ \E k \in Amounts : total' = [total EXCEPT ![b] = k]
    BY DEF AddLines
  <1>4. number' = [number EXCEPT ![b] = n] /\ lost' = lost \cup ({number[b]} \ {Draft, n})
    BY <1>3 DEF TypeOK
  <1>5. ~ IsTaken(b, n)
    BY <1>1 DEF IsTaken, Unique
  <1>6. n # Draft => \A m \in 1 .. (n.seq - 1) : m \in Spent(n.year)
    <2> SUFFICES ASSUME n # Draft PROVE \A m \in 1 .. (n.seq - 1) : m \in Spent(n.year)
      OBVIOUS
    <2>1. n.year \in 1 .. MaxYear
      BY <1>2 DEF Numbers
    <2>2. n.seq \in Spent(n.year)
      BY <1>1 DEF Spent, Given
    <2> QED BY <2>1, <2>2 DEF NumbersKept
  <1>7. open' = [open EXCEPT ![b] = (n = Draft)]
    <2>1. open[b] = (n = Draft)
      BY <1>1, <1>2, Zenon DEF RowsInv, OpenIsDraft
    <2> QED BY <1>3, <2>1 DEF TypeOK
  <1>8. b \in spoilt' => b \in shared
    <2>1. ~ open[b] => b \in shared
      BY <1>1 DEF AloneHolds
    <2>2. b \in spoilt => b \in shared
      BY DEF RowsInv, SpoiltByOverlap
    <2> QED BY <1>3, <2>1, <2>2
  <1>9. WritesBill(b, n)
    <2>1. spoilt' = spoilt \/ spoilt' = spoilt \cup {b}
      BY <1>3
    <2> QED BY <1>3, <1>4, <1>5, <1>6, <1>7, <1>8, <2>1 DEF WritesBill
  <1>10. b \notin spoilt' => Edits(b)
    BY <1>3 DEF Edits
  <1> QED BY <1>1, <1>2, <1>9, <1>10

\* Numbers and requests after such a write
LEMMA WritesKeep ==
  ASSUME BillsInv, NEW u \in Users, ~ Idle(u), NEW b \in Bills, b = visit[u].bill,
         NEW n \in Numbers \cup {Draft}, WritesBill(b, n), b \notin spoilt' => Closes(b) \/ Edits(b),
         visit'[u].at \in {"none", "send"}, visit'[u].at = "send" => visit'[u].bill = b,
         \A v \in Users \ {u} : visit'[v] = visit[v]
  PROVE  NumbersKept' /\ Unique' /\ RowsInv' /\ RequestsInv'
  <1>1. /\ number' = [number EXCEPT ![b] = n] /\ lost' = lost \cup ({number[b]} \ {Draft, n})
        /\ ~ IsTaken(b, n)
        /\ n # Draft => \A m \in 1 .. (n.seq - 1) : m \in Spent(n.year)
        /\ open' = [open EXCEPT ![b] = (n = Draft)]
        /\ shared' = shared /\ (spoilt' = spoilt \/ spoilt' = spoilt \cup {b})
        /\ b \in spoilt' => b \in shared
    BY DEF WritesBill
  <1>2. PICK k \in Amounts : total' = [total EXCEPT ![b] = k]
    BY DEF WritesBill
  <1>3. \A c \in Bills \ {b} : charges'[c] = charges[c]
    BY DEF WritesBill, BillsInv, TypeOK
  <1>4. \A c \in Bills \ {b} : open'[c] = open[c] /\ number'[c] = number[c] /\ total'[c] = total[c]
    BY <1>1, <1>2 DEF BillsInv, TypeOK
  <1>5. open'[b] <=> number'[b] = Draft
    BY <1>1 DEF BillsInv, TypeOK
  <1>6. b \notin spoilt' => charges'[b] = IF open'[b] THEN <<>> ELSE <<total'[b]>>
    <2> SUFFICES ASSUME b \notin spoilt'
                 PROVE  charges'[b] = IF open'[b] THEN <<>> ELSE <<total'[b]>>
      OBVIOUS
    <2>1. b \notin spoilt /\ charges[b] = IF open[b] THEN <<>> ELSE <<total[b]>>
      BY <1>1 DEF BillsInv, RowsInv, ChargedItsTotal
    <2>2. CASE Closes(b)
      BY <2>2 DEF Closes, BillsInv, TypeOK
    <2>3. CASE Edits(b)
      BY <2>1, <2>3 DEF Edits
    <2> QED BY <2>2, <2>3
  <1>7. /\ NumbersKept' /\ Unique' /\ \A y \in 1 .. MaxYear : Spent(y) \subseteq Spent(y)'
    BY <1>1, NumbersByWrite DEF BillsInv
  <1>8. RowsInv' /\ RequestsInv'
    BY <1>1, <1>3, <1>4, <1>5, <1>6, <1>7, WriteKeeps DEF BillsInv
  <1> QED BY <1>7, <1>8

(* The inductive invariant. *)

LEMMA InitInv == Init => BillsInv
  <1> SUFFICES ASSUME Init PROVE BillsInv
    OBVIOUS
  <1>1. TypeOK
    BY BillAssumption DEF Init, TypeOK
  <1>2. \A y \in 1 .. MaxYear : Spent(y) = {}
    BY DEF Init, Spent, Given, Draft
  <1>3. NumbersKept /\ Unique
    BY <1>2 DEF NumbersKept, Unique, Init
  <1>4. RowsInv
    BY DEF Init, RowsInv, OpenIsDraft, ChargedItsTotal, SpoiltByOverlap
  <1>5. RequestsInv
    BY DEF Init, RequestsInv, AloneAtBill, Idle, Nothing
  <1> QED BY <1>1, <1>3, <1>4, <1>5 DEF BillsInv

LEMMA StepInv == BillsInv /\ [Next]_vars => BillsInv'
  <1> SUFFICES ASSUME BillsInv, [Next]_vars PROVE BillsInv'
    OBVIOUS
  <1> DEFINE Kept == NumbersKept' /\ Unique' /\ RowsInv' /\ RequestsInv'
  <1>1. TypeOK'
    BY TypeStep DEF BillsInv
  <1>2. ASSUME NEW u \in Users, NEW b \in Bills, NEW mail \in Mails, StartClose(u, b, mail)
        PROVE  Kept
    <2>1. Starts(u, b, "close", mail, Computed(b)) /\ open[b] /\ Computed(b).total = total[b]
      BY <1>2 DEF StartClose, Computed
    <2>2. RowsInv' /\ RequestsInv'
      BY <2>1, StartKeeps DEF BillsInv
    <2> QED BY <2>1, <2>2, NumbersSame DEF BillsInv, Starts, billRows
  <1>3. ASSUME NEW u \in Users, NEW b \in Bills, StartEdit(u, b) \/ StartBilling(u, b)
        PROVE  Kept
    <2>1. CASE StartEdit(u, b)
      <3>1. Starts(u, b, "edit", "none", Read(b))
        BY <2>1 DEF StartEdit
      <3>2. RowsInv' /\ RequestsInv'
        BY <3>1, StartKeeps DEF BillsInv
      <3> QED BY <3>1, <3>2, NumbersSame DEF BillsInv, Starts, billRows
    <2>2. CASE StartBilling(u, b)
      <3>1. open[b] /\ Starts(u, b, "billing", "none", Read(b))
        BY <2>2 DEF StartBilling
      <3>2. RowsInv' /\ RequestsInv'
        BY <3>1, StartKeeps DEF BillsInv
      <3> QED BY <3>1, <3>2, NumbersSame DEF BillsInv, Starts, billRows
    <2> QED BY <1>3, <2>1, <2>2
  <1>4. ASSUME NEW u \in Users, GetNumber(u) PROVE Kept
    <2>1. RowsInv' /\ RequestsInv'
      BY <1>4, NumberKeeps DEF BillsInv
    <2> QED BY <1>4, <2>1, NumbersSame DEF BillsInv, GetNumber, billRows, history
  <1>5. ASSUME NEW u \in Users, SaveClosed(u) PROVE Kept
    <2>1. ~ Idle(u)
      BY <1>5 DEF SaveClosed, Idle
    <2> QED BY <1>5, <2>1, ClosedFacts, WritesKeep DEF BillsInv
  <1>6. ASSUME NEW u \in Users, SaveEdit(u) \/ AddLines(u) PROVE Kept
    <2>1. ~ Idle(u) /\ visit'[u] = Nothing /\ \A v \in Users \ {u} : visit'[v] = visit[v]
      BY <1>6 DEF SaveEdit, AddLines, Idle, Ends, BillsInv, TypeOK
    <2>2. visit'[u].at \in {"none", "send"} /\ visit'[u].at # "send"
      BY <2>1 DEF Nothing
    <2>3. CASE SaveEdit(u)
      BY <2>1, <2>2, <2>3, EditFacts, WritesKeep DEF BillsInv
    <2>4. CASE AddLines(u)
      BY <2>1, <2>2, <2>4, LinesFacts, WritesKeep DEF BillsInv
    <2> QED BY <1>6, <2>3, <2>4
  <1>7. ASSUME NEW u \in Users, NumberIsTaken(u) \/ MailClosed(u) \/ Fails(u) PROVE Kept
    <2>1. Ends(u) /\ UNCHANGED <<open, number, total, charges, spoilt, lost, shared>>
      BY <1>7 DEF NumberIsTaken, MailClosed, Fails, billRows, history
    <2> QED BY <2>1, EndKeeps, NumbersSame DEF BillsInv
  <1>8. ASSUME NewYear \/ UNCHANGED vars PROVE Kept
    <2>1. UNCHANGED <<open, number, total, charges, visit, spoilt, lost, shared>>
      BY <1>8 DEF NewYear, billRows, history, vars
    <2> QED BY <2>1, StayKeeps, NumbersSame DEF BillsInv
  <1>9. Kept
    BY <1>2, <1>3, <1>4, <1>5, <1>6, <1>7, <1>8 DEF Next
  <1> QED BY <1>1, <1>9 DEF BillsInv

LEMMA AlwaysInv == Spec => []BillsInv
  BY InitInv, StepInv, PTL DEF Spec

(* Theorems. *)

\* The columns of the bills and the requests in progress are of their types, and
\* what a request read of its bill holds until it writes it, unless another was
\* at the bill.
THEOREM BillsInvariant == Spec => []BillsInv
  BY AlwaysInv

\* A closed bill has one transaction, of what its lines add up to, and an open
\* one has none (Bill.close), unless a request wrote it on what it had read before.
THEOREM EachChargedItsTotal == Spec => []ChargedItsTotal
  <1>1. BillsInv => ChargedItsTotal
    BY DEF BillsInv, RowsInv
  <1> QED BY <1>1, AlwaysInv, PTL

\* No request writes a bill on reads that do not hold, unless another was at the
\* bill with it.
THEOREM SpoiltByOverlapOnly == Spec => []SpoiltByOverlap
  <1>1. BillsInv => SpoiltByOverlap
    BY DEF BillsInv, RowsInv
  <1> QED BY <1>1, AlwaysInv, PTL

\* The numbers of the bills closed in a year have no holes but those that bills
\* had and lost, and are unique (get_number), whatever BILLS_NUMBER_LENGTH is
\* and whoever closes and edits the same bill.
THEOREM NumbersHaveNoHoles == Spec => []NumbersInSequence
  <1>1. BillsInv => NumbersInSequence
    <2> SUFFICES ASSUME BillsInv, NEW y \in 1 .. MaxYear, NEW n \in Given(y), NEW m \in 1 .. n
                 PROVE  m \in Spent(y)
      BY DEF BillsInv, Unique, NumbersInSequence
    <2>1. n \in Spent(y)
      BY DEF Spent
    <2>2. n \in Nat \ {0} /\ \A k \in 1 .. (n - 1) : k \in Spent(y)
      BY <2>1 DEF BillsInv, NumbersKept
    <2>3. CASE m = n
      BY <2>1, <2>3
    <2>4. CASE m # n
      BY <2>2, <2>4
    <2> QED BY <2>3, <2>4
  <1> QED BY <1>1, AlwaysInv, PTL

\* A closed bill stays closed, with its number and its lines (close_bills), but
\* for what a request writes on reads that do not hold.
THEOREM ClosedStaysAsItIs == Spec => ClosedIsFinal
  <1> DEFINE Final == \A b \in Bills \ spoilt' : ~ open[b] =>
                        ~ open'[b] /\ number'[b] = number[b] /\ total'[b] = total[b]
  <1>1. BillsInv /\ [Next]_vars => [Final]_vars
    <2> SUFFICES ASSUME BillsInv, Next PROVE Final
      OBVIOUS
    <2>1. CASE UNCHANGED <<open, number, total>>
      BY <2>1
    <2>2. ASSUME NEW b \in Bills, NEW n \in Numbers \cup {Draft}, WritesBill(b, n),
                 b \notin spoilt' => Closes(b) \/ Edits(b)
          PROVE  Final
      <3>1. \A c \in Bills \ {b} : /\ open'[c] = open[c] /\ number'[c] = number[c]
                                    /\ total'[c] = total[c]
        BY <2>2 DEF WritesBill, BillsInv, TypeOK
      <3>2. b \notin spoilt' /\ ~ open[b] =>
              ~ open'[b] /\ number'[b] = number[b] /\ total'[b] = total[b]
        BY <2>2 DEF Closes, Edits
      <3> QED BY <3>1, <3>2
    <2>3. ASSUME NEW u \in Users, SaveClosed(u) PROVE Final
      BY <2>2, <2>3, ClosedFacts DEF BillsInv
    <2>4. ASSUME NEW u \in Users, SaveEdit(u) PROVE Final
      BY <2>2, <2>4, EditFacts DEF BillsInv
    <2>5. ASSUME NEW u \in Users, AddLines(u) PROVE Final
      BY <2>2, <2>5, LinesFacts DEF BillsInv
    <2> QED BY <2>1, <2>3, <2>4, <2>5
      DEF Next, StartClose, StartEdit, StartBilling, Starts, GetNumber, NumberIsTaken, MailClosed,
          Fails, NewYear, billRows
  <1> QED BY <1>1, AlwaysInv, PTL DEF Spec, ClosedIsFinal

-----------------------------------------------------------------------------
(* Closing bills implements BillLedger *)

Charged == [b \in Bills |-> {charges[b][i] : i \in DOMAIN charges[b]}]

LEMMA LedgerInit == Init => Ledger!Init
  <1> SUFFICES ASSUME Init PROVE Ledger!Init
    OBVIOUS
  <1>1. \A b \in Bills : charges[b] = <<>>
    BY DEF Init
  <1>2. \A b \in Bills : {charges[b][i] : i \in DOMAIN charges[b]} = {}
    BY <1>1
  <1>3. Charged = [b \in Bills |-> {}]
    BY <1>2 DEF Charged
  <1> QED BY <1>3 DEF Init, Ledger!Init, Charged, Draft, Ledger!Draft

\* The transactions of a bill with one more
LEMMA ChargedByAppend ==
  ASSUME TypeOK, NEW b \in Bills, NEW k \in Amounts,
         charges' = [charges EXCEPT ![b] = Append(@, k)]
  PROVE  Charged' = [Charged EXCEPT ![b] = @ \cup {k}]
  <1>1. charges[b] \in Seq(Amounts)
    BY DEF TypeOK
  <1>2. charges'[b] = Append(charges[b], k) /\ \A c \in Bills \ {b} : charges'[c] = charges[c]
    BY DEF TypeOK
  <1>3. {charges'[b][i] : i \in DOMAIN charges'[b]}
          = {charges[b][i] : i \in DOMAIN charges[b]} \cup {k}
    <2> DEFINE s == charges[b]
               t == Append(s, k)
    <2>1. /\ DOMAIN t = 1 .. (Len(s) + 1) /\ DOMAIN s = 1 .. Len(s) /\ Len(s) \in Nat
          /\ t[Len(s) + 1] = k /\ \A i \in 1 .. Len(s) : t[i] = s[i]
      BY <1>1
    <2>2. {t[i] : i \in DOMAIN t} = {s[i] : i \in DOMAIN s} \cup {k}
      <3> HIDE DEF s, t
      <3> QED BY <2>1
    <2> QED BY <1>2, <2>2
  <1>4. \A c \in Bills : Charged'[c] = IF c = b THEN Charged[b] \cup {k} ELSE Charged[c]
    BY <1>2, <1>3 DEF Charged
  <1> QED BY <1>4 DEF Charged

LEMMA LedgerNumber ==
  ASSUME TypeOK, NEW b \in Bills, NEW n \in Numbers, ~ IsTaken(b, n),
         \A m \in 1 .. (n.seq - 1) : m \in Spent(n.year)
  PROVE  n \in Ledger!Following /\ Ledger!MayHave(b, n)
  <1> DEFINE y == n.year
             last == n.seq - 1
  <1>1. y \in 1 .. MaxYear /\ n.seq \in Nat \ {0} /\ n # Draft
    BY DEF Numbers, Draft
  <1>2. n = [year |-> y, seq |-> last + 1] /\ last \in {0} \cup Spent(y)
    BY <1>1 DEF Numbers
  <1>3. \A z : Ledger!Spent(z) = Spent(z)
    BY DEF Ledger!Spent, Ledger!Given, Spent, Given
  <1>4. n \in {[year |-> y, seq |-> m + 1] : m \in {0} \cup Ledger!Spent(y)}
    BY <1>2, <1>3
  <1>5. n \in Ledger!Following
    <2> HIDE DEF y
    <2> QED BY <1>1, <1>4 DEF Ledger!Following
  <1> QED BY <1>1, <1>3, <1>5 DEF IsTaken, Ledger!MayHave

LEMMA LedgerWrite ==
  ASSUME BillsInv, NEW b \in Bills, NEW n \in Numbers \cup {Draft}, WritesBill(b, n),
         b \notin spoilt' => (Closes(b) /\ charges[b] = <<>>) \/ Edits(b)
  PROVE  Ledger!Next \/ UNCHANGED <<open, number, total, Charged, spoilt, lost>>
  <1>1. /\ number' = [number EXCEPT ![b] = n] /\ lost' = lost \cup ({number[b]} \ {n, Draft})
        /\ open' = [open EXCEPT ![b] = n = Draft]
        /\ spoilt' = spoilt \/ spoilt' = spoilt \cup {b}
    BY DEF WritesBill
  <1>2. PICK k \in Amounts : total' = [total EXCEPT ![b] = k]
    BY DEF WritesBill
  <1>3. n = Draft \/ (n \in Ledger!Following /\ Ledger!MayHave(b, n))
    BY LedgerNumber DEF WritesBill, BillsInv
  <1>4. Draft = Ledger!Draft
    BY DEF Draft, Ledger!Draft
  <1>5. CASE b \in spoilt'
    <2>1. spoilt' = spoilt \cup {b}
      BY <1>1, <1>5
    <2>2. \E more \in SUBSET Amounts : Charged' = [Charged EXCEPT ![b] = @ \cup more]
      <3>1. CASE charges' = charges
        <4>1. Charged' = [Charged EXCEPT ![b] = @ \cup {}]
          BY <3>1 DEF Charged
        <4> QED BY <4>1
      <3>2. CASE \E m \in Amounts : charges' = [charges EXCEPT ![b] = Append(@, m)]
        <4>1. PICK m \in Amounts : charges' = [charges EXCEPT ![b] = Append(@, m)]
          BY <3>2
        <4>2. Charged' = [Charged EXCEPT ![b] = @ \cup {m}]
          BY <4>1, ChargedByAppend DEF BillsInv
        <4> QED BY <4>2
      <3> QED BY <3>1, <3>2 DEF WritesBill
    <2>3. Ledger!Disturb(b)
      BY <1>1, <1>2, <1>3, <1>4, <2>1, <2>2 DEF Ledger!Disturb, Charged
    <2> QED BY <2>3 DEF Ledger!Next
  <1>6. CASE b \notin spoilt' /\ Closes(b) /\ charges[b] = <<>>
    <2>1. /\ b \notin spoilt /\ open[b] /\ ~ open'[b] /\ total' = total /\ spoilt' = spoilt
          /\ lost' = lost /\ charges' = [charges EXCEPT ![b] = <<total[b]>>]
      BY <1>1, <1>6 DEF Closes
    <2>2. n # Draft /\ open' = [open EXCEPT ![b] = FALSE]
      <3>1. open'[b] = (n = Draft)
        BY <1>1 DEF BillsInv, TypeOK
      <3> QED BY <1>1, <2>1, <3>1
    <2>3. Charged' = [Charged EXCEPT ![b] = {total[b]}]
      <3>1. total[b] \in Amounts /\ charges' = [charges EXCEPT ![b] = Append(@, total[b])]
        BY <1>6, <2>1 DEF BillsInv, TypeOK
      <3>2. Charged[b] = {}
        BY <1>6 DEF Charged
      <3>3. Charged' = [Charged EXCEPT ![b] = @ \cup {total[b]}]
        BY <3>1, ChargedByAppend DEF BillsInv
      <3> QED BY <3>2, <3>3
    <2>4. Ledger!Close(b)
      BY <1>1, <1>3, <2>1, <2>2, <2>3 DEF Ledger!Close, Charged
    <2> QED BY <2>4 DEF Ledger!Next
  <1>7. CASE b \notin spoilt' /\ Edits(b)
    <2>1. /\ UNCHANGED <<open, number, charges, spoilt, lost>> /\ b \notin spoilt
          /\ open[b] \/ total' = total
      BY <1>7 DEF Edits
    <2>2. CASE open[b]
      <3>1. Ledger!ChangeLines(b)
        BY <1>2, <2>1, <2>2 DEF Ledger!ChangeLines
      <3> QED BY <3>1 DEF Ledger!Next
    <2>3. CASE total' = total
      BY <2>1, <2>3 DEF Charged
    <2> QED BY <2>1, <2>2, <2>3
  <1> QED BY <1>5, <1>6, <1>7

LEMMA LedgerStep ==
  ASSUME BillsInv, [Next]_vars
  PROVE  [Ledger!Next]_<<open, number, total, Charged, spoilt, lost>>
  <1>1. CASE UNCHANGED <<open, number, total, charges, spoilt, lost>>
    BY <1>1 DEF Charged
  <1>2. ASSUME NEW u \in Users, SaveClosed(u) \/ SaveEdit(u) \/ AddLines(u)
        PROVE  Ledger!Next \/ UNCHANGED <<open, number, total, Charged, spoilt, lost>>
    <2>1. CASE SaveClosed(u)
      BY <2>1, ClosedFacts, LedgerWrite DEF BillsInv
    <2>2. CASE SaveEdit(u)
      BY <2>2, EditFacts, LedgerWrite DEF BillsInv
    <2>3. CASE AddLines(u)
      BY <2>3, LinesFacts, LedgerWrite DEF BillsInv
    <2> QED BY <1>2, <2>1, <2>2, <2>3
  <1> QED BY <1>1, <1>2
    DEF Next, StartClose, StartEdit, StartBilling, Starts, GetNumber, NumberIsTaken, MailClosed,
        Fails, NewYear, billRows, history, vars

\* Closing bills implements the promise of BillLedger: whatever requests read
\* and write, a bill is closed in one step with the next number of its year,
\* charges exactly its total, and does not change after it, but the bills that
\* requests wrote on reads that did not hold; these take no number of another.
THEOREM ImplementsLedger == Spec => LedgerSpec
  <1>1. BillsInv /\ [Next]_vars => [Ledger!Next]_<<open, number, total, Charged, spoilt, lost>>
    BY LedgerStep
  <1> QED BY <1>1, LedgerInit, AlwaysInv, PTL
    DEF Spec, LedgerSpec, Ledger!Spec, Ledger!vars, Charged

-----------------------------------------------------------------------------
(* The wizard of billing *)

\* A request that was mixed with no other is alone in its process, whose object has
\* what its page sent.
HandedOver ==
  \A u \in Requests \ mixed : request[u] # None =>
    /\ Billing!Others(u) = {}
    /\ wizard[process[u]].queryset # None
    /\ ~request[u].answered =>
         /\ wizard[process[u]].queryset = request[u].post.queryset
         /\ wizard[process[u]].context = request[u].post.queryset
         /\ request[u].post.step > 0 => wizard[process[u]].options = request[u].post.options

\* From the second page on the options are known, whoever mixed.
WithOptions(p) == p # None /\ p.step >= 2 => p.options \in Options
OptionsKnown ==
  \A u \in Requests :
    /\ WithOptions(page[u])
    /\ request[u] # None => WithOptions(request[u].answer)
    /\ request[u] # None /\ request[u].post.step > 0 =>
         request[u].post.options \in Options /\ wizard[process[u]].options \in Options

\* A request sends the page its user has.
SendsItsPage ==
  \A u \in Requests : request[u] # None /\ request[u].post.step > 0 =>
    /\ page[u] # None /\ page[u].step = request[u].post.step
    /\ page[u].queryset = request[u].post.queryset
    /\ request[u].post.step > 1 => page[u].options = request[u].post.options

\* What a page asks to confirm: days of its orders, or of those that were picked; and
\* those days of its orders that it does not show were billed, or are of raced orders.
Truthful(p) ==
  p # None /\ p.step = 3 =>
    /\ \A l \in Billing!Days : l[1] \in p.queryset /\ l[2] < p.options.until =>
         l \in p.shown \/ l[1] \in raced \/ l \in invoiced
    /\ \A l \in p.shown : l[2] < p.options.until /\ (l[1] \in p.queryset \/ l[1] \in p.picked)
PagesTrue ==
  \A u \in Requests \ mixed :
    /\ request[u] = None \/ request[u].post.step > 0 => Truthful(page[u])
    /\ request[u] # None => Truthful(request[u].answer)

\* An order is invoiced up to the day it is billed until, and no further unless it was raced.
InvoicedUpTo ==
  \A l \in Billing!Days :
    /\ l[2] < lastBilled[l[1]] => l \in invoiced
    /\ l \in invoiced => l[2] < lastBilled[l[1]] \/ l[1] \in raced

\* The lines of a request go from the days that were invoiced on to one day.
UpTo(lines, e) == \A l \in lines : l[2] < e /\ \A d \in l[2] .. e - 1 : <<l[1], d>> \in lines
PendingLines ==
  \A u \in Requests : request[u] # None =>
    /\ ~request[u].answered => request[u].lines = {} /\ ~request[u].invoice
    /\ \E e \in 0 .. LastDay : UpTo(request[u].lines, e)
    /\ \A l \in request[u].lines, d \in 0 .. LastDay - 1 :
         d < l[2] => <<l[1], d>> \in request[u].lines \cup invoiced
    /\ request[u].invoice => \A l \in request[u].lines : l \in invoiced => l[1] \in raced

\* Two requests have lines of one order only if it is raced.
HasInvoice(u) == request[u] # None /\ request[u].invoice
RivalsRaced ==
  \A u, v \in Requests : u # v /\ HasInvoice(u) /\ HasInvoice(v) =>
    \A l \in request[u].lines, m \in request[v].lines : l[1] = m[1] => l[1] \in raced

\* A process has both attributes or none.
BothAttributes == \A p \in Processes : wizard[p].queryset = None <=> wizard[p].context = None

WizardInv ==
  /\ Billing!TypeOK /\ BothAttributes /\ HandedOver /\ OptionsKnown /\ SendsItsPage /\ PagesTrue
  /\ InvoicedUpTo /\ PendingLines /\ RivalsRaced /\ Billing!BilledAsConfirmed

\* The parts of the invariant about pages and requests, and about days that are invoiced.
PagesPart == HandedOver /\ OptionsKnown /\ SendsItsPage /\ PagesTrue
LinesPart == InvoicedUpTo /\ PendingLines /\ RivalsRaced /\ Billing!BilledAsConfirmed

\* What is known of a request at work, by its type.
LEMMA WizardRequestType ==
  ASSUME Billing!TypeOK, NEW u \in Requests, request[u] # None
  PROVE  /\ request[u] \in Billing!Works
         /\ request[u].post.queryset \subseteq Orders /\ request[u].post.picked \subseteq Orders
         /\ request[u].post.step \in 0 .. 3 /\ request[u].lines \subseteq Billing!Days
         /\ request[u].answered \in BOOLEAN /\ request[u].invoice \in BOOLEAN
         /\ process[u] \in Processes
         /\ wizard[process[u]] \in [queryset : (SUBSET Orders) \cup {None},
                                    context : (SUBSET Orders) \cup {None},
                                    options : Options \cup {None}]
  BY DEF Billing!TypeOK, Billing!Works, Billing!Posts

\* What a user may send is what pages and the list of orders have.
LEMMA PostType ==
  ASSUME Billing!TypeOK, NEW u \in Requests,
         NEW post \in Billing!FromList \cup Billing!FromPage(page[u])
  PROVE  /\ post \in Billing!Posts /\ post.step \in 0 .. 3
         /\ post.step > 0 =>
              /\ page[u] # None /\ page[u].step = post.step /\ page[u].queryset = post.queryset
              /\ post.step > 1 => page[u].options = post.options
              /\ post.step = 1 => post.options \in Options
  <1>1. CASE post \in Billing!FromList
    BY <1>1 DEF Billing!FromList, Billing!Posts
  <1>2. CASE post \in Billing!FromPage(page[u])
    <2>1. page[u] # None /\ page[u] \in Billing!Pages
      BY <1>2 DEF Billing!FromPage, Billing!TypeOK
    <2>2. PICK o \in IF page[u].step = 1 THEN Options ELSE {page[u].options},
               s \in IF page[u].step = 2 THEN SUBSET page[u].related ELSE {{}} :
            post = [step |-> page[u].step, queryset |-> page[u].queryset, options |-> o,
                    picked |-> s]
      BY <1>2, <2>1 DEF Billing!FromPage
    <2>3. /\ page[u].step \in 1 .. 3 /\ page[u].queryset \subseteq Orders
          /\ page[u].related \subseteq Orders /\ page[u].options \in Options \cup {None}
      BY <2>1 DEF Billing!Pages
    <2>4. o \in Options \cup {None} /\ s \subseteq Orders
      BY <2>2, <2>3
    <2>5. QED
      BY <2>1, <2>2, <2>3, <2>4 DEF Billing!Posts
  <1>3. QED
    BY <1>1, <1>2

\* A step that answers leaves all but the answer as it was.
LEMMA AnswerType ==
  ASSUME Billing!TypeOK, NEW u \in Requests, NEW step, NEW answer \in Billing!Pages,
         Billing!Answers(u, step, answer)
  PROVE  /\ request' \in [Requests -> Billing!Works \cup {None}]
         /\ \A v \in Requests \ {u} : request'[v] = request[v]
         /\ request'[u].post = request[u].post /\ request'[u].answered
         /\ request'[u].answer = answer /\ request'[u].lines = request[u].lines
         /\ request'[u].invoice = request[u].invoice
         /\ request'[u] \in Billing!Works
         /\ request[u] \in Billing!Works /\ request[u] # None /\ ~request[u].answered
         /\ UNCHANGED <<process, page, lastBilled, invoiced, mixed, raced>>
  <1>1. request[u] # None /\ request[u] \in Billing!Works /\ ~request[u].answered
    BY WizardRequestType DEF Billing!Answers, Billing!Working
  <1>2. request' = [request EXCEPT ![u].answered = TRUE, ![u].answer = answer]
    BY DEF Billing!Answers
  <1>3. request \in [Requests -> Billing!Works \cup {None}]
    BY DEF Billing!TypeOK
  <1>4. request'[u] = [request[u] EXCEPT !.answered = TRUE, !.answer = answer]
    BY <1>2, <1>3
  <1>5. request'[u] \in Billing!Works
    BY <1>1, <1>4 DEF Billing!Works
  <1>6. /\ request'[u].post = request[u].post /\ request'[u].answered
        /\ request'[u].answer = answer /\ request'[u].lines = request[u].lines
        /\ request'[u].invoice = request[u].invoice
    BY <1>1, <1>4 DEF Billing!Works
  <1>7. /\ \A v \in Requests \ {u} : request'[v] = request[v]
        /\ request' \in [Requests -> Billing!Works \cup {None}]
    BY <1>2, <1>3, <1>5
  <1>8. QED
    BY <1>1, <1>5, <1>6, <1>7 DEF Billing!Answers

\* Confirming leaves all but the lines as it was.
LEMMA ConfirmType ==
  ASSUME Billing!TypeOK, NEW u \in Requests, Billing!Confirm(u)
  PROVE  LET w == wizard[process[u]] IN
         /\ request' \in [Requests -> Billing!Works \cup {None}]
         /\ \A v \in Requests \ {u} : request'[v] = request[v]
         /\ request'[u].post = request[u].post /\ request'[u].answered
         /\ request'[u].answer = request[u].answer
         /\ request'[u].lines = Billing!bill(w.queryset, w.options)
         /\ request'[u].invoice = ~w.options.proforma
         /\ request'[u] \in Billing!Works
         /\ request[u] \in Billing!Works /\ request[u] # None /\ ~request[u].answered
         /\ request[u].post.step = 3 /\ w.queryset # None
         /\ UNCHANGED <<process, wizard, page, lastBilled, invoiced, mixed>>
         /\ raced \subseteq raced' /\ raced' \subseteq Orders
  <1> DEFINE w == wizard[process[u]]
             lines == Billing!bill(w.queryset, w.options)
  <1>1. request[u] # None /\ request[u] \in Billing!Works /\ ~request[u].answered
    BY WizardRequestType DEF Billing!Confirm, Billing!Working
  <1>2. request' = [request EXCEPT ![u].answered = TRUE, ![u].lines = lines,
                                   ![u].invoice = ~w.options.proforma]
    BY DEF Billing!Confirm
  <1>3. request \in [Requests -> Billing!Works \cup {None}]
    BY DEF Billing!TypeOK
  <1>4. request'[u] = [request[u] EXCEPT !.answered = TRUE, !.lines = lines,
                                         !.invoice = ~w.options.proforma]
    BY <1>2, <1>3
  <1>5. lines \subseteq Billing!Days
    BY DEF Billing!bill
  <1>6. request'[u] \in Billing!Works
    <2> HIDE DEF lines
    <2>1. QED BY <1>1, <1>4, <1>5 DEF Billing!Works
  <1>7. /\ request'[u].post = request[u].post /\ request'[u].answered
        /\ request'[u].answer = request[u].answer /\ request'[u].lines = lines
        /\ request'[u].invoice = ~w.options.proforma
    <2> HIDE DEF lines
    <2>1. QED BY <1>1, <1>4 DEF Billing!Works
  <1>8. /\ \A v \in Requests \ {u} : request'[v] = request[v]
        /\ request' \in [Requests -> Billing!Works \cup {None}]
    BY <1>2, <1>3, <1>6
  <1>9. raced \subseteq raced' /\ raced' \subseteq Orders
    BY DEF Billing!Confirm, Billing!TypeOK
  <1>10. QED
    BY <1>1, <1>6, <1>7, <1>8, <1>9 DEF Billing!Confirm, Billing!Working

\* The object has the orders whose attributes were not deleted.
LEMMA AskedOfOrders ==
  ASSUME Billing!TypeOK, BothAttributes, NEW u \in Requests, request[u] # None,
         wizard[process[u]].queryset # None
  PROVE  /\ wizard[process[u]].queryset \subseteq Orders
         /\ wizard[process[u]].context \subseteq Orders /\ wizard[process[u]].context # None
         /\ wizard[process[u]].options \in Options \cup {None}
         /\ request[u].post.picked \subseteq Orders
  BY WizardRequestType DEF BothAttributes

\* The day up to which an order is billed is where its lines end.
LEMMA LastOfLines ==
  ASSUME Billing!Assumption, NEW lines \in SUBSET Billing!Days, NEW e \in 0 .. LastDay,
         UpTo(lines, e), NEW o \in Orders, \E l \in lines : l[1] = o
  PROVE  (CHOOSE d \in 1 .. LastDay : <<o, d - 1>> \in lines /\ <<o, d>> \notin lines) = e
  <1>1. PICK m \in 0 .. LastDay - 1 : <<o, m>> \in lines
    BY DEF Billing!Days
  <1>2. /\ \A d \in 0 .. LastDay : <<o, d>> \in lines => d < e
        /\ \A d, k \in 0 .. LastDay : <<o, d>> \in lines /\ d <= k /\ k < e => <<o, k>> \in lines
    BY DEF UpTo, Billing!Assumption
  <1>3. e \in 1 .. LastDay /\ <<o, e - 1>> \in lines /\ <<o, e>> \notin lines
    BY <1>1, <1>2 DEF Billing!Assumption
  <1>4. ASSUME NEW d \in 1 .. LastDay, <<o, d - 1>> \in lines, <<o, d>> \notin lines
        PROVE  d = e
    <2>1. d - 1 \in 0 .. LastDay /\ d \in 0 .. LastDay
      BY DEF Billing!Assumption
    <2>2. d - 1 < e /\ ~(d < e)
      BY <1>2, <1>4, <2>1
    <2>3. QED
      BY <2>1, <2>2
  <1>5. QED
    BY <1>3, <1>4

\* The types of the wizard are kept, and a process keeps both attributes or none.
LEMMA WizardTypes ==
  ASSUME Billing!Assumption, Billing!TypeOK, BothAttributes, PendingLines,
         [Billing!Next]_(Billing!vars)
  PROVE  Billing!TypeOK' /\ BothAttributes'
  <1> USE DEF Billing!Working
  <1>1. ASSUME NEW u \in Requests, Billing!Call(u) PROVE Billing!TypeOK' /\ BothAttributes'
    <2>1. PICK post \in Billing!FromList \cup Billing!FromPage(page[u]) :
            /\ request' = [request EXCEPT ![u] =
                 [post |-> post, answered |-> FALSE, answer |-> None, lines |-> {},
                  invoice |-> FALSE]]
            /\ wizard' = [wizard EXCEPT ![process[u]] =
                 [queryset |-> post.queryset, context |-> post.queryset,
                  options |-> IF post.step = 0 THEN wizard[process[u]].options
                              ELSE post.options]]
      BY <1>1 DEF Billing!Call, Billing!OptionsOf
    <2>2. post \in Billing!Posts
      BY <2>1, PostType
    <2>3. mixed' \subseteq Requests
      BY <1>1 DEF Billing!Call, Billing!Others, Billing!TypeOK
    <2>4. post.queryset \subseteq Orders /\ post.options \in Options \cup {None}
      BY <2>2 DEF Billing!Posts
    <2>5. [post |-> post, answered |-> FALSE, answer |-> None, lines |-> {}, invoice |-> FALSE]
            \in Billing!Works
      BY <2>2 DEF Billing!Works
    <2>6. QED
      BY <1>1, <2>1, <2>3, <2>4, <2>5 DEF Billing!Call, Billing!TypeOK, BothAttributes
  <1>2. ASSUME NEW u \in Requests, Billing!AskOptions(u) PROVE Billing!TypeOK' /\ BothAttributes'
    <2> DEFINE answer == Billing!Page(wizard[process[u]], 1, None, {}, {}, {})
    <2>1. Billing!Answers(u, {0}, answer) /\ UNCHANGED wizard
      BY <1>2 DEF Billing!AskOptions
    <2>2. answer \in Billing!Pages
      BY <2>1, AskedOfOrders DEF Billing!Answers, Billing!Page, Billing!Pages
    <2>3. QED
      BY <2>1, <2>2, AnswerType DEF Billing!TypeOK, BothAttributes
  <1>3. ASSUME NEW u \in Requests, Billing!AskRelated(u) PROVE Billing!TypeOK' /\ BothAttributes'
    <2> DEFINE w == wizard[process[u]]
               answer == Billing!Page(w, 2, w.options, Billing!get_related(w.queryset), {}, {})
    <2>1. Billing!Answers(u, {1, 2}, answer) /\ UNCHANGED wizard
      BY <1>3 DEF Billing!AskRelated
    <2>2. answer \in Billing!Pages
      BY <2>1, AskedOfOrders DEF Billing!Answers, Billing!Page, Billing!Pages, Billing!get_related
    <2>3. QED
      BY <2>1, <2>2, AnswerType DEF Billing!TypeOK, BothAttributes
  <1>4. ASSUME NEW u \in Requests, Billing!Preview(u) PROVE Billing!TypeOK' /\ BothAttributes'
    <2> DEFINE w == wizard[process[u]]
               picked == request[u].post.picked
               billed == IF Billing!get_related(w.queryset) = {} THEN w.queryset
                         ELSE w.queryset \cup picked
               answer == Billing!Page(w, 3, w.options, {}, picked, Billing!bill(billed, w.options))
    <2>1. Billing!Answers(u, {1, 2}, answer) /\ wizard' = [wizard EXCEPT ![process[u]].queryset = billed]
      BY <1>4 DEF Billing!Preview
    <2>2. w.queryset \subseteq Orders /\ w.context \subseteq Orders /\ w.context # None
          /\ w.options \in Options \cup {None} /\ picked \subseteq Orders
          /\ w.queryset # None
      BY <2>1, AskedOfOrders DEF Billing!Answers
    <2>3. Billing!bill(billed, w.options) \subseteq Billing!Days /\ billed \subseteq Orders
      BY <2>2 DEF Billing!bill
    <2>4. answer \in Billing!Pages
      BY <2>2, <2>3 DEF Billing!Page, Billing!Pages
    <2>5. wizard' \in [Processes -> [queryset : (SUBSET Orders) \cup {None},
                                     context : (SUBSET Orders) \cup {None},
                                     options : Options \cup {None}]]
      BY <2>1, <2>3 DEF Billing!TypeOK
    <2>6. billed # None
      BY <2>3 DEF Billing!Assumption
    <2>7. BothAttributes'
      <3> HIDE DEF billed
      <3>1. QED BY <2>1, <2>2, <2>6, AnswerType DEF Billing!TypeOK, BothAttributes
    <2>8. /\ request' \in [Requests -> Billing!Works \cup {None}]
          /\ UNCHANGED <<process, page, lastBilled, invoiced, mixed, raced>>
      <3> HIDE DEF answer
      <3>1. QED BY <2>1, <2>4, AnswerType
    <2>9. QED
      BY <2>5, <2>7, <2>8 DEF Billing!TypeOK
  <1>5. ASSUME NEW u \in Requests, Billing!Confirm(u) PROVE Billing!TypeOK' /\ BothAttributes'
    BY <1>5, ConfirmType DEF Billing!TypeOK, BothAttributes
  <1>6. ASSUME NEW u \in Requests, Billing!Leave(u) PROVE Billing!TypeOK' /\ BothAttributes'
    <2> DEFINE lines == IF request[u].invoice THEN request[u].lines ELSE {}
    <2>1. request[u] # None /\ request[u].answer \in Billing!Pages \cup {None}
      BY <1>6, WizardRequestType DEF Billing!Leave, Billing!Works
    <2>2. lines \subseteq Billing!Days
      BY <2>1, WizardRequestType
    <2>3. PICK e \in 0 .. LastDay : UpTo(request[u].lines, e)
      BY <2>1 DEF PendingLines
    <2>4. UpTo(lines, e)
      BY <2>3 DEF UpTo
    <2>5. lastBilled' = [o \in Orders |->
             IF \E l \in lines : l[1] = o
             THEN CHOOSE d \in 1 .. LastDay : <<o, d - 1>> \in lines /\ <<o, d>> \notin lines
             ELSE lastBilled[o]]
      BY <1>6 DEF Billing!Leave
    <2>6. \A o \in Orders : (\E l \in lines : l[1] = o) =>
            (CHOOSE d \in 1 .. LastDay : <<o, d - 1>> \in lines /\ <<o, d>> \notin lines) = e
      <3> HIDE DEF lines
      <3>1. ASSUME NEW o \in Orders, \E l \in lines : l[1] = o
            PROVE  (CHOOSE d \in 1 .. LastDay : <<o, d - 1>> \in lines /\ <<o, d>> \notin lines) = e
        BY <2>2, <2>4, <3>1, LastOfLines
      <3>2. QED BY <3>1
    <2>7. lastBilled' \in [Orders -> 0 .. LastDay]
      BY <2>5, <2>6 DEF Billing!TypeOK
    <2>8. wizard' = [wizard EXCEPT ![process[u]].queryset = None, ![process[u]].context = None]
      BY <1>6 DEF Billing!Leave
    <2>9. page' \in [Requests -> Billing!Pages \cup {None}]
      BY <1>6, <2>1 DEF Billing!Leave, Billing!TypeOK
    <2>10. request' \in [Requests -> Billing!Works \cup {None}]
      BY <1>6 DEF Billing!Leave, Billing!TypeOK
    <2>11. invoiced' \subseteq Billing!Days
      BY <1>6, <2>2 DEF Billing!Leave, Billing!TypeOK
    <2>12. BothAttributes'
      BY <2>8 DEF Billing!TypeOK, BothAttributes
    <2>13. wizard' \in [Processes -> [queryset : (SUBSET Orders) \cup {None},
                                      context : (SUBSET Orders) \cup {None},
                                      options : Options \cup {None}]]
      BY <2>8 DEF Billing!TypeOK
    <2>14. QED
      BY <1>6, <2>7, <2>9, <2>10, <2>11, <2>12, <2>13
         DEF Billing!Leave, Billing!TypeOK
  <1>7. ASSUME NEW u \in Requests, Billing!Missing(u) PROVE Billing!TypeOK' /\ BothAttributes'
    BY <1>7 DEF Billing!Missing, Billing!TypeOK, BothAttributes
  <1>8. CASE UNCHANGED Billing!vars
    BY <1>8 DEF Billing!vars, Billing!TypeOK, BothAttributes, Billing!Pages, Billing!Posts,
       Billing!Days
  <1>9. QED
    BY <1>1, <1>2, <1>3, <1>4, <1>5, <1>6, <1>7, <1>8 DEF Billing!Next

\* A call hands over what the page has, and mixes with the requests of its process.
LEMMA WizardCallStep ==
  ASSUME Billing!Assumption, WizardInv, NEW u \in Requests, Billing!Call(u)
  PROVE  PagesPart' /\ LinesPart'
  <1>1. PICK post \in Billing!FromList \cup Billing!FromPage(page[u]) :
          /\ request' = [request EXCEPT ![u] =
               [post |-> post, answered |-> FALSE, answer |-> None, lines |-> {},
                invoice |-> FALSE]]
          /\ wizard' = [wizard EXCEPT ![process[u]] =
               [queryset |-> post.queryset, context |-> post.queryset,
                options |-> IF post.step = 0 THEN wizard[process[u]].options
                            ELSE post.options]]
          /\ mixed' = (IF post.step = 0 THEN mixed \ {u} ELSE mixed)
                        \cup (IF Billing!Others(u) = {} THEN {} ELSE Billing!Others(u) \cup {u})
    BY DEF Billing!Call, Billing!OptionsOf
  <1>2. /\ post \in Billing!Posts /\ post.step \in 0 .. 3
        /\ post.step > 0 =>
             /\ page[u] # None /\ page[u].step = post.step /\ page[u].queryset = post.queryset
             /\ post.step > 1 => page[u].options = post.options
             /\ post.step = 1 => post.options \in Options
    BY PostType DEF WizardInv
  <1>3. /\ \A v \in Requests \ {u} : request'[v] = request[v]
        /\ request'[u].post = post /\ request'[u].answer = None /\ request'[u].lines = {}
        /\ ~request'[u].answered /\ ~request'[u].invoice
        /\ request[u] = None /\ request'[u] # None
        /\ UNCHANGED <<process, page, lastBilled, invoiced, raced>>
    <2>1. [post |-> post, answered |-> FALSE, answer |-> None, lines |-> {}, invoice |-> FALSE]
            \in Billing!Works
      BY <1>2 DEF Billing!Works
    <2>2. QED
      BY <1>1, <2>1 DEF WizardInv, Billing!TypeOK, Billing!Call, Billing!Assumption
  <1>4. /\ \A v \in Requests : process[v] # process[u] =>
             wizard'[process[v]] = wizard[process[v]]
        /\ wizard'[process[u]].queryset = post.queryset
        /\ wizard'[process[u]].context = post.queryset
        /\ wizard'[process[u]].options = IF post.step = 0 THEN wizard[process[u]].options
                                         ELSE post.options
    BY <1>1 DEF WizardInv, Billing!TypeOK
  <1>5. HandedOver'
    <2> SUFFICES ASSUME NEW v \in Requests, v \notin mixed', request'[v] # None
                 PROVE  /\ Billing!Others(v)' = {}
                        /\ wizard'[process[v]].queryset # None
                        /\ ~request'[v].answered =>
                             /\ wizard'[process[v]].queryset = request'[v].post.queryset
                             /\ wizard'[process[v]].context = request'[v].post.queryset
                             /\ request'[v].post.step > 0 =>
                                  wizard'[process[v]].options = request'[v].post.options
      BY <1>3 DEF HandedOver
    <2>1. CASE v = u
      <3>1. Billing!Others(u) = {}
        BY <1>1, <2>1
      <3>2. Billing!Others(u)' = {}
        BY <1>3, <3>1 DEF Billing!Others
      <3>3. QED
        BY <2>1, <3>2, <1>2, <1>3, <1>4 DEF Billing!Assumption, Billing!Posts
    <2>2. CASE v # u
      <3>1. request[v] = request'[v] /\ v \notin Billing!Others(u)
        BY <1>1, <1>3, <2>2
      <3>2. process[v] # process[u] /\ v \notin mixed
        BY <1>1, <2>2, <3>1 DEF Billing!Others
      <3>3. Billing!Others(v) = {}
        BY <3>1, <3>2 DEF WizardInv, HandedOver
      <3>4. Billing!Others(v)' = {}
        BY <1>3, <3>2, <3>3 DEF Billing!Others
      <3>5. QED
        BY <1>3, <1>4, <3>1, <3>2, <3>4 DEF WizardInv, HandedOver
    <2>3. QED
      BY <2>1, <2>2
  <1>6. OptionsKnown'
    BY <1>2, <1>3, <1>4 DEF WizardInv, OptionsKnown, WithOptions
  <1>7. SendsItsPage'
    BY <1>2, <1>3 DEF WizardInv, SendsItsPage
  <1>0. \A v \in Requests : v \notin mixed' => v \notin mixed \/ (v = u /\ post.step = 0)
    BY <1>1
  <1>8. PagesTrue'
    <2> SUFFICES ASSUME NEW v \in Requests, v \notin mixed'
                 PROVE  /\ request'[v] = None \/ request'[v].post.step > 0 => Truthful(page[v])'
                        /\ request'[v] # None => Truthful(request[v].answer)'
      BY <1>3 DEF PagesTrue
    <2>1. CASE v = u
      <3>1. Truthful(request[v].answer)'
        BY <1>3, <2>1 DEF Truthful
      <3>2. request'[v] # None /\ request'[v].post.step > 0 => Truthful(page[v])
        BY <1>0, <1>3, <2>1, <1>2 DEF WizardInv, PagesTrue
      <3>3. Truthful(page[v]) => Truthful(page[v])'
        BY <1>3 DEF Truthful
      <3>4. QED
        BY <3>1, <3>2, <3>3, <1>3, <2>1
    <2>2. CASE v # u
      BY <1>0, <1>3, <2>2 DEF WizardInv, PagesTrue, Truthful
    <2>3. QED
      BY <2>1, <2>2
  <1>9. InvoicedUpTo'
    BY <1>3 DEF WizardInv, InvoicedUpTo
  <1>10. PendingLines'
    BY <1>3 DEF WizardInv, PendingLines, UpTo, Billing!Assumption
  <1>11. RivalsRaced'
    BY <1>3 DEF WizardInv, RivalsRaced, HasInvoice
  <1>12. Billing!BilledAsConfirmed'
    BY <1>0, <1>3 DEF WizardInv, Billing!BilledAsConfirmed, Billing!Confirmed, Billing!Working
  <1>13. QED
    BY <1>5, <1>6, <1>7, <1>8, <1>9, <1>10, <1>11, <1>12 DEF PagesPart, LinesPart

\* An answer disturbs nothing that others know, if its options are known and it is
\* truthful unless its user was mixed.
LEMMA AnswerStep ==
  ASSUME Billing!Assumption, WizardInv, NEW u \in Requests, NEW step, NEW answer \in Billing!Pages,
         Billing!Answers(u, step, answer),
         \A v \in Requests : process[v] # process[u] => wizard'[process[v]] = wizard[process[v]],
         wizard'[process[u]].options = wizard[process[u]].options,
         wizard'[process[u]].queryset # None,
         WithOptions(answer), u \notin mixed => Truthful(answer), 3 \notin step
  PROVE  PagesPart' /\ LinesPart'
  <1>1. /\ \A v \in Requests \ {u} : request'[v] = request[v]
        /\ request'[u].post = request[u].post /\ request'[u].answered
        /\ request'[u].answer = answer /\ request'[u].lines = request[u].lines
        /\ request'[u].invoice = request[u].invoice
        /\ request[u] # None /\ ~request[u].answered
        /\ UNCHANGED <<process, page, lastBilled, invoiced, mixed, raced>>
    BY AnswerType DEF WizardInv
  <1>2. request'[u] # None
    BY AnswerType DEF WizardInv, Billing!Assumption
  <1>3. request[u].post.step # 3 /\ request[u].lines = {} /\ ~request[u].invoice
    BY <1>1 DEF Billing!Answers, WizardInv, PendingLines
  <1>4. HandedOver'
    <2> SUFFICES ASSUME NEW v \in Requests, v \notin mixed, request'[v] # None
                 PROVE  /\ Billing!Others(v)' = {}
                        /\ wizard'[process[v]].queryset # None
                        /\ ~request'[v].answered =>
                             /\ wizard'[process[v]].queryset = request'[v].post.queryset
                             /\ wizard'[process[v]].context = request'[v].post.queryset
                             /\ request'[v].post.step > 0 =>
                                  wizard'[process[v]].options = request'[v].post.options
      BY <1>1 DEF HandedOver
    <2>1. request[v] # None /\ Billing!Others(v) = {}
      BY <1>1 DEF WizardInv, HandedOver
    <2>2. Billing!Others(v)' = {}
      BY <1>1, <2>1 DEF Billing!Others
    <2>3. CASE v = u
      BY <1>1, <2>2, <2>3
    <2>4. CASE v # u
      <3>1. process[v] # process[u]
        BY <1>1, <2>1, <2>4 DEF Billing!Others
      <3>2. QED
        BY <1>1, <2>1, <2>2, <2>4, <3>1 DEF WizardInv, HandedOver
    <2>5. QED
      BY <2>3, <2>4
  <1>5. OptionsKnown'
    <2> SUFFICES ASSUME NEW v \in Requests
                 PROVE  /\ WithOptions(page[v])
                        /\ request'[v] # None => WithOptions(request'[v].answer)
                        /\ request'[v] # None /\ request'[v].post.step > 0 =>
                             /\ request'[v].post.options \in Options
                             /\ wizard'[process[v]].options \in Options
      BY <1>1 DEF OptionsKnown, WithOptions
    <2>1. CASE v = u
      BY <1>1, <2>1 DEF WizardInv, OptionsKnown
    <2>2. CASE v # u
      BY <1>1, <2>2 DEF WizardInv, OptionsKnown
    <2>3. QED
      BY <2>1, <2>2
  <1>6. SendsItsPage'
    BY <1>1 DEF WizardInv, SendsItsPage
  <1>7. PagesTrue'
    <2> SUFFICES ASSUME NEW v \in Requests, v \notin mixed
                 PROVE  /\ request'[v] = None \/ request'[v].post.step > 0 => Truthful(page[v])
                        /\ request'[v] # None => Truthful(request'[v].answer)
      BY <1>1 DEF PagesTrue, Truthful
    <2>1. QED
      BY <1>1, <1>2 DEF WizardInv, PagesTrue
  <1>8. InvoicedUpTo'
    BY <1>1 DEF WizardInv, InvoicedUpTo
  <1>9. PendingLines'
    <2> SUFFICES ASSUME NEW v \in Requests, request'[v] # None
                 PROVE  /\ ~request'[v].answered => request'[v].lines = {} /\ ~request'[v].invoice
                        /\ \E e \in 0 .. LastDay : UpTo(request'[v].lines, e)
                        /\ \A l \in request'[v].lines, d \in 0 .. LastDay - 1 :
                             d < l[2] => <<l[1], d>> \in request'[v].lines \cup invoiced
                        /\ request'[v].invoice =>
                             \A l \in request'[v].lines : l \in invoiced => l[1] \in raced
      BY <1>1 DEF PendingLines, UpTo
    <2>1. QED
      BY <1>1 DEF WizardInv, PendingLines
  <1>10. RivalsRaced'
    BY <1>1, <1>3 DEF WizardInv, RivalsRaced, HasInvoice
  <1>11. Billing!BilledAsConfirmed'
    BY <1>1, <1>3 DEF WizardInv, Billing!BilledAsConfirmed, Billing!Confirmed, Billing!Working
  <1>12. QED
    BY <1>4, <1>5, <1>6, <1>7, <1>8, <1>9, <1>10, <1>11 DEF PagesPart, LinesPart

\* The page that asks for confirmation shows the days its orders are not billed for.
LEMMA PreviewStep ==
  ASSUME Billing!Assumption, WizardInv, NEW u \in Requests, Billing!Preview(u)
  PROVE  PagesPart' /\ LinesPart'
  <1> DEFINE w == wizard[process[u]]
             picked == request[u].post.picked
             billed == IF Billing!get_related(w.queryset) = {} THEN w.queryset
                       ELSE w.queryset \cup picked
             shown == Billing!bill(billed, w.options)
             answer == Billing!Page(w, 3, w.options, {}, picked, shown)
  <1>1. Billing!Answers(u, {1, 2}, answer) /\ wizard' = [wizard EXCEPT ![process[u]].queryset = billed]
    BY DEF Billing!Preview
  <1>2. request[u] # None /\ ~request[u].answered /\ request[u].post.step \in {1, 2}
        /\ w.queryset # None
    BY <1>1 DEF Billing!Answers, Billing!Working, WizardInv, Billing!TypeOK, Billing!Works
  <1>3. w.queryset \subseteq Orders /\ w.context \subseteq Orders /\ w.context # None
        /\ picked \subseteq Orders
    BY <1>2, AskedOfOrders DEF WizardInv
  <1>4. w.options \in Options
    BY <1>2 DEF WizardInv, OptionsKnown
  <1>5. shown \subseteq Billing!Days
    BY DEF Billing!bill
  <1>6. answer \in Billing!Pages
    <2> HIDE DEF shown
    <2>1. QED BY <1>3, <1>4, <1>5 DEF Billing!Page, Billing!Pages
  <1>7. /\ answer.step = 3 /\ answer.queryset = w.context /\ answer.options = w.options
        /\ answer.picked = picked /\ answer.shown = shown
    BY DEF Billing!Page
  <1>8. u \notin mixed => Truthful(answer)
    <2> SUFFICES ASSUME u \notin mixed PROVE Truthful(answer)
      OBVIOUS
    <2>1. w.queryset = w.context
      BY <1>2 DEF WizardInv, HandedOver
    <2>2. \A l \in Billing!Days : l[1] \in w.context /\ l[2] < w.options.until =>
            l \in shown \/ l \in invoiced
      <3> SUFFICES ASSUME NEW l \in Billing!Days, l[1] \in w.queryset,
                          l[2] < w.options.until, ~(lastBilled[l[1]] <= l[2])
                   PROVE  l \in invoiced
        BY <2>1 DEF Billing!bill
      <3>1. l[1] \in Orders /\ l[2] \in 0 .. LastDay - 1 /\ lastBilled[l[1]] \in 0 .. LastDay
        BY DEF WizardInv, Billing!TypeOK, Billing!Days
      <3>2. l[2] < lastBilled[l[1]]
        BY <3>1 DEF Billing!Assumption
      <3>3. QED
        BY <3>2 DEF WizardInv, InvoicedUpTo
    <2>3. \A l \in shown : l[2] < w.options.until /\ (l[1] \in w.context \/ l[1] \in picked)
      BY <2>1 DEF Billing!bill
    <2>4. QED
      <3> HIDE DEF shown, answer
      <3>1. QED BY <1>7, <2>2, <2>3 DEF Truthful
  <1>9. WithOptions(answer)
    <2> HIDE DEF answer
    <2>1. QED BY <1>4, <1>7 DEF WithOptions
  <1>10. /\ \A v \in Requests : process[v] # process[u] => wizard'[process[v]] = wizard[process[v]]
         /\ wizard'[process[u]].options = w.options /\ wizard'[process[u]].queryset = billed
    <2> HIDE DEF billed
    <2>1. QED BY <1>1, <1>2 DEF WizardInv, Billing!TypeOK
  <1>11. billed # None
    BY <1>3 DEF Billing!Assumption
  <1>12. QED
    <2> HIDE DEF answer, billed
    <2>1. QED BY <1>1, <1>6, <1>8, <1>9, <1>10, <1>11, AnswerStep

\* The pages before it show nothing to confirm.
LEMMA AskStep ==
  ASSUME Billing!Assumption, WizardInv, NEW u \in Requests,
         Billing!AskOptions(u) \/ Billing!AskRelated(u)
  PROVE  PagesPart' /\ LinesPart'
  <1> DEFINE w == wizard[process[u]]
  <1>1. CASE Billing!AskOptions(u)
    <2> DEFINE answer == Billing!Page(w, 1, None, {}, {}, {})
    <2>1. Billing!Answers(u, {0}, answer) /\ UNCHANGED wizard
      BY <1>1 DEF Billing!AskOptions
    <2>2. answer \in Billing!Pages /\ answer.step = 1
      BY <2>1, AskedOfOrders DEF WizardInv, Billing!Answers, Billing!Working, Billing!Page,
         Billing!Pages
    <2>3. WithOptions(answer) /\ Truthful(answer)
      <3> HIDE DEF answer
      <3>1. QED BY <2>2 DEF WithOptions, Truthful
    <2>4. QED
      <3> HIDE DEF answer
      <3>1. wizard' = wizard /\ wizard[process[u]].queryset # None
        BY <2>1 DEF Billing!Answers
      <3>2. 3 \notin {0}
        OBVIOUS
      <3>3. QED
        BY <2>1, <2>2, <2>3, <3>1, <3>2, AnswerStep
  <1>2. CASE Billing!AskRelated(u)
    <2> DEFINE answer == Billing!Page(w, 2, w.options, Billing!get_related(w.queryset), {}, {})
    <2>1. Billing!Answers(u, {1, 2}, answer) /\ UNCHANGED wizard
      BY <1>2 DEF Billing!AskRelated
    <2>2. w.options \in Options
      BY <2>1 DEF WizardInv, OptionsKnown, Billing!Answers, Billing!Working
    <2>3. answer \in Billing!Pages /\ answer.step = 2 /\ answer.options = w.options
      BY <2>1, <2>2, AskedOfOrders
         DEF WizardInv, Billing!Answers, Billing!Working, Billing!Page, Billing!Pages,
            Billing!get_related
    <2>4. WithOptions(answer) /\ Truthful(answer)
      <3> HIDE DEF answer
      <3>1. QED BY <2>2, <2>3 DEF WithOptions, Truthful
    <2>5. QED
      <3> HIDE DEF answer
      <3>1. wizard' = wizard /\ wizard[process[u]].queryset # None
        BY <2>1 DEF Billing!Answers
      <3>2. 3 \notin {1, 2}
        OBVIOUS
      <3>3. QED
        BY <2>1, <2>3, <2>4, <3>1, <3>2, AnswerStep
  <1>3. QED
    BY <1>1, <1>2

\* Confirming bills the days the page showed, from the one the orders are billed until.
LEMMA ConfirmStep ==
  ASSUME Billing!Assumption, WizardInv, NEW u \in Requests, Billing!Confirm(u)
  PROVE  PagesPart' /\ LinesPart'
  <1> DEFINE w == wizard[process[u]]
             lines == Billing!bill(w.queryset, w.options)
  <1>1. /\ \A v \in Requests \ {u} : request'[v] = request[v]
        /\ request'[u].post = request[u].post /\ request'[u].answered
        /\ request'[u].answer = request[u].answer
        /\ request'[u].lines = lines /\ request'[u].invoice = ~w.options.proforma
        /\ request[u] # None /\ ~request[u].answered
        /\ request[u].post.step = 3 /\ w.queryset # None
        /\ UNCHANGED <<process, wizard, page, lastBilled, invoiced, mixed>>
        /\ raced \subseteq raced' /\ raced' \subseteq Orders
        /\ request'[u] # None
    BY ConfirmType DEF WizardInv, Billing!Assumption
  <1>2. w.options \in [until : 1 .. LastDay, proforma : BOOLEAN]
    BY <1>1 DEF WizardInv, OptionsKnown, Billing!Assumption
  <1>3. \A l \in lines : /\ l \in Billing!Days /\ l[1] \in w.queryset
                         /\ lastBilled[l[1]] <= l[2] /\ l[2] < w.options.until
    BY DEF Billing!bill
  <1>4. \A l \in Billing!Days : l[1] \in Orders /\ l[2] \in 0 .. LastDay - 1
                              /\ lastBilled[l[1]] \in 0 .. LastDay /\ l[2] \in Nat
                              /\ lastBilled[l[1]] \in Nat /\ l = <<l[1], l[2]>>
    BY DEF Billing!Days, WizardInv, Billing!TypeOK
  <1>5. \A l \in Billing!Days : ~(lastBilled[l[1]] <= l[2]) => l \in invoiced
    BY <1>4 DEF WizardInv, InvoicedUpTo
  <1>6. \A l \in lines : l \in invoiced => l[1] \in raced
    BY <1>3, <1>4 DEF WizardInv, InvoicedUpTo
  <1> HIDE DEF lines
  <1>7. HandedOver'
    <2>1. \A v \in Requests : request'[v] # None => request[v] # None
      BY <1>1
    <2>2. \A v \in Requests : Billing!Others(v)' \subseteq Billing!Others(v)
      BY <1>1 DEF Billing!Others
    <2>3. QED
      BY <1>1, <2>1, <2>2 DEF WizardInv, HandedOver
  <1>8. OptionsKnown'
    BY <1>1 DEF WizardInv, OptionsKnown, WithOptions
  <1>9. SendsItsPage'
    BY <1>1 DEF WizardInv, SendsItsPage
  <1>10. PagesTrue'
    <2>1. \A p : Truthful(p) => Truthful(p)'
      BY <1>1 DEF Truthful
    <2>2. \A v \in Requests \ mixed :
            /\ request'[v] = None \/ request'[v].post.step > 0 => Truthful(page[v])
            /\ request'[v] # None => Truthful(request'[v].answer)
      BY <1>1 DEF WizardInv, PagesTrue
    <2>3. \A v \in Requests \ mixed :
            /\ request'[v] = None \/ request'[v].post.step > 0 => Truthful(page[v])'
            /\ request'[v] # None => Truthful(request[v].answer)'
      BY <1>1, <2>2 DEF Truthful
    <2>4. QED
      BY <1>1, <2>3 DEF PagesTrue
  <1>11. InvoicedUpTo'
    BY <1>1 DEF WizardInv, InvoicedUpTo
  <1>12. PendingLines'
    <2>1. UpTo(lines, w.options.until)
      <3> SUFFICES ASSUME NEW l \in lines, NEW d \in l[2] .. w.options.until - 1
                   PROVE  <<l[1], d>> \in lines
        BY <1>3 DEF UpTo
      <3>1. l[1] \in Orders /\ l[2] \in Nat /\ lastBilled[l[1]] \in Nat /\ l[1] \in w.queryset
            /\ lastBilled[l[1]] <= l[2]
        BY <1>3, <1>4
      <3>2. d \in 0 .. LastDay - 1 /\ lastBilled[l[1]] <= d /\ d < w.options.until
        BY <1>2, <3>1 DEF Billing!Assumption
      <3>3. <<l[1], d>> \in Billing!Days
        BY <3>1, <3>2 DEF Billing!Days
      <3>4. QED
        BY <3>1, <3>2, <3>3 DEF lines, Billing!bill
    <2>2. \A l \in lines, d \in 0 .. LastDay - 1 : d < l[2] => <<l[1], d>> \in lines \cup invoiced
      <3> SUFFICES ASSUME NEW l \in lines, NEW d \in 0 .. LastDay - 1, d < l[2],
                          <<l[1], d>> \notin invoiced
                   PROVE  <<l[1], d>> \in lines
        OBVIOUS
      <3>1. l[1] \in Orders /\ l[2] \in Nat /\ l[1] \in w.queryset /\ l[2] < w.options.until
        BY <1>3, <1>4
      <3>2. <<l[1], d>> \in Billing!Days
        BY <3>1 DEF Billing!Days
      <3>3. lastBilled[l[1]] <= d
        BY <1>5, <3>2
      <3>4. d < w.options.until
        BY <1>2, <3>1 DEF Billing!Assumption
      <3>5. QED
        BY <3>1, <3>2, <3>3, <3>4 DEF lines, Billing!bill
    <2>3. w.options.until \in 0 .. LastDay
      BY <1>2 DEF Billing!Assumption
    <2>4. SUFFICES ASSUME NEW v \in Requests, request'[v] # None
                 PROVE  /\ ~request'[v].answered => request'[v].lines = {} /\ ~request'[v].invoice
                        /\ \E e \in 0 .. LastDay : UpTo(request'[v].lines, e)
                        /\ \A l \in request'[v].lines, d \in 0 .. LastDay - 1 :
                             d < l[2] => <<l[1], d>> \in request'[v].lines \cup invoiced
                        /\ request'[v].invoice =>
                             \A l \in request'[v].lines : l \in invoiced => l[1] \in raced'
      BY <1>1 DEF PendingLines, UpTo
    <2>5. CASE v = u
      BY <1>1, <1>6, <2>1, <2>2, <2>3, <2>5
    <2>6. CASE v # u
      <3>1. request'[v] = request[v]
        BY <1>1, <2>6
      <3>2. QED
        BY <1>1, <2>4, <3>1 DEF WizardInv, PendingLines
    <2>7. QED
      BY <2>5, <2>6
  <1>13. RivalsRaced'
    <2>1. ASSUME NEW v \in Requests, v # u, HasInvoice(v), ~w.options.proforma,
                 NEW l \in lines, NEW m \in request[v].lines, l[1] = m[1]
          PROVE  l[1] \in raced'
      <3>1. raced' = raced \cup {o \in Orders :
              /\ {x \in Requests \ {u} : /\ request[x] # None /\ request[x].invoice
                                        /\ \E k \in request[x].lines : k[1] = o} # {}
              /\ \E k \in lines : k[1] = o}
        BY <2>1 DEF Billing!Confirm, lines
      <3>2. l[1] \in Orders
        BY <1>3, <1>4, <2>1
      <3>3. QED
        BY <2>1, <3>1, <3>2 DEF HasInvoice
    <2>2. \A v \in Requests \ {u} : HasInvoice(v)' <=> HasInvoice(v)
      BY <1>1 DEF HasInvoice
    <2>3. SUFFICES ASSUME NEW v \in Requests, NEW x \in Requests, v # x,
                          HasInvoice(v)', HasInvoice(x)',
                          NEW l \in request'[v].lines, NEW m \in request'[x].lines, l[1] = m[1]
                   PROVE  l[1] \in raced'
      BY DEF RivalsRaced
    <2>4. CASE v = u
      BY <1>1, <2>1, <2>2, <2>3, <2>4 DEF HasInvoice
    <2>5. CASE x = u
      BY <1>1, <2>1, <2>2, <2>3, <2>5 DEF HasInvoice
    <2>6. CASE v # u /\ x # u
      BY <1>1, <2>2, <2>3, <2>6 DEF WizardInv, RivalsRaced
    <2>7. QED
      BY <2>4, <2>5, <2>6
  <1>14. Billing!BilledAsConfirmed'
    <2> SUFFICES ASSUME NEW v \in Requests, v \notin mixed,
                        request'[v] # None, request'[v].answered, request'[v].post.step = 3
                 PROVE  /\ request'[v].invoice = ~page[v].options.proforma
                        /\ \A l \in request'[v].lines \ page[v].shown : l[1] \in raced'
                        /\ \A l \in page[v].shown \ request'[v].lines :
                             l \in invoiced \/ l[1] \in page[v].picked
      BY <1>1 DEF Billing!BilledAsConfirmed, Billing!Confirmed, Billing!Working
    <2>1. CASE v # u
      BY <1>1, <2>1 DEF WizardInv, Billing!BilledAsConfirmed, Billing!Confirmed, Billing!Working
    <2>2. CASE v = u
      <3>1. w.queryset = request[u].post.queryset /\ w.options = request[u].post.options
        BY <1>1, <2>2 DEF WizardInv, HandedOver
      <3>2. /\ page[u] # None /\ page[u].step = 3 /\ page[u].queryset = w.queryset
            /\ page[u].options = w.options
        BY <1>1, <3>1 DEF WizardInv, SendsItsPage
      <3>3. Truthful(page[u])
        BY <1>1, <2>2 DEF WizardInv, PagesTrue
      <3>4. page[u].shown \subseteq Billing!Days
        BY <3>2 DEF WizardInv, Billing!TypeOK, Billing!Pages
      <3>5. \A l \in lines \ page[u].shown : l[1] \in raced'
        BY <1>1, <1>3, <1>6, <3>2, <3>3 DEF Truthful
      <3>6. \A l \in page[u].shown \ lines : l \in invoiced \/ l[1] \in page[u].picked
        BY <1>5, <3>2, <3>3, <3>4 DEF Truthful, lines, Billing!bill
      <3>7. QED
        BY <1>1, <2>2, <3>2, <3>5, <3>6
    <2>3. QED
      BY <2>1, <2>2
  <1>15. QED
    BY <1>7, <1>8, <1>9, <1>10, <1>11, <1>12, <1>13, <1>14 DEF PagesPart, LinesPart

\* A request that ends leaves to the others what they had, and the orders billed up to
\* the end of its lines.
LEMMA LeaveStep ==
  ASSUME Billing!Assumption, WizardInv, NEW u \in Requests, Billing!Leave(u)
  PROVE  PagesPart' /\ LinesPart'
  <1> DEFINE lines == IF request[u].invoice THEN request[u].lines ELSE {}
  <1>1. /\ request' = [request EXCEPT ![u] = None]
        /\ wizard' = [wizard EXCEPT ![process[u]].queryset = None, ![process[u]].context = None]
        /\ page' = [page EXCEPT ![u] = request[u].answer]
        /\ invoiced' = invoiced \cup lines
        /\ UNCHANGED <<process, mixed, raced>>
        /\ request[u] # None /\ request[u].answered
    BY DEF Billing!Leave, Billing!Working
  <1>2. /\ request'[u] = None /\ page'[u] = request[u].answer
        /\ \A v \in Requests \ {u} : request'[v] = request[v] /\ page'[v] = page[v]
        /\ \A v \in Requests : process[v] # process[u] => wizard'[process[v]] = wizard[process[v]]
        /\ \A v \in Requests : wizard'[process[v]].options = wizard[process[v]].options
    BY <1>1 DEF WizardInv, Billing!TypeOK
  <1>3. lines \subseteq Billing!Days /\ lines \subseteq request[u].lines
    BY <1>1, WizardRequestType DEF WizardInv
  <1>4. PICK e \in 0 .. LastDay : UpTo(request[u].lines, e)
    BY <1>1 DEF WizardInv, PendingLines
  <1>5. UpTo(lines, e)
    BY <1>4 DEF UpTo
  <1>6. \A o \in Orders : lastBilled'[o] = IF \E l \in lines : l[1] = o THEN e ELSE lastBilled[o]
    <2>1. lastBilled' = [o \in Orders |->
             IF \E l \in lines : l[1] = o
             THEN CHOOSE d \in 1 .. LastDay : <<o, d - 1>> \in lines /\ <<o, d>> \notin lines
             ELSE lastBilled[o]]
      BY DEF Billing!Leave
    <2> HIDE DEF lines
    <2>2. ASSUME NEW o \in Orders, \E l \in lines : l[1] = o
          PROVE  (CHOOSE d \in 1 .. LastDay : <<o, d - 1>> \in lines /\ <<o, d>> \notin lines) = e
      BY <1>3, <1>5, <2>2, LastOfLines
    <2>3. QED
      BY <2>1, <2>2
  <1>7. \A l \in lines : l[1] \in raced \/ l \notin invoiced
    BY <1>1, <1>3 DEF WizardInv, PendingLines
  <1>8. \A l \in lines, d \in 0 .. LastDay - 1 : d < l[2] => <<l[1], d>> \in lines \cup invoiced
    BY <1>1 DEF WizardInv, PendingLines
  <1>9. \A l \in Billing!Days : l[1] \in Orders /\ l[2] \in 0 .. LastDay - 1 /\ l[2] \in Nat
                              /\ lastBilled[l[1]] \in Nat /\ l = <<l[1], l[2]>>
    BY DEF Billing!Days, WizardInv, Billing!TypeOK
  <1>10. \A v \in Requests \ {u} : HasInvoice(v) =>
           \A l \in request[v].lines, m \in lines : l[1] = m[1] => l[1] \in raced
    BY <1>1 DEF WizardInv, RivalsRaced, HasInvoice
  <1> HIDE DEF lines
  <1>11. HandedOver'
    <2> SUFFICES ASSUME NEW v \in Requests, v \notin mixed, request'[v] # None
                 PROVE  /\ Billing!Others(v)' = {}
                        /\ wizard'[process[v]].queryset # None
                        /\ ~request'[v].answered =>
                             /\ wizard'[process[v]].queryset = request'[v].post.queryset
                             /\ wizard'[process[v]].context = request'[v].post.queryset
                             /\ request'[v].post.step > 0 =>
                                  wizard'[process[v]].options = request'[v].post.options
      BY <1>1 DEF HandedOver
    <2>1. v # u /\ request'[v] = request[v]
      BY <1>2
    <2>2. Billing!Others(v) = {}
      BY <2>1 DEF WizardInv, HandedOver
    <2>3. process[v] # process[u]
      BY <1>1, <2>1, <2>2 DEF Billing!Others
    <2>4. Billing!Others(v)' = {}
      BY <1>1, <1>2, <2>2 DEF Billing!Others
    <2>5. QED
      BY <1>2, <2>1, <2>3, <2>4 DEF WizardInv, HandedOver
  <1>12. OptionsKnown'
    <2> SUFFICES ASSUME NEW v \in Requests
                 PROVE  /\ WithOptions(page'[v])
                        /\ request'[v] # None => WithOptions(request'[v].answer)
                        /\ request'[v] # None /\ request'[v].post.step > 0 =>
                             /\ request'[v].post.options \in Options
                             /\ wizard'[process[v]].options \in Options
      BY <1>1 DEF OptionsKnown, WithOptions
    <2>1. QED
      BY <1>1, <1>2 DEF WizardInv, OptionsKnown
  <1>13. SendsItsPage'
    BY <1>2 DEF WizardInv, SendsItsPage
  <1>14. PagesTrue'
    <2>1. invoiced \subseteq invoiced' /\ raced' = raced
      BY <1>1
    <2> SUFFICES ASSUME NEW v \in Requests, v \notin mixed
                 PROVE  /\ request'[v] = None \/ request'[v].post.step > 0 => Truthful(page[v])'
                        /\ request'[v] # None => Truthful(request[v].answer)'
      BY <1>1 DEF PagesTrue
    <2>2. CASE v = u
      <3>1. Truthful(request[u].answer)
        BY <1>1, <2>2 DEF WizardInv, PagesTrue
      <3>2. QED
        BY <1>2, <2>1, <2>2, <3>1 DEF Truthful
    <2>3. CASE v # u
      <3>1. /\ request'[v] = None \/ request'[v].post.step > 0 => Truthful(page[v])
            /\ request'[v] # None => Truthful(request[v].answer)
        BY <1>2, <2>3 DEF WizardInv, PagesTrue
      <3>2. Truthful(page[v]) => Truthful(page[v])'
        BY <1>2, <2>1, <2>3 DEF Truthful
      <3>3. Truthful(request[v].answer) => Truthful(request[v].answer)'
        BY <1>2, <2>1, <2>3 DEF Truthful
      <3>4. QED
        BY <3>1, <3>2, <3>3
    <2>4. QED
      BY <2>2, <2>3
  <1>15. InvoicedUpTo'
    <2> SUFFICES ASSUME NEW l \in Billing!Days
                 PROVE  /\ l[2] < lastBilled'[l[1]] => l \in invoiced'
                        /\ l \in invoiced' => l[2] < lastBilled'[l[1]] \/ l[1] \in raced
      BY <1>1 DEF InvoicedUpTo
    <2>1. l[1] \in Orders /\ l[2] \in 0 .. LastDay - 1 /\ l[2] \in Nat
          /\ lastBilled[l[1]] \in Nat /\ l = <<l[1], l[2]>>
      BY <1>9
    <2>2. /\ l[2] < lastBilled[l[1]] => l \in invoiced
          /\ l \in invoiced => l[2] < lastBilled[l[1]] \/ l[1] \in raced
      BY DEF WizardInv, InvoicedUpTo
    <2>3. CASE ~ \E m \in lines : m[1] = l[1]
      BY <1>1, <1>6, <2>1, <2>2, <2>3
    <2>4. CASE \E m \in lines : m[1] = l[1]
      <3>1. PICK m \in lines : m[1] = l[1]
        BY <2>4
      <3>2. lastBilled'[l[1]] = e
        BY <1>6, <2>1, <2>4
      <3>3. m \in Billing!Days /\ m[2] \in Nat /\ m = <<l[1], m[2]>> /\ m[2] \in 0 .. LastDay - 1
        BY <1>3, <1>9, <3>1
      <3>4. l[2] < e => l \in invoiced'
        <4>1. CASE l[2] < m[2]
          BY <1>1, <1>8, <2>1, <3>1, <4>1
        <4>2. CASE m[2] <= l[2] /\ l[2] < e
          <5>1. l[2] \in m[2] .. e - 1
            BY <2>1, <3>3, <4>2
          <5>2. <<m[1], l[2]>> \in lines
            BY <1>5, <5>1 DEF UpTo
          <5>3. QED
            BY <1>1, <2>1, <3>1, <5>2
        <4>3. QED
          BY <2>1, <3>3, <4>1, <4>2
      <3>5. l \in invoiced' => l[2] < e \/ l[1] \in raced
        <4>1. CASE l \in lines
          BY <1>5, <4>1 DEF UpTo
        <4>2. CASE l \in invoiced /\ l[1] \notin raced
          <5>1. l[2] < lastBilled[l[1]]
            BY <2>2, <4>2
          <5>2. m \notin invoiced
            BY <1>7, <3>1, <4>2
          <5>3. ~(m[2] < lastBilled[m[1]])
            BY <3>3, <5>2 DEF WizardInv, InvoicedUpTo
          <5>4. m[2] < e
            BY <1>5 DEF UpTo
          <5>5. QED
            BY <2>1, <3>1, <3>3, <5>1, <5>3, <5>4
        <4>3. QED
          BY <1>1, <4>1, <4>2
      <3>6. QED
        BY <3>2, <3>4, <3>5
    <2>5. QED
      BY <2>3, <2>4
  <1>16. PendingLines'
    <2> SUFFICES ASSUME NEW v \in Requests, request'[v] # None
                 PROVE  /\ ~request'[v].answered => request'[v].lines = {} /\ ~request'[v].invoice
                        /\ \E x \in 0 .. LastDay : UpTo(request'[v].lines, x)
                        /\ \A l \in request'[v].lines, d \in 0 .. LastDay - 1 :
                             d < l[2] => <<l[1], d>> \in request'[v].lines \cup invoiced'
                        /\ request'[v].invoice =>
                             \A l \in request'[v].lines : l \in invoiced' => l[1] \in raced
      BY <1>1 DEF PendingLines, UpTo
    <2>1. v # u /\ request'[v] = request[v]
      BY <1>2
    <2>2. invoiced \subseteq invoiced'
      BY <1>1
    <2>3. request[v].invoice => \A l \in request[v].lines : l \in invoiced' => l[1] \in raced
      BY <1>1, <1>10, <2>1 DEF WizardInv, PendingLines, HasInvoice
    <2>4. QED
      BY <2>1, <2>2, <2>3 DEF WizardInv, PendingLines
  <1>17. RivalsRaced'
    BY <1>1, <1>2 DEF WizardInv, RivalsRaced, HasInvoice
  <1>18. Billing!BilledAsConfirmed'
    <2> SUFFICES ASSUME NEW v \in Requests, v \notin mixed,
                        request'[v] # None, request'[v].answered, request'[v].post.step = 3
                 PROVE  /\ request'[v].invoice = ~page'[v].options.proforma
                        /\ \A l \in request'[v].lines \ page'[v].shown : l[1] \in raced
                        /\ \A l \in page'[v].shown \ request'[v].lines :
                             l \in invoiced' \/ l[1] \in page'[v].picked
      BY <1>1 DEF Billing!BilledAsConfirmed, Billing!Confirmed, Billing!Working
    <2>1. v # u /\ request'[v] = request[v] /\ page'[v] = page[v] /\ invoiced \subseteq invoiced'
      BY <1>1, <1>2
    <2>2. QED
      BY <2>1 DEF WizardInv, Billing!BilledAsConfirmed, Billing!Confirmed, Billing!Working
  <1>19. QED
    BY <1>11, <1>12, <1>13, <1>14, <1>15, <1>16, <1>17, <1>18 DEF PagesPart, LinesPart

\* A request that fails changes nothing else.
LEMMA MissingStep ==
  ASSUME Billing!Assumption, WizardInv, NEW u \in Requests, Billing!Missing(u)
  PROVE  PagesPart' /\ LinesPart'
  <1>1. /\ request'[u] = None /\ \A v \in Requests \ {u} : request'[v] = request[v]
        /\ request[u] # None /\ wizard[process[u]].queryset = None
        /\ UNCHANGED <<process, wizard, page, lastBilled, invoiced, mixed, raced>>
    BY DEF Billing!Missing, WizardInv, Billing!TypeOK
  <1>2. u \in mixed
    BY <1>1 DEF WizardInv, HandedOver
  <1>3. HandedOver'
    <2>1. \A v \in Requests : request'[v] # None => v # u
             /\ Billing!Others(v)' \subseteq Billing!Others(v)
      BY <1>1 DEF Billing!Others
    <2>2. QED
      BY <1>1, <2>1 DEF WizardInv, HandedOver
  <1>4. OptionsKnown' /\ SendsItsPage'
    BY <1>1 DEF WizardInv, OptionsKnown, WithOptions, SendsItsPage
  <1>5. PagesTrue'
    BY <1>1, <1>2 DEF WizardInv, PagesTrue, Truthful
  <1>6. InvoicedUpTo'
    BY <1>1 DEF WizardInv, InvoicedUpTo
  <1>7. PendingLines'
    <2> SUFFICES ASSUME NEW v \in Requests, request'[v] # None
                 PROVE  /\ ~request'[v].answered => request'[v].lines = {} /\ ~request'[v].invoice
                        /\ \E x \in 0 .. LastDay : UpTo(request'[v].lines, x)
                        /\ \A l \in request'[v].lines, d \in 0 .. LastDay - 1 :
                             d < l[2] => <<l[1], d>> \in request'[v].lines \cup invoiced
                        /\ request'[v].invoice =>
                             \A l \in request'[v].lines : l \in invoiced => l[1] \in raced
      BY <1>1 DEF PendingLines, UpTo
    <2>1. QED
      BY <1>1 DEF WizardInv, PendingLines
  <1>8. RivalsRaced'
    BY <1>1 DEF WizardInv, RivalsRaced, HasInvoice
  <1>9. Billing!BilledAsConfirmed'
    BY <1>1 DEF WizardInv, Billing!BilledAsConfirmed, Billing!Confirmed, Billing!Working
  <1>10. QED
    BY <1>3, <1>4, <1>5, <1>6, <1>7, <1>8, <1>9 DEF PagesPart, LinesPart

\* The wizard bills what its users confirmed, whoever else is at it, and an invoice
\* charges no day again, for any orders, days, processes and users.
THEOREM WizardBillsAsConfirmed ==
  ASSUME Billing!Assumption
  PROVE  Billing!Spec => []BilledAsConfirmed
  <1>1. Billing!Init => WizardInv
    <2> SUFFICES ASSUME Billing!Init PROVE WizardInv
      OBVIOUS
    <2>1. Billing!TypeOK /\ BothAttributes
      BY DEF Billing!Init, Billing!TypeOK, Billing!Assumption, BothAttributes
    <2>2. HandedOver /\ OptionsKnown /\ SendsItsPage /\ PagesTrue
      BY DEF Billing!Init, HandedOver, OptionsKnown, WithOptions, SendsItsPage, PagesTrue, Truthful
    <2>3. InvoicedUpTo /\ PendingLines /\ RivalsRaced
      BY DEF Billing!Init, InvoicedUpTo, PendingLines, RivalsRaced, HasInvoice, Billing!Days
    <2>4. Billing!BilledAsConfirmed
      BY DEF Billing!Init, Billing!BilledAsConfirmed, Billing!Confirmed, Billing!Working
    <2>5. QED
      BY <2>1, <2>2, <2>3, <2>4 DEF WizardInv
  <1>2. WizardInv /\ [Billing!Next]_(Billing!vars) => WizardInv'
    <2> SUFFICES ASSUME WizardInv, [Billing!Next]_(Billing!vars) PROVE WizardInv'
      OBVIOUS
    <2>1. Billing!TypeOK' /\ BothAttributes'
      BY WizardTypes DEF WizardInv
    <2>2. CASE UNCHANGED Billing!vars
      BY <2>1, <2>2
         DEF Billing!vars, WizardInv, HandedOver, OptionsKnown, WithOptions, SendsItsPage, PagesTrue,
             Truthful, InvoicedUpTo, PendingLines, UpTo, RivalsRaced, HasInvoice, Billing!Others,
             Billing!Days, Billing!BilledAsConfirmed, Billing!Confirmed, Billing!Working
    <2>3. CASE Billing!Next
      <3>1. PagesPart' /\ LinesPart'
        BY <2>3, WizardCallStep, AskStep, PreviewStep, ConfirmStep, LeaveStep, MissingStep
           DEF Billing!Next
      <3>2. QED
        BY <2>1, <3>1 DEF PagesPart, LinesPart, WizardInv
    <2>4. QED
      BY <2>2, <2>3
  <1>3. WizardInv => Billing!BilledAsConfirmed /\ Billing!NoDayAgain
    BY DEF WizardInv, PendingLines, Billing!NoDayAgain, Billing!Confirmed, Billing!Working
  <1>4. QED
    BY <1>1, <1>2, <1>3, PTL DEF Billing!Spec, BilledAsConfirmed

-----------------------------------------------------------------------------
(* The monitoring of traffic *)

\* The types of what monitorings read and count; rows have some value each.
TrafficTypes ==
  /\ now \in Traffic!Times
  /\ logs \in [{1, 2} -> [Objects -> SUBSET Traffic!Times]]
  /\ monitorPhase \in [Monitorings -> {"idle", "generated", "reads", "stores", "updates"}]
  /\ window \in [Monitorings -> Traffic!Dates \cup Traffic!Found \cup {None}]
  /\ output \in [Monitorings -> SUBSET Objects]
  /\ counted \in [Objects -> [Traffic!Times -> Nat]]
  /\ edges \in [Objects -> SUBSET (-Day .. MaxTime)]
  /\ moved \in [Objects -> SUBSET Traffic!Times]
RowsWith(V) == [created_at : Traffic!Times, value : V, there : BOOLEAN]
DataTypes == \E V : data \in [Objects -> Seq(RowsWith(V))]

\* The lines of an object that are still in the logs: they are of before now, and none is
\* in both.
LogLines(o) == logs[1][o] \cup logs[2][o]
LogsApart ==
  \A o \in Objects : /\ \A t \in LogLines(o) : t < now
                     /\ \A t \in logs[2][o] : t \notin logs[1][o]

\* A monitoring that has read the log found the lines of its window in it, those that are
\* in its rotation by now were moved there meanwhile.
HasReadLog(m) ==
  /\ window[m] \in Traffic!Found
  /\ \A o \in DOMAIN window[m].ini :
       /\ o \in DOMAIN window[m].value
       /\ \A t \in window[m].value[o] : Traffic!Inside(t, o, window[m])
       /\ \A t \in logs[1][o] : Traffic!Inside(t, o, window[m]) => t \in window[m].value[o]
       /\ \A t \in logs[2][o] : t \in window[m].value[o] => t \in moved[o]

\* One that has read both has output about objects it began with, and found all lines that
\* are still there; what it found again was moved.
HasReadBoth(m) ==
  /\ window[m] \in Traffic!Found
  /\ output[m] \subseteq DOMAIN window[m].ini
  /\ \A o \in output[m] :
       /\ o \in DOMAIN window[m].value /\ o \in DOMAIN window[m].again
       /\ \A t \in window[m].value[o] : Traffic!Inside(t, o, window[m])
       /\ \A t \in LogLines(o) : Traffic!Inside(t, o, window[m]) => t \in window[m].value[o]
       /\ \A t \in window[m].again[o] : t \in window[m].value[o] /\ t \in moved[o]

\* A monitoring at work has a window, whose dates have come.
WindowOf(m) ==
  /\ monitorPhase[m] = "idle" <=> window[m] = None
  /\ monitorPhase[m] # "idle" => window[m].end <= now
  /\ monitorPhase[m] = "reads" => HasReadLog(m)
  /\ monitorPhase[m] = "stores" => HasReadBoth(m)
MonitoringWindows == \A m \in Monitorings : WindowOf(m)

AtWorkOn(m, o) == monitorPhase[m] # "idle" /\ o \in DOMAIN window[m].ini

\* One that has not stored what it reads about an object.
ToStore(m, o) ==
  /\ monitorPhase[m] \in {"generated", "reads", "stores"}
  /\ o \in DOMAIN window[m].ini
  /\ monitorPhase[m] = "stores" => o \in output[m]

\* The last row of an object, whose date is that of no later one.
LastRow(o) == data[o][Len(data[o])]

\* One monitoring is at work on an object, from the date of the last row on, behind
\* which are all lines that were counted: once each, or twice if they were moved.
OneAtWork(o) == \A m, n \in Monitorings : AtWorkOn(m, o) /\ AtWorkOn(n, o) => m = n
LastIsLatest(o) ==
  data[o] # << >> =>
    /\ LastRow(o).there /\ LastRow(o).created_at <= now
    /\ \A i \in Traffic!Present(data[o]) : data[o][i].created_at <= LastRow(o).created_at
Untouched(o) ==
  data[o] = << >> => edges[o] = {} /\ \A t \in Traffic!Times : counted[o][t] = 0
CountedBehind(o) ==
  data[o] # << >> => \A t \in Traffic!Times :
    \/ counted[o][t] = 0
    \/ t < LastRow(o).created_at /\ (counted[o][t] = 1 \/ (counted[o][t] = 2 /\ t \in moved[o]))
ContinuesThere(o) ==
  data[o] # << >> => \A m \in Monitorings : ToStore(m, o) =>
    window[m].ini[o] = LastRow(o).created_at /\ LastRow(o).created_at <= window[m].end
Remembered(o) ==
  data[o] # << >> => \A t \in LogLines(o) :
    t < LastRow(o).created_at /\ t \notin edges[o] /\ (\E e \in edges[o] : e < t)
      => counted[o][t] >= 1

TrafficInv ==
  /\ TrafficTypes /\ DataTypes /\ LogsApart /\ MonitoringWindows
  /\ \A o \in Objects \ overlaps :
       /\ OneAtWork(o) /\ LastIsLatest(o) /\ Untouched(o) /\ CountedBehind(o) /\ ContinuesThere(o)
       /\ Remembered(o)

\* The values of rows are natural numbers, the sums of others included.
ValuesAreNatural == \A o \in Objects : \A i \in DOMAIN data[o] : data[o][i].value \in Nat

\* A window is of both kinds alike: it has dates for some objects.
LEMMA WindowType ==
  ASSUME TrafficTypes, NEW m \in Monitorings, window[m] # None
  PROVE  /\ window[m].end \in Traffic!Times
         /\ \E S \in SUBSET Objects : window[m].ini \in [S -> -Day .. MaxTime]
         /\ DOMAIN window[m].ini \subseteq Objects
         /\ \A o \in DOMAIN window[m].ini : window[m].ini[o] \in -Day .. MaxTime
         /\ window[m] \in Traffic!Found =>
              /\ \A o \in DOMAIN window[m].value : window[m].value[o] \subseteq Traffic!Times
              /\ \A o \in DOMAIN window[m].again : window[m].again[o] \subseteq Traffic!Times
  <1>1. window[m] \in Traffic!Dates \cup Traffic!Found
    BY DEF TrafficTypes
  <1>2. /\ window[m].end \in Traffic!Times
        /\ window[m].ini \in UNION {[S -> -Day .. MaxTime] : S \in SUBSET Objects}
    BY <1>1 DEF Traffic!Dates, Traffic!Found
  <1>3. PICK S \in SUBSET Objects : window[m].ini \in [S -> -Day .. MaxTime]
    BY <1>2
  <1>4. ASSUME window[m] \in Traffic!Found
        PROVE  /\ \A o \in DOMAIN window[m].value : window[m].value[o] \subseteq Traffic!Times
               /\ \A o \in DOMAIN window[m].again : window[m].again[o] \subseteq Traffic!Times
    <2>1. window[m].value \in UNION {[T -> SUBSET Traffic!Times] : T \in SUBSET Objects}
      BY <1>4 DEF Traffic!Found
    <2>2. PICK T \in SUBSET Objects : window[m].value \in [T -> SUBSET Traffic!Times]
      BY <2>1
    <2>3. window[m].again \in UNION {[T2 -> SUBSET Traffic!Times] : T2 \in SUBSET Objects}
      BY <1>4 DEF Traffic!Found
    <2>4. PICK T2 \in SUBSET Objects : window[m].again \in [T2 -> SUBSET Traffic!Times]
      BY <2>3
    <2>5. QED
      BY <2>2, <2>4
  <1>5. QED
    BY <1>2, <1>3, <1>4

\* The rows of an object are a sequence, whose members have dates.
LEMMA RowType ==
  ASSUME DataTypes, NEW o \in Objects
  PROVE  /\ Len(data[o]) \in Nat /\ DOMAIN data[o] = 1 .. Len(data[o])
         /\ data[o] = << >> <=> Len(data[o]) = 0
         /\ \A i \in DOMAIN data[o] : /\ data[o][i].created_at \in Traffic!Times
                                      /\ data[o][i].there \in BOOLEAN
  <1>1. PICK V : data \in [Objects -> Seq(RowsWith(V))]
    BY DEF DataTypes
  <1>2. data[o] \in Seq(RowsWith(V))
    BY <1>1
  <1>3. /\ Len(data[o]) \in Nat /\ DOMAIN data[o] = 1 .. Len(data[o])
        /\ data[o] = << >> <=> Len(data[o]) = 0
    BY <1>2
  <1>4. \A i \in DOMAIN data[o] : data[o][i] \in RowsWith(V)
    BY <1>2
  <1>5. QED
    BY <1>3, <1>4 DEF RowsWith

\* The latest row is the last one, if that is there.
LEMMA LatestIsLast ==
  ASSUME DataTypes, NEW o \in Objects, data[o] # << >>, LastRow(o).there
  PROVE  Traffic!Present(data[o]) # {} /\ Traffic!latest(data[o]) = LastRow(o)
  <1> DEFINE P == Traffic!Present(data[o])
             n == Len(data[o])
  <1>1. n \in Nat \ {0} /\ n \in P /\ \A i \in P : i \in Nat /\ i <= n
    BY RowType DEF Traffic!Present, LastRow
  <1>2. (CHOOSE x \in P : \A y \in P : x >= y) = n
    <2>1. \A y \in P : n >= y
      BY <1>1
    <2>2. \A x \in P : (\A y \in P : x >= y) => x = n
      BY <1>1
    <2> HIDE DEF P, n
    <2>3. QED BY <1>1, <2>1, <2>2
  <1>3. QED
    BY <1>1, <1>2 DEF Traffic!latest, Traffic!Max, LastRow

\* Rows have a last one that is there, if any is.
LEMMA LatestExists ==
  ASSUME DataTypes, NEW o \in Objects, Traffic!Present(data[o]) # {}
  PROVE  \E k \in Traffic!Present(data[o]) : \A i \in Traffic!Present(data[o]) : k >= i
  <1> DEFINE P == Traffic!Present(data[o])
             n == Len(data[o])
  <1>1. n \in Nat /\ P \subseteq 0 .. n /\ P # {}
    BY RowType DEF Traffic!Present
  <1>2. PICK k \in P : \A i \in P : i <= k
    <2> HIDE DEF P, n
    <2>1. QED BY <1>1, GreatestExists
  <1>3. QED
    BY <1>1, <1>2

\* A monitoring begins, of all objects or of one.
StartsMonitoring(m) == Traffic!Monitor(m) \/ Traffic!MonitorObject(m)

\* What a monitoring begins with.
LEMMA StartEffect ==
  ASSUME Traffic!Assumption, TrafficTypes, DataTypes, \A o \in Objects : edges[o] \subseteq Int,
         NEW m \in Monitorings, StartsMonitoring(m)
  PROVE  \E who \in SUBSET Objects :
           /\ monitorPhase[m] = "idle"
           /\ monitorPhase' = [monitorPhase EXCEPT ![m] = "generated"]
           /\ window' = [window EXCEPT ![m] =
                [end |-> now, ini |-> [o \in who |-> Traffic!get_last_date(o)]]]
           /\ window'[m] \in Traffic!Dates /\ window'[m] # None
           /\ overlaps' = overlaps \cup {o \in who :
                \E n \in Monitorings \ {m} : window[n] # None /\ o \in DOMAIN window[n].ini}
           /\ UNCHANGED <<now, logs, data, output, counted, edges, moved>>
  <1>1. PICK who \in SUBSET Objects : Traffic!Generates(m, who)
    BY DEF StartsMonitoring, Traffic!Monitor, Traffic!MonitorObject
  <1>2. \A o \in who : Traffic!get_last_date(o) \in -Day .. MaxTime
    <2> SUFFICES ASSUME NEW o \in who PROVE Traffic!get_last_date(o) \in -Day .. MaxTime
      OBVIOUS
    <2>1. CASE Traffic!Present(data[o]) = {}
      BY <2>1 DEF Traffic!get_last_date, TrafficTypes, Traffic!Times, Traffic!Assumption
    <2>2. CASE Traffic!Present(data[o]) # {}
      <3>1. PICK k \in Traffic!Present(data[o]) : \A i \in Traffic!Present(data[o]) : k >= i
        BY <2>2, LatestExists
      <3>2. Traffic!Max(Traffic!Present(data[o])) \in Traffic!Present(data[o])
        BY <3>1 DEF Traffic!Max
      <3>3. data[o][Traffic!Max(Traffic!Present(data[o]))].created_at \in Traffic!Times
        BY <3>2, RowType DEF Traffic!Present
      <3>4. QED
        BY <2>2, <3>3 DEF Traffic!get_last_date, Traffic!latest, Traffic!Times, Traffic!Assumption
    <2>3. QED
      BY <2>1, <2>2
  <1> DEFINE ini == [o \in who |-> Traffic!get_last_date(o)]
  <1>3. ini \in [who -> -Day .. MaxTime]
    BY <1>2
  <1>4. ini \in UNION {[S -> -Day .. MaxTime] : S \in SUBSET Objects}
    BY <1>3
  <1>5. [end |-> now, ini |-> ini] \in Traffic!Dates
    BY <1>4 DEF TrafficTypes, Traffic!Dates
  <1>6. window' = [window EXCEPT ![m] = [end |-> now, ini |-> ini]]
    BY <1>1 DEF Traffic!Generates
  <1>7. window'[m] \in Traffic!Dates /\ window'[m] # None
    BY <1>5, <1>6 DEF TrafficTypes, Traffic!Assumption
  <1>8. QED
    BY <1>1, <1>6, <1>7 DEF Traffic!Generates, Traffic!time

\* What storing a line of output does.
LEMMA StoreEffect ==
  ASSUME TrafficTypes, MonitoringWindows, NEW m \in Monitorings, Traffic!Store(m)
  PROVE  \E o \in output[m] :
           LET w == window[m]
               lines == w.value[o]
               again == w.again[o] IN
           /\ monitorPhase[m] = "stores" /\ w # None /\ w \in Traffic!Found
           /\ o \in Objects /\ o \in DOMAIN w.ini /\ w.ini[o] \in -Day .. MaxTime
           /\ w.end \in Traffic!Times /\ w.end <= now
           /\ lines \subseteq Traffic!Times /\ again \subseteq lines /\ again \subseteq moved[o]
           /\ \A t \in lines : Traffic!Inside(t, o, w)
           /\ output' = [output EXCEPT ![m] = output[m] \ {o}]
           /\ data' = [data EXCEPT ![o] = Append(data[o],
                [created_at |-> w.end,
                 value |-> Traffic!Cardinality(lines) + Traffic!Cardinality(again),
                 there |-> TRUE])]
           /\ counted' = [counted EXCEPT ![o] = [t \in Traffic!Times |->
                counted[o][t] + (IF t \in lines THEN 1 ELSE 0) + (IF t \in again THEN 1 ELSE 0)]]
           /\ edges' = [edges EXCEPT ![o] = edges[o] \cup {w.ini[o], w.end}]
           /\ UNCHANGED <<now, logs, lock, monitorPhase, window, moved, overlaps>>
  <1>1. monitorPhase[m] = "stores" /\ window[m] # None /\ window[m] \in Traffic!Found
    BY DEF Traffic!Store, MonitoringWindows, WindowOf, HasReadBoth
  <1>2. PICK o \in output[m] :
          /\ output' = [output EXCEPT ![m] = output[m] \ {o}]
          /\ data' = [data EXCEPT ![o] = Append(data[o],
               [created_at |-> window[m].end,
                value |-> Traffic!Cardinality(window[m].value[o])
                            + Traffic!Cardinality(window[m].again[o]),
                there |-> TRUE])]
          /\ counted' = [counted EXCEPT ![o] = [t \in Traffic!Times |->
               counted[o][t] + (IF t \in window[m].value[o] THEN 1 ELSE 0)
                             + (IF t \in window[m].again[o] THEN 1 ELSE 0)]]
          /\ edges' = [edges EXCEPT ![o] = edges[o] \cup {window[m].ini[o], window[m].end}]
    BY DEF Traffic!Store
  <1>3. /\ o \in Objects /\ o \in DOMAIN window[m].ini /\ o \in DOMAIN window[m].value
        /\ o \in DOMAIN window[m].again
        /\ window[m].again[o] \subseteq window[m].value[o] /\ window[m].again[o] \subseteq moved[o]
        /\ (\A t \in window[m].value[o] : Traffic!Inside(t, o, window[m])) /\ window[m].end <= now
    BY <1>1 DEF MonitoringWindows, WindowOf, HasReadBoth, TrafficTypes
  <1>4. /\ window[m].ini[o] \in -Day .. MaxTime /\ window[m].end \in Traffic!Times
        /\ window[m].value[o] \subseteq Traffic!Times
    BY <1>1, <1>3, WindowType
  <1>5. UNCHANGED <<now, logs, lock, monitorPhase, window, moved, overlaps>>
    BY DEF Traffic!Store, Traffic!time
  <1>6. QED
    BY <1>1, <1>2, <1>3, <1>4, <1>5

\* A window with what was found in it is of its type.
LEMMA FoundType ==
  ASSUME Traffic!Assumption, TrafficTypes, NEW m \in Monitorings, window[m] # None,
         NEW value, NEW again,
         value = [o \in DOMAIN window[m].ini |-> value[o]],
         again = [o \in DOMAIN window[m].ini |-> again[o]],
         \A o \in DOMAIN window[m].ini :
           value[o] \subseteq Traffic!Times /\ again[o] \subseteq Traffic!Times,
         NEW outcome, outcome = [end |-> window[m].end, ini |-> window[m].ini,
                               value |-> value, again |-> again]
  PROVE  outcome \in Traffic!Found /\ outcome # None
  <1>1. PICK S \in SUBSET Objects : window[m].ini \in [S -> -Day .. MaxTime]
    BY WindowType
  <1>2. DOMAIN window[m].ini = S /\ window[m].end \in Traffic!Times
    BY <1>1, WindowType
  <1>3. value \in [S -> SUBSET Traffic!Times] /\ again \in [S -> SUBSET Traffic!Times]
    BY <1>2
  <1>4. /\ value \in UNION {[T -> SUBSET Traffic!Times] : T \in SUBSET Objects}
        /\ again \in UNION {[T -> SUBSET Traffic!Times] : T \in SUBSET Objects}
        /\ window[m].ini \in UNION {[T -> -Day .. MaxTime] : T \in SUBSET Objects}
    BY <1>1, <1>3
  <1>5. outcome \in Traffic!Found
    BY <1>2, <1>4 DEF Traffic!Found
  <1>6. QED
    BY <1>5 DEF Traffic!Assumption

\* What reading the log does.
LEMMA ReadsEffect ==
  ASSUME Traffic!Assumption, TrafficTypes, MonitoringWindows, NEW m \in Monitorings,
         Traffic!Reads(m)
  PROVE  LET who == DOMAIN window[m].ini
             read == [end |-> window[m].end, ini |-> window[m].ini,
               value |-> [o \in who |-> {t \in logs[1][o] : Traffic!Inside(t, o, window[m])}],
               again |-> [o \in who |-> {}]] IN
         /\ monitorPhase[m] = "generated" /\ window[m] # None /\ who \subseteq Objects
         /\ UNCHANGED <<now, logs, data, lock, output, counted, edges, moved, overlaps>>
         /\ window' = [window EXCEPT ![m] = read] /\ read \in Traffic!Found /\ read # None
         /\ monitorPhase' = [monitorPhase EXCEPT ![m] = "reads"]
  <1> DEFINE w == window[m]
             who == DOMAIN w.ini
             value == [o \in who |-> {t \in logs[1][o] : Traffic!Inside(t, o, w)}]
             again == [o \in who |-> {}]
             read == [end |-> w.end, ini |-> w.ini, value |-> value, again |-> again]
  <1>1. monitorPhase[m] = "generated" /\ w # None
    BY DEF Traffic!Reads, MonitoringWindows, WindowOf
  <1>2. who \subseteq Objects
    BY <1>1, WindowType
  <1>3. \A o \in who : value[o] \subseteq Traffic!Times /\ again[o] \subseteq Traffic!Times
    BY <1>2 DEF TrafficTypes
  <1>4. read \in Traffic!Found /\ read # None
    <2>1. value = [o \in who |-> value[o]] /\ again = [o \in who |-> again[o]]
      OBVIOUS
    <2> HIDE DEF value, again
    <2>2. QED BY <1>1, <1>3, <2>1, FoundType
  <1>5. QED
    BY <1>1, <1>2, <1>4 DEF Traffic!Reads, Traffic!time, Traffic!history

\* What executing a script ends with: what it found in one log or in both.
LEMMA ExecuteEffect ==
  ASSUME Traffic!Assumption, TrafficTypes, MonitoringWindows, NEW m \in Monitorings,
         Traffic!Execute(m)
  PROVE  LET w == window[m]
             who == DOMAIN w.ini
             rotated == [o \in who |-> {t \in logs[2][o] : Traffic!Inside(t, o, w)}]
             outcome == [end |-> w.end, ini |-> w.ini,
               value |-> [o \in who |-> w.value[o] \cup rotated[o]],
               again |-> [o \in who |-> w.value[o] \cap rotated[o]]] IN
         /\ monitorPhase[m] = "reads" /\ w # None /\ who \subseteq Objects
         /\ UNCHANGED <<now, logs, data, lock, counted, edges, moved, overlaps>>
         /\ output' = [output EXCEPT ![m] = who]
         /\ window' = [window EXCEPT ![m] = outcome]
         /\ outcome \in Traffic!Found /\ outcome # None
         /\ monitorPhase' = [monitorPhase EXCEPT ![m] = "stores"]
  <1> DEFINE w == window[m]
             who == DOMAIN w.ini
             rotated == [o \in who |-> {t \in logs[2][o] : Traffic!Inside(t, o, w)}]
             value == [o \in who |-> w.value[o] \cup rotated[o]]
             again == [o \in who |-> w.value[o] \cap rotated[o]]
             outcome == [end |-> w.end, ini |-> w.ini, value |-> value, again |-> again]
  <1>1. monitorPhase[m] = "reads" /\ w # None /\ w \in Traffic!Found
        /\ \A o \in who : o \in DOMAIN w.value
    BY DEF Traffic!Execute, MonitoringWindows, WindowOf, HasReadLog
  <1>2. who \subseteq Objects /\ \A o \in DOMAIN w.value : w.value[o] \subseteq Traffic!Times
    BY <1>1, WindowType
  <1>3. \A o \in who : value[o] \subseteq Traffic!Times /\ again[o] \subseteq Traffic!Times
    BY <1>1, <1>2 DEF TrafficTypes
  <1>4. outcome \in Traffic!Found /\ outcome # None
    <2>1. value = [o \in who |-> value[o]] /\ again = [o \in who |-> again[o]]
      OBVIOUS
    <2> HIDE DEF value, again
    <2>2. QED BY <1>1, <1>3, <2>1, FoundType
  <1>5. QED
    BY <1>1, <1>2, <1>4 DEF Traffic!Execute, Traffic!time, Traffic!history

\* What ends a monitoring, by itself or by its death.
LEMMA EndEffect ==
  ASSUME TrafficTypes, NEW m \in Monitorings, Traffic!Update(m) \/ Traffic!Crash(m)
  PROVE  /\ window' = [window EXCEPT ![m] = None]
         /\ monitorPhase' = [monitorPhase EXCEPT ![m] = "idle"]
         /\ output' = output \/ output' = [output EXCEPT ![m] = {}]
         /\ UNCHANGED <<now, logs, data, counted, edges, moved, overlaps>>
  BY DEF Traffic!Update, Traffic!Crash, Traffic!time, Traffic!history

\* What aggregating old data does to each row: it stays, or its value changes, or it is
\* deleted since another one follows it.
LEMMA CleanupEffect ==
  ASSUME DataTypes, Traffic!Cleanup
  PROVE  /\ UNCHANGED <<now, logs, monitorPhase, window, output, counted, edges, moved, overlaps>>
         /\ DOMAIN data' = Objects
         /\ \A o \in Objects :
              /\ data'[o] = [i \in DOMAIN data[o] |-> data'[o][i]]
              /\ \A i \in DOMAIN data[o] :
                   \/ data'[o][i] = data[o][i]
                   \/ /\ i \in Traffic!Present(data[o])
                      /\ \E x : data'[o][i] =
                           [created_at |-> data[o][i].created_at, value |-> x, there |-> TRUE]
                   \/ /\ data'[o][i] = [created_at |-> 0, value |-> 0, there |-> FALSE]
                      /\ \E j \in Traffic!Present(data[o]) : Traffic!Follows(data[o], j, i)
  <1>1. PICK last : data' = [o \in Objects |-> [i \in DOMAIN data[o] |->
          IF Traffic!IsSummed(o, i, last)
          THEN Traffic!Aggregate(data[o], Traffic!OldOfMonth(o, i), i) ELSE data[o][i]]]
    BY DEF Traffic!Cleanup
  <1>2. SUFFICES ASSUME NEW o \in Objects, NEW i \in DOMAIN data[o]
                 PROVE  \/ data'[o][i] = data[o][i]
                        \/ /\ i \in Traffic!Present(data[o])
                           /\ \E x : data'[o][i] =
                                [created_at |-> data[o][i].created_at, value |-> x,
                                 there |-> TRUE]
                        \/ /\ data'[o][i] = [created_at |-> 0, value |-> 0, there |-> FALSE]
                           /\ \E j \in Traffic!Present(data[o]) :
                                Traffic!Follows(data[o], j, i)
    <2>1. \A o \in Objects : data'[o] = [i \in DOMAIN data[o] |-> data'[o][i]]
      BY <1>1
    <2>2. DOMAIN data' = Objects
      BY <1>1
    <2>3. UNCHANGED <<now, logs, monitorPhase, window, output, counted, edges, moved, overlaps>>
      BY DEF Traffic!Cleanup, Traffic!time, Traffic!history
    <2>4. QED BY <2>1, <2>2, <2>3
  <1>3. data'[o][i] = IF Traffic!IsSummed(o, i, last)
          THEN Traffic!Aggregate(data[o], Traffic!OldOfMonth(o, i), i) ELSE data[o][i]
    BY <1>1
  <1>4. /\ Traffic!OldOfMonth(o, i) \subseteq Traffic!Present(data[o])
        /\ Traffic!IsSummed(o, i, last) => i \in Traffic!Present(data[o])
    BY DEF Traffic!OldOfMonth, Traffic!OldRows, Traffic!IsSummed
  <1>5. CASE ~Traffic!IsSummed(o, i, last)
    BY <1>3, <1>5
  <1>6. CASE Traffic!IsSummed(o, i, last)
    <2>1. CASE \E j \in Traffic!OldOfMonth(o, i) : Traffic!Follows(data[o], j, i)
      <3>1. data'[o][i] = [created_at |-> 0, value |-> 0, there |-> FALSE]
        BY <1>3, <1>6, <2>1 DEF Traffic!Aggregate, Traffic!Deleted
      <3>2. QED BY <1>4, <2>1, <3>1
    <2>2. CASE ~\E j \in Traffic!OldOfMonth(o, i) : Traffic!Follows(data[o], j, i)
      <3>1. data'[o][i] = [created_at |-> data[o][i].created_at,
                           value |-> Traffic!Sum(data[o], Traffic!OldOfMonth(o, i)),
                           there |-> TRUE]
        BY <1>3, <1>6, <2>2 DEF Traffic!Aggregate
      <3>2. QED BY <1>4, <1>6, <3>1
    <2>3. QED BY <2>1, <2>2
  <1>7. QED
    BY <1>5, <1>6

\* A function of 1 .. n is a sequence.
LEMMA FunctionIsSeq ==
  ASSUME NEW S, NEW n \in Nat, NEW f, f = [i \in 1 .. n |-> f[i]], \A i \in 1 .. n : f[i] \in S
  PROVE  f \in Seq(S) /\ Len(f) = n /\ (f = << >> <=> n = 0)
  <1>1. f \in [1 .. n -> S]
    OBVIOUS
  <1>2. f \in Seq(S) /\ Len(f) = n
    BY <1>1
  <1>3. QED
    BY <1>2

\* So data stays of its type, and what is the last row and the latest stays both, with
\* its date.
LEMMA CleanupKeepsLatest ==
  ASSUME Traffic!Assumption, DataTypes, Traffic!Cleanup
  PROVE  /\ DataTypes'
         /\ \A o \in Objects :
              /\ data'[o] = << >> <=> data[o] = << >>
              /\ LastIsLatest(o) /\ data[o] # << >> =>
                   LastIsLatest(o)' /\ LastRow(o)'.created_at = LastRow(o).created_at
  <1>1. \A o \in Objects : /\ Len(data[o]) \in Nat /\ DOMAIN data[o] = 1 .. Len(data[o])
                           /\ data[o] = << >> <=> Len(data[o]) = 0
                           /\ data'[o] = [i \in 1 .. Len(data[o]) |-> data'[o][i]]
    BY RowType, CleanupEffect
  <1> DEFINE row(o, i) == data'[o][i]
             V == UNION {{row(o, i).value : i \in DOMAIN data[o]} : o \in Objects}
  <1>2. ASSUME NEW o \in Objects, NEW i \in DOMAIN data[o] PROVE row(o, i) \in RowsWith(V)
    <2>1. PICK W : data \in [Objects -> Seq(RowsWith(W))]
      BY DEF DataTypes
    <2>2. data[o][i] \in RowsWith(W)
      BY <2>1
    <2>3. row(o, i).value \in V
      OBVIOUS
    <2> HIDE DEF V, row
    <2>4. 0 \in Traffic!Times
      BY DEF Traffic!Times, Traffic!Assumption
    <2>5. \/ row(o, i) = data[o][i]
          \/ \E x : row(o, i) = [created_at |-> data[o][i].created_at, value |-> x, there |-> TRUE]
          \/ row(o, i) = [created_at |-> 0, value |-> 0, there |-> FALSE]
      BY CleanupEffect DEF row
    <2>6. \E x : \E c \in Traffic!Times, b \in BOOLEAN :
            row(o, i) = [created_at |-> c, value |-> x, there |-> b]
      <3>1. data[o][i].created_at \in Traffic!Times
        BY <2>2 DEF RowsWith
      <3>2. CASE row(o, i) = data[o][i]
        BY <2>2, <3>2 DEF RowsWith
      <3>3. QED BY <2>4, <2>5, <3>1, <3>2
    <2>7. QED BY <2>3, <2>6 DEF RowsWith
  <1>3. DataTypes'
    <2>1. ASSUME NEW o \in Objects PROVE data'[o] \in Seq(RowsWith(V))
      <3>1. \A i \in 1 .. Len(data[o]) : data'[o][i] \in RowsWith(V)
        BY <1>1, <1>2
      <3> HIDE DEF V, row
      <3>2. data'[o] = [i \in 1 .. Len(data[o]) |-> data'[o][i]] /\ Len(data[o]) \in Nat
        BY <1>1
      <3>3. QED BY <3>1, <3>2, FunctionIsSeq
    <2> HIDE DEF V
    <2>2. data' \in [Objects -> Seq(RowsWith(V))]
      <3>1. data' = [o \in Objects |-> data'[o]]
        BY CleanupEffect DEF Traffic!Cleanup
      <3>2. QED BY <2>1, <3>1
    <2>3. QED BY <2>2 DEF DataTypes, RowsWith, Traffic!Times
  <1>4. ASSUME NEW o \in Objects
        PROVE  /\ Len(data'[o]) = Len(data[o]) /\ DOMAIN data'[o] = DOMAIN data[o]
               /\ data'[o] = << >> <=> data[o] = << >>
    <2>1. \A i \in 1 .. Len(data[o]) : data'[o][i] \in RowsWith(V)
      BY <1>1, <1>2
    <2> HIDE DEF V, row
    <2>2. /\ data'[o] = [i \in 1 .. Len(data[o]) |-> data'[o][i]]
          /\ Len(data[o]) \in Nat /\ DOMAIN data[o] = 1 .. Len(data[o])
          /\ data[o] = << >> <=> Len(data[o]) = 0
      BY <1>1
    <2>3. DOMAIN data'[o] = 1 .. Len(data[o])
      BY <2>2
    <2>4. Len(data'[o]) = Len(data[o]) /\ (data'[o] = << >> <=> Len(data[o]) = 0)
      BY <2>1, <2>2, FunctionIsSeq
    <2>5. QED BY <2>2, <2>3, <2>4
  <1>5. ASSUME NEW o \in Objects, LastIsLatest(o), data[o] # << >>
        PROVE  LastIsLatest(o)' /\ LastRow(o)'.created_at = LastRow(o).created_at
    <2> DEFINE n == Len(data[o])
    <2>1. n \in Nat \ {0} /\ n \in DOMAIN data[o] /\ DOMAIN data[o] = 1 .. n
      BY <1>1, <1>5
    <2>2. \A i \in Traffic!Present(data[o]) : /\ i \in 1 .. n /\ data[o][i].created_at \in Int
                                              /\ data[o][i].created_at <= data[o][n].created_at
      BY <1>5, RowType DEF LastIsLatest, LastRow, Traffic!Present, Traffic!Times
    <2>3. ~\E j \in Traffic!Present(data[o]) : Traffic!Follows(data[o], j, n)
      BY <2>1, <2>2, RowType DEF Traffic!Follows, Traffic!Times
    <2>4. data[o][n].there /\ data[o][n].created_at <= now
      BY <1>5 DEF LastIsLatest, LastRow
    <2>5. data'[o][n].there /\ data'[o][n].created_at = data[o][n].created_at
      <3>1. \/ data'[o][n] = data[o][n]
            \/ \E x : data'[o][n] =
                 [created_at |-> data[o][n].created_at, value |-> x, there |-> TRUE]
        <4> HIDE DEF n
        <4>1. QED BY <2>1, <2>3, CleanupEffect
      <3>2. CASE data'[o][n] = data[o][n]
        BY <2>4, <3>2
      <3>3. CASE \E x : data'[o][n] =
                   [created_at |-> data[o][n].created_at, value |-> x, there |-> TRUE]
        <4> HIDE DEF n
        <4>1. QED BY <3>3
      <3>4. QED BY <3>1, <3>2, <3>3
    <2>6. ASSUME NEW i \in Traffic!Present(data'[o])
          PROVE  i \in Traffic!Present(data[o]) /\ data'[o][i].created_at = data[o][i].created_at
      <3>1. i \in DOMAIN data[o] /\ data'[o][i].there
        BY <1>4 DEF Traffic!Present
      <3>2. CASE data'[o][i] = data[o][i]
        BY <3>1, <3>2 DEF Traffic!Present
      <3>3. CASE \E x : data'[o][i] =
                   [created_at |-> data[o][i].created_at, value |-> x, there |-> TRUE]
                 /\ i \in Traffic!Present(data[o])
        BY <3>3
      <3>4. ~(data'[o][i] = [created_at |-> 0, value |-> 0, there |-> FALSE])
        BY <3>1
      <3>5. \/ data'[o][i] = data[o][i]
            \/ /\ i \in Traffic!Present(data[o])
               /\ \E x : data'[o][i] =
                    [created_at |-> data[o][i].created_at, value |-> x, there |-> TRUE]
            \/ data'[o][i] = [created_at |-> 0, value |-> 0, there |-> FALSE]
        BY <3>1, CleanupEffect
      <3>6. QED BY ONLY <3>2, <3>3, <3>4, <3>5
    <2>7. now' = now /\ Len(data'[o]) = n
      BY <1>4, CleanupEffect
    <2>8. LastRow(o)' = data'[o][n] /\ LastRow(o) = data[o][n]
      BY <2>7 DEF LastRow
    <2> HIDE DEF n
    <2>9. QED
      BY <2>2, <2>4, <2>5, <2>6, <2>7, <2>8 DEF LastIsLatest
  <1>6. QED
    BY <1>3, <1>4, <1>5

\* The facts of an object that the others rest on.
ObjectInv(o) ==
  /\ OneAtWork(o) /\ LastIsLatest(o) /\ Untouched(o) /\ CountedBehind(o) /\ ContinuesThere(o)
  /\ Remembered(o)

\* A line of traffic is of now, and now is behind nothing.
LEMMA TickStep ==
  ASSUME Traffic!Assumption, TrafficInv, Traffic!Tick
  PROVE  TrafficInv'
  <1> USE DEF Traffic!Times
  <1>1. now \in Int /\ now' = now + 1 /\ now' \in Traffic!Times
    BY DEF Traffic!Tick, TrafficInv, TrafficTypes, Traffic!Assumption
  <1>2. PICK who \in SUBSET Objects :
          logs' = [logs EXCEPT ![1] = [o \in Objects |-> @[o] \cup {t \in {now} : o \in who}]]
    BY DEF Traffic!Tick
  <1>3. UNCHANGED <<data, monitorPhase, window, output, counted, edges, moved, overlaps>>
    BY DEF Traffic!Tick, Traffic!history
  <1>4. logs' \in [{1, 2} -> [Objects -> SUBSET Traffic!Times]]
    <2> DEFINE first == [o \in Objects |-> logs[1][o] \cup {t \in {now} : o \in who}]
    <2>1. logs \in [{1, 2} -> [Objects -> SUBSET Traffic!Times]] /\ now \in Traffic!Times
      BY DEF TrafficInv, TrafficTypes
    <2>2. first \in [Objects -> SUBSET Traffic!Times]
      BY <2>1
    <2>3. logs' = [logs EXCEPT ![1] = first]
      BY <1>2
    <2> HIDE DEF first
    <2>4. QED BY <2>1, <2>2, <2>3
  <1>5. \A o \in Objects : /\ LogLines(o)' \subseteq LogLines(o) \cup {now}
                           /\ LogLines(o)' \subseteq Traffic!Times
    <2> SUFFICES ASSUME NEW o \in Objects
                 PROVE  /\ LogLines(o)' \subseteq LogLines(o) \cup {now}
                        /\ LogLines(o)' \subseteq Traffic!Times
      OBVIOUS
    <2>1. logs \in [{1, 2} -> [Objects -> SUBSET Traffic!Times]]
      BY DEF TrafficInv, TrafficTypes
    <2>2. logs'[1][o] \subseteq logs[1][o] \cup {now} /\ logs'[2][o] = logs[2][o]
      BY <1>2, <2>1
    <2>3. logs'[1][o] \subseteq Traffic!Times /\ logs'[2][o] \subseteq Traffic!Times
      BY <1>4
    <2>4. QED BY <2>2, <2>3 DEF LogLines
  <1>6. TrafficTypes' /\ DataTypes'
    BY <1>1, <1>3, <1>4 DEF TrafficInv, TrafficTypes, DataTypes, RowsWith, Traffic!Dates,
       Traffic!Found
  <1>7. LogsApart'
    <2> SUFFICES ASSUME NEW o \in Objects
                 PROVE  /\ \A t \in LogLines(o)' : t < now'
                        /\ \A t \in logs'[2][o] : t \notin logs'[1][o]
      BY DEF LogsApart
    <2>1. /\ \A t \in LogLines(o) : t \in Int /\ t < now
          /\ \A t \in logs[2][o] : t \notin logs[1][o] /\ t \in LogLines(o)
      BY DEF TrafficInv, TrafficTypes, LogsApart, LogLines
    <2>2. logs'[1][o] \subseteq logs[1][o] \cup {now} /\ logs'[2][o] = logs[2][o]
      BY <1>2 DEF TrafficInv, TrafficTypes
    <2>3. QED BY <1>1, <1>5, <2>1, <2>2
  <1>8. MonitoringWindows'
    <2> SUFFICES ASSUME NEW m \in Monitorings PROVE WindowOf(m)'
      BY DEF MonitoringWindows
    <2>1. WindowOf(m)
      BY DEF TrafficInv, MonitoringWindows
    <2>2. monitorPhase[m] # "idle" => /\ window[m].end \in Int /\ window[m].end <= now
                                      /\ DOMAIN window[m].ini \subseteq Objects
      BY <2>1, WindowType DEF TrafficInv, WindowOf
    <2>3. monitorPhase[m] # "idle" => \A o : ~ Traffic!Inside(now, o, window[m])
      BY <1>1, <2>2 DEF Traffic!Inside
    <2>4. \A o \in Objects : /\ logs'[1][o] \subseteq logs[1][o] \cup {now}
                             /\ logs'[2][o] = logs[2][o]
      BY <1>2 DEF TrafficInv, TrafficTypes
    <2>5. HasReadLog(m) /\ monitorPhase[m] = "reads" => HasReadLog(m)'
      BY <1>3, <2>2, <2>3, <2>4 DEF HasReadLog, Traffic!Inside, Traffic!Found
    <2>6. HasReadBoth(m) /\ monitorPhase[m] = "stores" => HasReadBoth(m)'
      BY <1>3, <1>5, <2>2, <2>3 DEF HasReadBoth, Traffic!Inside, Traffic!Found
    <2>7. QED BY <1>1, <1>3, <2>1, <2>2, <2>5, <2>6 DEF WindowOf
  <1>9. ASSUME NEW o \in Objects \ overlaps' PROVE ObjectInv(o)'
    <2>1. o \in Objects /\ o \notin overlaps /\ ObjectInv(o)
      BY <1>3 DEF TrafficInv, ObjectInv
    <2>2. OneAtWork(o)' /\ Untouched(o)' /\ CountedBehind(o)' /\ ContinuesThere(o)'
      BY <1>3, <2>1 DEF ObjectInv, OneAtWork, Untouched, CountedBehind, ContinuesThere, AtWorkOn,
         ToStore, LastRow
    <2>3. data[o] # << >> => LastRow(o).created_at \in Int /\ LastRow(o).created_at <= now
      BY <2>1, RowType DEF ObjectInv, LastIsLatest, LastRow, TrafficInv
    <2>4. LastIsLatest(o)'
      BY <1>1, <1>3, <2>1, <2>3 DEF ObjectInv, LastIsLatest, LastRow
    <2>5. Remembered(o)'
      BY <1>1, <1>3, <1>5, <2>1, <2>3 DEF ObjectInv, Remembered, LastRow
    <2>6. QED BY <2>2, <2>4, <2>5 DEF ObjectInv
  <1>10. QED
    BY <1>6, <1>7, <1>8, <1>9 DEF TrafficInv, ObjectInv

\* What leaves logs, data and monitorings alone keeps it all.
LEMMA QuietStep ==
  ASSUME TrafficInv,
         UNCHANGED <<now, logs, data, monitorPhase, window, output, counted, edges, moved,
                     overlaps>>
  PROVE  TrafficInv'
  <1>1. TrafficTypes' /\ DataTypes' /\ LogsApart'
    BY DEF TrafficInv, TrafficTypes, DataTypes, RowsWith, LogsApart, LogLines, Traffic!Dates,
       Traffic!Found, Traffic!Times
  <1>2. MonitoringWindows'
    BY DEF TrafficInv, MonitoringWindows, WindowOf, HasReadLog, HasReadBoth, LogLines,
       Traffic!Inside, Traffic!Found, Traffic!Times
  <1>3. ASSUME NEW o \in Objects \ overlaps' PROVE ObjectInv(o)'
    <2>1. o \in Objects /\ o \notin overlaps /\ ObjectInv(o)
      BY DEF TrafficInv, ObjectInv
    <2>2. OneAtWork(o)' /\ Untouched(o)' /\ CountedBehind(o)' /\ ContinuesThere(o)'
      BY <2>1 DEF ObjectInv, OneAtWork, Untouched, CountedBehind, ContinuesThere, AtWorkOn, ToStore,
         LastRow,
         Traffic!Times
    <2>3. LastIsLatest(o)'
      BY <2>1 DEF ObjectInv, LastIsLatest, LastRow, Traffic!Present
    <2>4. Remembered(o)'
      BY <2>1 DEF ObjectInv, Remembered, LastRow, LogLines
    <2>5. QED BY <2>2, <2>3, <2>4 DEF ObjectInv
  <1>4. QED
    BY <1>1, <1>2, <1>3 DEF TrafficInv, ObjectInv

\* A rotation moves the lines of the log; those a monitoring has read from it are noted.
LEMMA RotateStep ==
  ASSUME TrafficInv, Traffic!Rotate
  PROVE  TrafficInv'
  <1>1. /\ UNCHANGED <<now, data, monitorPhase, window, output, counted, edges, overlaps>>
        /\ logs' = [i \in {1, 2} |-> IF i = 1 THEN [o \in Objects |-> {}] ELSE logs[1]]
        /\ logs'[1] = [o \in Objects |-> {}] /\ logs'[2] = logs[1]
        /\ moved' = [o \in Objects |->
             IF \E m \in Monitorings : Traffic!IsReading(m, o) THEN moved[o] \cup logs[1][o]
             ELSE moved[o]]
    BY DEF Traffic!Rotate, Traffic!history
  <1>2. logs \in [{1, 2} -> [Objects -> SUBSET Traffic!Times]]
        /\ moved \in [Objects -> SUBSET Traffic!Times]
    BY DEF TrafficInv, TrafficTypes
  <1>3. \A o \in Objects : /\ logs'[1][o] = {} /\ logs'[2][o] = logs[1][o]
                           /\ LogLines(o)' = logs[1][o] /\ LogLines(o)' \subseteq LogLines(o)
                           /\ moved[o] \subseteq moved'[o]
                           /\ \A m \in Monitorings :
                                Traffic!IsReading(m, o) => logs[1][o] \subseteq moved'[o]
    BY <1>1 DEF LogLines
  <1>4. TrafficTypes' /\ DataTypes'
    <2>1. logs' \in [{1, 2} -> [Objects -> SUBSET Traffic!Times]]
             /\ moved' \in [Objects -> SUBSET Traffic!Times]
      BY <1>1, <1>2
    <2>2. QED
      BY <1>1, <2>1 DEF TrafficInv, TrafficTypes, DataTypes, RowsWith, Traffic!Dates,
         Traffic!Found, Traffic!Times
  <1>5. LogsApart'
    BY <1>1, <1>3 DEF TrafficInv, LogsApart, LogLines
  <1>6. MonitoringWindows'
    <2> SUFFICES ASSUME NEW m \in Monitorings PROVE WindowOf(m)'
      BY DEF MonitoringWindows
    <2>1. WindowOf(m) /\ output[m] \subseteq Objects
      BY DEF TrafficInv, MonitoringWindows, TrafficTypes
    <2>2. monitorPhase[m] # "idle" => DOMAIN window[m].ini \subseteq Objects
      BY <2>1, WindowType DEF TrafficInv, WindowOf
    <2>3. HasReadLog(m) /\ monitorPhase[m] = "reads" => HasReadLog(m)'
      <3> SUFFICES ASSUME HasReadLog(m), monitorPhase[m] = "reads" PROVE HasReadLog(m)'
        OBVIOUS
      <3>1. \A o \in DOMAIN window[m].ini : o \in Objects /\ logs[1][o] \subseteq moved'[o]
        BY <1>3, <2>2 DEF Traffic!IsReading
      <3>2. QED BY <1>1, <1>3, <3>1 DEF HasReadLog, Traffic!Inside, Traffic!Found
    <2>4. HasReadBoth(m) => HasReadBoth(m)'
      BY <1>1, <1>3, <2>1 DEF HasReadBoth, Traffic!Inside, Traffic!Found
    <2>5. QED BY <1>1, <2>1, <2>3, <2>4 DEF WindowOf
  <1>7. ASSUME NEW o \in Objects \ overlaps' PROVE ObjectInv(o)'
    <2>1. o \in Objects /\ o \notin overlaps /\ ObjectInv(o)
      BY <1>1 DEF TrafficInv, ObjectInv
    <2>2. OneAtWork(o)' /\ Untouched(o)' /\ ContinuesThere(o)'
      BY <1>1, <2>1 DEF ObjectInv, OneAtWork, Untouched, ContinuesThere, AtWorkOn, ToStore, LastRow,
         Traffic!Times
    <2>3. CountedBehind(o)'
      BY <1>1, <1>3, <2>1 DEF ObjectInv, CountedBehind, LastRow, Traffic!Times
    <2>4. LastIsLatest(o)'
      BY <1>1, <2>1 DEF ObjectInv, LastIsLatest, LastRow, Traffic!Present
    <2>5. Remembered(o)'
      BY <1>1, <1>3, <2>1 DEF ObjectInv, Remembered, LastRow
    <2>6. QED BY <2>2, <2>3, <2>4, <2>5 DEF ObjectInv
  <1>8. QED
    BY <1>4, <1>5, <1>6, <1>7 DEF TrafficInv, ObjectInv

\* Aggregation keeps the date of the last row of an object, which is all the rest needs.
LEMMA CleanupStep ==
  ASSUME Traffic!Assumption, TrafficInv, Traffic!Cleanup
  PROVE  TrafficInv'
  <1>1. /\ UNCHANGED <<now, logs, monitorPhase, window, output, counted, edges, moved, overlaps>>
        /\ DataTypes'
        /\ \A o \in Objects :
             /\ data'[o] = << >> <=> data[o] = << >>
             /\ LastIsLatest(o) /\ data[o] # << >> =>
                  LastIsLatest(o)' /\ LastRow(o)'.created_at = LastRow(o).created_at
    BY CleanupEffect, CleanupKeepsLatest DEF TrafficInv
  <1>2. TrafficTypes' /\ LogsApart' /\ MonitoringWindows'
    BY <1>1 DEF TrafficInv, TrafficTypes, LogsApart, MonitoringWindows, WindowOf, HasReadLog,
       HasReadBoth, LogLines, Traffic!Inside, Traffic!Found, Traffic!Dates, Traffic!Times
  <1>3. ASSUME NEW o \in Objects \ overlaps' PROVE ObjectInv(o)'
    <2>1. o \in Objects /\ o \notin overlaps /\ ObjectInv(o)
      BY <1>1 DEF TrafficInv, ObjectInv
    <2>2. CASE data[o] = << >>
      <3>1. OneAtWork(o)' /\ LastIsLatest(o)' /\ CountedBehind(o)' /\ ContinuesThere(o)'
               /\ Remembered(o)'
        BY <1>1, <2>1, <2>2 DEF ObjectInv, OneAtWork, LastIsLatest, CountedBehind, ContinuesThere,
           Remembered, AtWorkOn
      <3>2. Untouched(o)'
        BY <1>1, <2>1, <2>2 DEF ObjectInv, Untouched, Traffic!Times
      <3>3. QED BY <3>1, <3>2 DEF ObjectInv
    <2>3. CASE data[o] # << >>
      <3>1. /\ data'[o] # << >> /\ LastIsLatest(o)'
            /\ LastRow(o)'.created_at = LastRow(o).created_at
        BY <1>1, <2>1, <2>3 DEF ObjectInv
      <3>2. OneAtWork(o)' /\ Untouched(o)'
        BY <1>1, <2>1, <3>1 DEF ObjectInv, OneAtWork, Untouched, AtWorkOn
      <3>3. CountedBehind(o)' /\ ContinuesThere(o)' /\ Remembered(o)'
        <4> DEFINE c == LastRow(o).created_at
        <4>1. LastRow(o)'.created_at = c
          BY <3>1
        <4>2. /\ \A t \in Traffic!Times :
                    \/ counted[o][t] = 0
                    \/ t < c /\ (counted[o][t] = 1 \/ (counted[o][t] = 2 /\ t \in moved[o]))
              /\ \A m \in Monitorings : ToStore(m, o) =>
                    window[m].ini[o] = c /\ c <= window[m].end
              /\ \A t \in LogLines(o) :
                    t < c /\ t \notin edges[o] /\ (\E e \in edges[o] : e < t)
                      => counted[o][t] >= 1
          BY <2>1, <2>3 DEF ObjectInv, CountedBehind, ContinuesThere, Remembered
        <4> HIDE DEF c
        <4>3. LogLines(o)' = LogLines(o) /\ \A m : ToStore(m, o)' <=> ToStore(m, o)
          BY <1>1 DEF LogLines, ToStore
        <4>4. CountedBehind(o)'
          BY <1>1, <4>1, <4>2 DEF CountedBehind, Traffic!Times
        <4>5. ContinuesThere(o)'
          BY <1>1, <4>1, <4>2, <4>3 DEF ContinuesThere
        <4>6. Remembered(o)'
          BY <1>1, <4>1, <4>2, <4>3 DEF Remembered
        <4>7. QED BY <4>4, <4>5, <4>6
      <3>4. QED BY <3>1, <3>2, <3>3 DEF ObjectInv
    <2>4. QED BY <2>2, <2>3
  <1>4. QED
    BY <1>1, <1>2, <1>3 DEF TrafficInv, ObjectInv

\* What a monitoring begins with continues the last row; who else is at work on one of
\* its objects overlaps.
LEMMA StartStep ==
  ASSUME Traffic!Assumption, TrafficInv, NEW m \in Monitorings, StartsMonitoring(m)
  PROVE  TrafficInv'
  <1>1. \A o \in Objects : edges[o] \subseteq Int
    BY DEF TrafficInv, TrafficTypes, Traffic!Assumption
  <1>2. PICK who \in SUBSET Objects :
          /\ monitorPhase[m] = "idle"
          /\ monitorPhase' = [monitorPhase EXCEPT ![m] = "generated"]
          /\ window' = [window EXCEPT ![m] =
               [end |-> now, ini |-> [o \in who |-> Traffic!get_last_date(o)]]]
          /\ window'[m] \in Traffic!Dates /\ window'[m] # None
          /\ overlaps' = overlaps \cup {o \in who :
               \E n \in Monitorings \ {m} : window[n] # None /\ o \in DOMAIN window[n].ini}
          /\ UNCHANGED <<now, logs, data, output, counted, edges, moved>>
    BY <1>1, StartEffect DEF TrafficInv
  <1>3. /\ window \in [Monitorings -> Traffic!Dates \cup Traffic!Found \cup {None}]
        /\ monitorPhase \in [Monitorings -> {"idle", "generated", "reads", "stores", "updates"}]
    BY DEF TrafficInv, TrafficTypes
  <1>4. /\ window'[m].end = now /\ DOMAIN window'[m].ini = who
        /\ \A o \in who : window'[m].ini[o] = Traffic!get_last_date(o)
        /\ monitorPhase'[m] = "generated"
    BY <1>2, <1>3
  <1>5. \A n \in Monitorings \ {m} : window'[n] = window[n] /\ monitorPhase'[n] = monitorPhase[n]
    BY <1>2, <1>3
  <1>6. window' \in [Monitorings -> Traffic!Dates \cup Traffic!Found \cup {None}]
    <2>1. \A n \in Monitorings : window'[n] \in Traffic!Dates \cup Traffic!Found \cup {None}
      BY <1>2, <1>3, <1>5
    <2>2. window' = [n \in Monitorings |-> window'[n]]
      BY <1>2, <1>3
    <2>3. QED BY <2>1, <2>2
  <1>7. monitorPhase' \in [Monitorings -> {"idle", "generated", "reads", "stores", "updates"}]
    BY <1>2, <1>3
  <1>8. TrafficTypes' /\ DataTypes'
    BY <1>2, <1>6, <1>7 DEF TrafficInv, TrafficTypes, DataTypes, RowsWith, Traffic!Dates,
       Traffic!Found, Traffic!Times
  <1>9. LogsApart' /\ MonitoringWindows'
    <2> SUFFICES ASSUME NEW n \in Monitorings PROVE WindowOf(n)'
      BY <1>2 DEF TrafficInv, LogsApart, LogLines, MonitoringWindows
    <2>1. CASE n = m
      <3>1. now <= now
        BY DEF TrafficInv, TrafficTypes, Traffic!Times
      <3>2. QED BY <1>2, <1>4, <2>1, <3>1 DEF WindowOf
    <2>2. CASE n # m
      BY <1>2, <1>5, <2>2 DEF TrafficInv, MonitoringWindows, WindowOf, HasReadLog, HasReadBoth,
         LogLines, Traffic!Inside, Traffic!Found, Traffic!Times
    <2>3. QED BY <2>1, <2>2
  <1>10. ASSUME NEW o \in Objects \ overlaps' PROVE ObjectInv(o)'
    <2>1. o \in Objects /\ o \notin overlaps /\ ObjectInv(o)
      BY <1>2 DEF TrafficInv, ObjectInv
    <2>2. \A n \in Monitorings \ {m} : AtWorkOn(n, o)' <=> AtWorkOn(n, o)
      BY <1>5 DEF AtWorkOn
    <2>3. o \in who => \A n \in Monitorings \ {m} : ~ AtWorkOn(n, o)
      BY <1>2 DEF TrafficInv, MonitoringWindows, WindowOf, AtWorkOn
    <2>4. AtWorkOn(m, o)' => o \in who
      BY <1>4 DEF AtWorkOn
    <2>5. OneAtWork(o)'
      BY <2>1, <2>2, <2>3, <2>4 DEF OneAtWork, ObjectInv
    <2>6. LastIsLatest(o)' /\ Untouched(o)' /\ CountedBehind(o)' /\ Remembered(o)'
      BY <1>2, <2>1 DEF ObjectInv, LastIsLatest, Untouched, CountedBehind, Remembered, LastRow,
         Traffic!Present, LogLines, Traffic!Times
    <2>7. ContinuesThere(o)'
      <3> SUFFICES ASSUME data[o] # << >>, NEW n \in Monitorings, ToStore(n, o)'
                   PROVE  /\ window'[n].ini[o] = LastRow(o).created_at
                          /\ LastRow(o).created_at <= window'[n].end
        BY <1>2 DEF ContinuesThere, LastRow
      <3>1. CASE n = m
        <4>1. Traffic!get_last_date(o) = LastRow(o).created_at /\ LastRow(o).created_at <= now
          BY <2>1, LatestIsLast DEF ObjectInv, LastIsLatest, Traffic!get_last_date, TrafficInv
        <4>2. QED BY <1>4, <3>1, <4>1 DEF ToStore
      <3>2. CASE n # m
        BY <1>2, <1>5, <2>1, <3>2 DEF ToStore, ObjectInv, ContinuesThere
      <3>3. QED BY <3>1, <3>2
    <2>8. QED BY <2>5, <2>6, <2>7 DEF ObjectInv
  <1>11. QED
    BY <1>8, <1>9, <1>10 DEF TrafficInv, ObjectInv

\* A step of one monitoring that stores nothing, and has at most as much to store
\* after it: its script ends or fails, its output is dropped, it ends or dies.
LEMMA RestStep ==
  ASSUME Traffic!Assumption, TrafficInv, NEW m \in Monitorings,
         UNCHANGED <<now, logs, data, counted, edges, moved, overlaps>>,
         TrafficTypes', MonitoringWindows',
         \A n \in Monitorings, o \in Objects :
           /\ AtWorkOn(n, o)' => AtWorkOn(n, o)
           /\ ToStore(n, o)' => /\ ToStore(n, o) /\ window'[n].ini = window[n].ini
                                /\ window'[n].end = window[n].end
  PROVE  TrafficInv'
  <1>1. DataTypes'
    BY DEF TrafficInv, DataTypes, RowsWith, Traffic!Times
  <1>2. LogsApart'
    BY DEF TrafficInv, LogsApart, LogLines
  <1>3. ASSUME NEW o \in Objects \ overlaps' PROVE ObjectInv(o)'
    <2>1. o \in Objects /\ o \notin overlaps /\ ObjectInv(o)
      BY DEF TrafficInv, ObjectInv
    <2>2. OneAtWork(o)'
      BY <2>1 DEF ObjectInv, OneAtWork
    <2>3. ContinuesThere(o)'
      BY <2>1 DEF ObjectInv, ContinuesThere, LastRow
    <2>4. LastIsLatest(o)' /\ Untouched(o)' /\ CountedBehind(o)' /\ Remembered(o)'
      BY <2>1 DEF ObjectInv, LastIsLatest, Untouched, CountedBehind, Remembered, LastRow,
         Traffic!Present, LogLines, Traffic!Times
    <2>5. QED BY <2>2, <2>3, <2>4 DEF ObjectInv
  <1>4. QED
    BY <1>1, <1>2, <1>3 DEF TrafficInv, ObjectInv

\* A monitoring that ends, however it does, leaves everything as it was.
LEMMA EndStep ==
  ASSUME Traffic!Assumption, TrafficInv, NEW m \in Monitorings,
         \/ Traffic!Update(m) \/ Traffic!Crash(m)
         \/ Traffic!StoreRaises(m) \/ Traffic!ScriptFails(m)
  PROVE  TrafficInv'
  <1>1. /\ UNCHANGED <<now, logs, data, counted, edges, moved, overlaps>>
        /\ output' = output \/ output' = [output EXCEPT ![m] = {}]
        /\ \/ window' = window /\ monitorPhase' = monitorPhase
           \/ window' = window /\ monitorPhase[m] # "idle"
                /\ monitorPhase' = [monitorPhase EXCEPT ![m] = "updates"]
           \/ /\ window' = [window EXCEPT ![m] = None]
              /\ monitorPhase' = [monitorPhase EXCEPT ![m] = "idle"]
    BY EndEffect DEF TrafficInv, Traffic!StoreRaises, Traffic!ScriptFails, Traffic!time,
       Traffic!history
  <1>2. TrafficTypes'
    BY <1>1 DEF TrafficInv, TrafficTypes, Traffic!Times, Traffic!Dates, Traffic!Found
  <1>3. ASSUME NEW n \in Monitorings
        PROVE  /\ output'[n] \subseteq output[n]
               /\ \/ window'[n] = window[n] /\ monitorPhase'[n] = monitorPhase[n]
                  \/ window'[n] = window[n] /\ monitorPhase[n] # "idle"
                       /\ monitorPhase'[n] = "updates"
                  \/ window'[n] = None /\ monitorPhase'[n] = "idle"
    BY <1>1 DEF TrafficInv, TrafficTypes
  <1>4. MonitoringWindows'
    <2> SUFFICES ASSUME NEW n \in Monitorings PROVE WindowOf(n)'
      BY DEF MonitoringWindows
    <2>1. WindowOf(n)
      BY DEF TrafficInv, MonitoringWindows
    <2>2. CASE window'[n] = window[n] /\ monitorPhase'[n] = monitorPhase[n]
      BY <1>1, <1>3, <2>1, <2>2 DEF WindowOf, HasReadLog, HasReadBoth, LogLines, Traffic!Inside,
         Traffic!Found, Traffic!Times
    <2>3. CASE window'[n] = window[n] /\ monitorPhase[n] # "idle" /\ monitorPhase'[n] = "updates"
      BY <1>1, <2>1, <2>3 DEF WindowOf
    <2>4. CASE window'[n] = None /\ monitorPhase'[n] = "idle"
      BY <2>4 DEF WindowOf
    <2>5. QED BY <1>3, <2>2, <2>3, <2>4
  <1>5. \A n \in Monitorings, o \in Objects :
          /\ AtWorkOn(n, o)' => AtWorkOn(n, o)
          /\ ToStore(n, o)' => /\ ToStore(n, o) /\ window'[n].ini = window[n].ini
                               /\ window'[n].end = window[n].end
    BY <1>3 DEF AtWorkOn, ToStore
  <1>6. QED
    BY <1>1, <1>2, <1>4, <1>5, RestStep

\* A monitoring that reads a log goes on with the same dates, and has what its window has
\* of that log.
LEMMA ReadStep ==
  ASSUME Traffic!Assumption, TrafficInv, NEW m \in Monitorings,
         Traffic!Reads(m) \/ Traffic!Execute(m)
  PROVE  TrafficInv'
  <1> DEFINE w == window[m]
             who == DOMAIN w.ini
             read == [end |-> w.end, ini |-> w.ini,
               value |-> [o \in who |-> {t \in logs[1][o] : Traffic!Inside(t, o, w)}],
               again |-> [o \in who |-> {}]]
             rotated == [o \in who |-> {t \in logs[2][o] : Traffic!Inside(t, o, w)}]
             both == [end |-> w.end, ini |-> w.ini,
               value |-> [o \in who |-> w.value[o] \cup rotated[o]],
               again |-> [o \in who |-> w.value[o] \cap rotated[o]]]
  <1>1. /\ w # None /\ who \subseteq Objects
        /\ UNCHANGED <<now, logs, data, counted, edges, moved, overlaps>>
        /\ \/ /\ monitorPhase[m] = "generated"
              /\ output' = output
              /\ window' = [window EXCEPT ![m] = read] /\ read \in Traffic!Found /\ read # None
              /\ monitorPhase' = [monitorPhase EXCEPT ![m] = "reads"]
           \/ /\ monitorPhase[m] = "reads"
              /\ output' = [output EXCEPT ![m] = who]
              /\ window' = [window EXCEPT ![m] = both] /\ both \in Traffic!Found /\ both # None
              /\ monitorPhase' = [monitorPhase EXCEPT ![m] = "stores"]
    <2>1. CASE Traffic!Reads(m)
      BY <2>1, ReadsEffect DEF TrafficInv
    <2>2. CASE Traffic!Execute(m)
      BY <2>2, ExecuteEffect DEF TrafficInv
    <2>3. QED BY <2>1, <2>2
  <1>2. /\ read.end = w.end /\ read.ini = w.ini /\ DOMAIN read.value = who
        /\ \A o \in who : read.value[o] = {t \in logs[1][o] : Traffic!Inside(t, o, w)}
        /\ both.end = w.end /\ both.ini = w.ini
        /\ DOMAIN both.value = who /\ DOMAIN both.again = who
        /\ \A o \in who :
             /\ both.value[o] = w.value[o] \cup {t \in logs[2][o] : Traffic!Inside(t, o, w)}
             /\ both.again[o] = w.value[o] \cap {t \in logs[2][o] : Traffic!Inside(t, o, w)}
    OBVIOUS
  <1>3. \A t, o : /\ Traffic!Inside(t, o, read) <=> Traffic!Inside(t, o, w)
                  /\ Traffic!Inside(t, o, both) <=> Traffic!Inside(t, o, w)
    BY <1>2 DEF Traffic!Inside
  <1> HIDE DEF read, both, rotated, w, who
  <1>4. /\ window \in [Monitorings -> Traffic!Dates \cup Traffic!Found \cup {None}]
        /\ monitorPhase \in [Monitorings -> {"idle", "generated", "reads", "stores", "updates"}]
        /\ output \in [Monitorings -> SUBSET Objects]
    BY DEF TrafficInv, TrafficTypes
  <1>5. \A n \in Monitorings \ {m} : /\ window'[n] = window[n] /\ output'[n] = output[n]
                                     /\ monitorPhase'[n] = monitorPhase[n]
    BY <1>1, <1>4
  <1>6. \/ /\ monitorPhase[m] = "generated" /\ monitorPhase'[m] = "reads"
           /\ window'[m] = read /\ read \in Traffic!Found /\ read # None
        \/ /\ monitorPhase[m] = "reads" /\ monitorPhase'[m] = "stores" /\ output'[m] = who
           /\ window'[m] = both /\ both \in Traffic!Found /\ both # None
    BY <1>1, <1>4
  <1>7. /\ window' \in [Monitorings -> Traffic!Dates \cup Traffic!Found \cup {None}]
        /\ monitorPhase' \in [Monitorings -> {"idle", "generated", "reads", "stores", "updates"}]
        /\ output' \in [Monitorings -> SUBSET Objects]
    BY <1>1, <1>4
  <1>8. TrafficTypes'
    BY <1>1, <1>7 DEF TrafficInv, TrafficTypes, Traffic!Times, Traffic!Dates, Traffic!Found
  <1>9. MonitoringWindows'
    <2> SUFFICES ASSUME NEW n \in Monitorings PROVE WindowOf(n)'
      BY DEF MonitoringWindows
    <2>1. WindowOf(n)
      BY DEF TrafficInv, MonitoringWindows
    <2>2. CASE n # m
      BY <1>1, <1>5, <2>1, <2>2 DEF WindowOf, HasReadLog, HasReadBoth, LogLines, Traffic!Inside,
         Traffic!Found, Traffic!Times
    <2>3. ASSUME n = m, monitorPhase[m] = "generated", monitorPhase'[m] = "reads",
                 window'[m] = read, read \in Traffic!Found, read # None
          PROVE  WindowOf(n)'
      <3>1. read.end <= now
        BY <1>2, <2>1, <2>3 DEF WindowOf, w
      <3>2. \A o \in who : \A t \in logs[2][o] : t \notin logs[1][o]
        BY <1>1 DEF TrafficInv, LogsApart
      <3>3. HasReadLog(m)'
        <4>1. read \in Traffic!Found'
          BY <2>3 DEF Traffic!Found, Traffic!Times
        <4>2. \A o \in DOMAIN read.ini :
                /\ o \in DOMAIN read.value
                /\ \A t \in read.value[o] : Traffic!Inside(t, o, read)
                /\ \A t \in logs[1][o] : Traffic!Inside(t, o, read) => t \in read.value[o]
                /\ \A t \in logs[2][o] : t \in read.value[o] => t \in moved[o]
          BY <1>2, <1>3, <3>2 DEF who
        <4>3. \A t, o : Traffic!Inside(t, o, window[m])' <=> Traffic!Inside(t, o, read)
          BY <2>3 DEF Traffic!Inside
        <4>4. QED BY <1>1, <2>3, <4>1, <4>2, <4>3 DEF HasReadLog
      <3>4. QED BY <1>1, <2>3, <3>1, <3>3 DEF WindowOf
    <2>4. ASSUME n = m, monitorPhase[m] = "reads", monitorPhase'[m] = "stores", output'[m] = who,
                 window'[m] = both, both \in Traffic!Found, both # None
          PROVE  WindowOf(n)'
      <3>1. both.end <= now /\ HasReadLog(m)
        BY <1>2, <2>1, <2>4 DEF WindowOf, w
      <3>2. \A o \in who : /\ \A t \in w.value[o] : Traffic!Inside(t, o, w)
                           /\ \A t \in logs[1][o] : Traffic!Inside(t, o, w) => t \in w.value[o]
                           /\ \A t \in logs[2][o] : t \in w.value[o] => t \in moved[o]
        BY <3>1 DEF HasReadLog, w, who
      <3>3. HasReadBoth(m)'
        <4>1. both \in Traffic!Found'
          BY <2>4 DEF Traffic!Found, Traffic!Times
        <4>2. \A o \in who :
                /\ o \in DOMAIN both.value /\ o \in DOMAIN both.again
                /\ \A t \in both.value[o] : Traffic!Inside(t, o, both)
                /\ \A t \in LogLines(o) : Traffic!Inside(t, o, both) => t \in both.value[o]
                /\ \A t \in both.again[o] : t \in both.value[o] /\ t \in moved[o]
          BY <1>2, <1>3, <3>2 DEF LogLines
        <4>3. \A t, o : Traffic!Inside(t, o, window[m])' <=> Traffic!Inside(t, o, both)
          BY <2>4 DEF Traffic!Inside
        <4>4. \A o : LogLines(o)' = LogLines(o)
          BY <1>1 DEF LogLines
        <4>5. who \subseteq DOMAIN both.ini
          BY <1>2 DEF who
        <4>6. QED BY <1>1, <2>4, <4>1, <4>2, <4>3, <4>4, <4>5 DEF HasReadBoth
      <3>4. QED BY <1>1, <2>4, <3>1, <3>3 DEF WindowOf
    <2>5. QED BY <1>6, <2>2, <2>3, <2>4
  <1>10. \A n \in Monitorings, o \in Objects :
          /\ AtWorkOn(n, o)' => AtWorkOn(n, o)
          /\ ToStore(n, o)' => /\ ToStore(n, o) /\ window'[n].ini = window[n].ini
                               /\ window'[n].end = window[n].end
    <2> SUFFICES ASSUME NEW n \in Monitorings, NEW o \in Objects
                 PROVE  /\ AtWorkOn(n, o)' => AtWorkOn(n, o)
                        /\ ToStore(n, o)' => /\ ToStore(n, o) /\ window'[n].ini = window[n].ini
                                             /\ window'[n].end = window[n].end
      OBVIOUS
    <2>1. CASE n = m
      BY <1>1, <1>2, <1>6, <2>1 DEF AtWorkOn, ToStore, w, who
    <2>2. CASE n # m
      BY <1>5, <2>2 DEF AtWorkOn, ToStore
    <2>3. QED BY <2>1, <2>2
  <1>11. QED
    BY <1>1, <1>8, <1>9, <1>10, RestStep

\* Storing a line of output counts what is inside its window, which begins where the
\* last row is, so that what was counted before is not in it.
LEMMA StoreStep ==
  ASSUME Traffic!Assumption, TrafficInv, NEW m \in Monitorings, Traffic!Store(m)
  PROVE  TrafficInv'
  <1> DEFINE w == window[m]
  <1>1. PICK o \in output[m] :
          LET lines == w.value[o]
              again == w.again[o] IN
          /\ monitorPhase[m] = "stores" /\ w # None /\ w \in Traffic!Found
          /\ o \in Objects /\ o \in DOMAIN w.ini /\ w.ini[o] \in -Day .. MaxTime
          /\ w.end \in Traffic!Times /\ w.end <= now
          /\ lines \subseteq Traffic!Times /\ again \subseteq lines /\ again \subseteq moved[o]
          /\ \A t \in lines : Traffic!Inside(t, o, w)
          /\ output' = [output EXCEPT ![m] = output[m] \ {o}]
          /\ data' = [data EXCEPT ![o] = Append(data[o],
               [created_at |-> w.end,
                value |-> Traffic!Cardinality(lines) + Traffic!Cardinality(again),
                there |-> TRUE])]
          /\ counted' = [counted EXCEPT ![o] = [t \in Traffic!Times |->
               counted[o][t] + (IF t \in lines THEN 1 ELSE 0) + (IF t \in again THEN 1 ELSE 0)]]
          /\ edges' = [edges EXCEPT ![o] = edges[o] \cup {w.ini[o], w.end}]
          /\ UNCHANGED <<now, logs, lock, monitorPhase, window, moved, overlaps>>
    BY StoreEffect DEF TrafficInv
  <1> DEFINE lines == w.value[o]
             again == w.again[o]
             row == [created_at |-> w.end,
                     value |-> Traffic!Cardinality(lines) + Traffic!Cardinality(again),
                     there |-> TRUE]
  <1>2. /\ \A t \in LogLines(o) : Traffic!Inside(t, o, w) => t \in lines
        /\ again \subseteq lines /\ again \subseteq moved[o]
    BY <1>1 DEF TrafficInv, MonitoringWindows, WindowOf, HasReadBoth
  <1>3. /\ row.created_at = w.end /\ row.there /\ w.end \in Nat /\ w.ini[o] \in Int
        /\ lines \subseteq Traffic!Times
    BY <1>1 DEF Traffic!Times, Traffic!Assumption
  <1>4. data' = [data EXCEPT ![o] = Append(data[o], row)]
        /\ counted' = [counted EXCEPT ![o] = [t \in Traffic!Times |->
             counted[o][t] + (IF t \in lines THEN 1 ELSE 0) + (IF t \in again THEN 1 ELSE 0)]]
    BY <1>1
  <1>5. \E v : row = [created_at |-> w.end, value |-> v, there |-> TRUE]
    OBVIOUS
  <1> HIDE DEF row, lines, again
  <1>6. /\ output \in [Monitorings -> SUBSET Objects]
        /\ counted \in [Objects -> [Traffic!Times -> Nat]]
        /\ edges \in [Objects -> SUBSET (-Day .. MaxTime)]
        /\ w.end \in -Day .. MaxTime
    BY <1>1 DEF TrafficInv, TrafficTypes, Traffic!Times, Traffic!Assumption
  <1>7. TrafficTypes'
    <2>1. counted' \in [Objects -> [Traffic!Times -> Nat]]
      <3> DEFINE more == [t \in Traffic!Times |->
                   counted[o][t] + (IF t \in lines THEN 1 ELSE 0) + (IF t \in again THEN 1 ELSE 0)]
      <3>1. more \in [Traffic!Times -> Nat]
        BY <1>1, <1>6
      <3> HIDE DEF more
      <3>2. QED BY <1>4, <1>6, <3>1 DEF more
    <2>2. edges' \in [Objects -> SUBSET (-Day .. MaxTime)]
             /\ output' \in [Monitorings -> SUBSET Objects]
      BY <1>1, <1>6
    <2>3. QED
      BY <1>1, <2>1, <2>2 DEF TrafficInv, TrafficTypes, Traffic!Times, Traffic!Dates, Traffic!Found
  <1>8. DataTypes'
    <2>1. PICK V : data \in [Objects -> Seq(RowsWith(V))]
      BY DEF TrafficInv, DataTypes
    <2> DEFINE V2 == V \cup {row.value}
    <2>2. row \in RowsWith(V2)
      BY <1>1, <1>5 DEF RowsWith
    <2>3. \A x \in Objects : data[x] \in Seq(RowsWith(V2))
      <3>1. RowsWith(V) \subseteq RowsWith(V2)
        BY DEF RowsWith
      <3> HIDE DEF V2
      <3>2. QED BY <2>1, <3>1
    <2> HIDE DEF V2
    <2>4. data' \in [Objects -> Seq(RowsWith(V2))]
      <3>1. Append(data[o], row) \in Seq(RowsWith(V2))
        BY <1>1, <2>2, <2>3
      <3>2. data \in [Objects -> Seq(RowsWith(V2))]
        BY <2>1, <2>3
      <3>3. QED BY <1>4, <3>1, <3>2
    <2>5. QED
      BY <2>4 DEF DataTypes, RowsWith, Traffic!Times
  <1>9. LogsApart' /\ MonitoringWindows'
    <2>1. \A n \in Monitorings : output'[n] \subseteq output[n]
      BY <1>1, <1>6
    <2>2. MonitoringWindows'
      <3> SUFFICES ASSUME NEW n \in Monitorings PROVE WindowOf(n)'
        BY DEF MonitoringWindows
      <3>1. WindowOf(n)
        BY DEF TrafficInv, MonitoringWindows
      <3>2. HasReadLog(n) => HasReadLog(n)'
        BY <1>1 DEF HasReadLog, Traffic!Inside, Traffic!Found, Traffic!Times
      <3>3. HasReadBoth(n) => HasReadBoth(n)'
        BY <1>1, <2>1 DEF HasReadBoth, LogLines, Traffic!Inside, Traffic!Found, Traffic!Times
      <3>4. QED BY <1>1, <3>1, <3>2, <3>3 DEF WindowOf
    <2>3. LogsApart'
      BY <1>1 DEF TrafficInv, LogsApart, LogLines
    <2>4. QED BY <2>2, <2>3
  <1>10. ASSUME NEW x \in Objects \ overlaps', x # o PROVE ObjectInv(x)'
    <2>1. x \in Objects /\ x \notin overlaps /\ ObjectInv(x)
      BY <1>1 DEF TrafficInv, ObjectInv
    <2>2. data'[x] = data[x] /\ counted'[x] = counted[x] /\ edges'[x] = edges[x]
      BY <1>1, <1>4, <1>6, <1>10
    <2>3. \A n \in Monitorings : (AtWorkOn(n, x)' <=> AtWorkOn(n, x))
             /\ (ToStore(n, x)' => ToStore(n, x))
      BY <1>1, <1>6 DEF AtWorkOn, ToStore
    <2>4. OneAtWork(x)'
      BY <2>1, <2>3 DEF ObjectInv, OneAtWork
    <2>5. ContinuesThere(x)'
      BY <1>1, <2>1, <2>2, <2>3 DEF ObjectInv, ContinuesThere, LastRow
    <2>6. LastIsLatest(x)' /\ Untouched(x)' /\ CountedBehind(x)' /\ Remembered(x)'
      BY <1>1, <2>1, <2>2 DEF ObjectInv, LastIsLatest, Untouched, CountedBehind, Remembered, LastRow,
         Traffic!Present, LogLines, Traffic!Times
    <2>7. QED BY <2>4, <2>5, <2>6 DEF ObjectInv
  <1>11. ASSUME o \notin overlaps' PROVE ObjectInv(o)'
    <2> DEFINE n == Len(data[o])
    <2>1. o \in Objects /\ o \notin overlaps /\ ObjectInv(o)
      BY <1>1, <1>11 DEF TrafficInv, ObjectInv
    <2>2. /\ n \in Nat /\ DOMAIN data[o] = 1 .. n /\ (data[o] = << >> <=> n = 0)
          /\ \A i \in 1 .. n : data[o][i].created_at \in Traffic!Times
      BY <1>1, RowType DEF TrafficInv
    <2>3. /\ Len(data'[o]) = n + 1 /\ data'[o] # << >> /\ DOMAIN data'[o] = 1 .. n + 1
          /\ data'[o][n + 1] = row /\ \A i \in 1 .. n : data'[o][i] = data[o][i]
      <3>1. PICK V : data \in [Objects -> Seq(RowsWith(V))]
        BY DEF TrafficInv, DataTypes
      <3>2. data[o] \in Seq(RowsWith(V)) /\ data'[o] = Append(data[o], row)
        BY <1>1, <1>4, <3>1
      <3>3. Len(data'[o]) = n + 1 /\ DOMAIN data'[o] = 1 .. n + 1
            /\ data'[o][n + 1] = row /\ \A i \in 1 .. n : data'[o][i] = data[o][i]
        BY <3>2
      <3>4. data'[o] # << >>
        BY <2>2, <3>3
      <3>5. QED BY <3>3, <3>4
    <2>4. LastRow(o)' = row
      BY <2>3 DEF LastRow
    <2>5. AtWorkOn(m, o) /\ ToStore(m, o)
      BY <1>1 DEF AtWorkOn, ToStore
    <2>6. data[o] # << >> => w.ini[o] = LastRow(o).created_at /\ LastRow(o).created_at <= w.end
      BY <2>1, <2>5 DEF ObjectInv, ContinuesThere
    <2>7. \A k \in Monitorings : (AtWorkOn(k, o)' <=> AtWorkOn(k, o))
             /\ (ToStore(k, o)' => ToStore(k, o))
                                 /\ (ToStore(k, o) => AtWorkOn(k, o))
      BY <1>1, <1>6 DEF AtWorkOn, ToStore
    <2>8. OneAtWork(o)'
      BY <2>1, <2>7 DEF ObjectInv, OneAtWork
    <2>9. Untouched(o)'
      BY <2>3 DEF Untouched
    <2>10. LastIsLatest(o)'
      <3>1. row.there /\ row.created_at <= now'
        BY <1>1, <1>3
      <3>2. \A i \in Traffic!Present(data'[o]) : data'[o][i].created_at <= row.created_at
        <4> SUFFICES ASSUME NEW i \in Traffic!Present(data'[o])
                     PROVE data'[o][i].created_at <= row.created_at
          OBVIOUS
        <4>1. i \in 1 .. n + 1 /\ data'[o][i].there
          BY <2>3 DEF Traffic!Present
        <4>2. CASE i = n + 1
          BY <1>3, <2>3, <4>2
        <4>3. CASE i \in 1 .. n
          <5>1. i \in Traffic!Present(data[o]) /\ data[o] # << >>
            BY <2>2, <2>3, <4>1, <4>3 DEF Traffic!Present
          <5>2. data[o][i].created_at <= LastRow(o).created_at /\ LastRow(o).created_at <= w.end
            BY <2>1, <2>6, <5>1 DEF ObjectInv, LastIsLatest
          <5>3. data[o][i].created_at \in Int /\ LastRow(o).created_at \in Int
            BY <2>2, <4>3 DEF LastRow, Traffic!Times
          <5>4. QED BY <1>3, <2>3, <4>3, <5>2, <5>3
        <4>4. QED BY <2>2, <4>1, <4>2, <4>3
      <3>3. QED BY <2>4, <3>1, <3>2 DEF LastIsLatest
    <2>11. \A t \in Traffic!Times :
             /\ counted[o][t] \in Nat
             /\ counted'[o][t] =
                  counted[o][t] + (IF t \in lines THEN 1 ELSE 0) + (IF t \in again THEN 1 ELSE 0)
             /\ t \in lines => w.ini[o] < t /\ t < w.end
             /\ t \in again => t \in lines /\ t \in moved[o]
      BY <1>1, <1>2, <1>4, <1>6 DEF lines, Traffic!Inside
    <2>12. data[o] # << >> => LastRow(o).created_at \in Int
      BY <2>2 DEF LastRow, Traffic!Times
    <2>13. \A t \in Traffic!Times :
             \/ counted[o][t] = 0
             \/ /\ data[o] # << >> /\ t < w.ini[o] /\ t < w.end
                /\ counted[o][t] = 1 \/ (counted[o][t] = 2 /\ t \in moved[o])
      BY <1>3, <2>1, <2>6, <2>12 DEF ObjectInv, Untouched, CountedBehind, Traffic!Times
    <2>14. CountedBehind(o)'
      <3>1. \A t \in Traffic!Times :
              \/ counted'[o][t] = 0
              \/ t < w.end /\ (counted'[o][t] = 1 \/ (counted'[o][t] = 2 /\ t \in moved[o]))
        <4> SUFFICES ASSUME NEW t \in Traffic!Times
                     PROVE  \/ counted'[o][t] = 0
                            \/ /\ t < w.end
                               /\ counted'[o][t] = 1 \/ (counted'[o][t] = 2 /\ t \in moved[o])
          OBVIOUS
        <4>1. CASE t \in lines
          <5>1. w.ini[o] < t /\ t < w.end /\ t \in Int
            BY <2>11, <4>1 DEF Traffic!Times
          <5>2. counted[o][t] = 0
            BY <1>3, <2>13, <5>1
          <5>3. counted'[o][t] = 0 + 1 + (IF t \in again THEN 1 ELSE 0)
                /\ (t \in again => t \in moved[o])
            BY <2>11, <4>1, <5>2
          <5>4. QED BY <5>1, <5>3
        <4>2. CASE t \notin lines
          <5>1. counted'[o][t] = counted[o][t] + 0 + 0 /\ counted[o][t] \in Nat
            BY <2>11, <4>2
          <5>2. \/ counted[o][t] = 0
                \/ /\ t < w.end
                   /\ counted[o][t] = 1 \/ (counted[o][t] = 2 /\ t \in moved[o])
            BY <2>13
          <5>3. QED BY <5>1, <5>2
        <4>3. QED BY <4>1, <4>2
      <3>2. moved' = moved
        BY <1>1
      <3>3. QED BY <1>3, <2>4, <3>1, <3>2 DEF CountedBehind, Traffic!Times
    <2>15. ContinuesThere(o)'
      <3>1. ~ ToStore(m, o)'
        BY <1>1, <1>6 DEF ToStore
      <3>2. \A k \in Monitorings : ~ ToStore(k, o)'
        BY <2>1, <2>5, <2>7, <3>1 DEF ObjectInv, OneAtWork
      <3>3. QED BY <3>2 DEF ContinuesThere
    <2>16. Remembered(o)'
      <3> SUFFICES ASSUME NEW t \in LogLines(o), t < w.end, t \notin edges'[o],
                          NEW e \in edges'[o], e < t
                   PROVE  counted'[o][t] >= 1
        <4>1. LogLines(o)' = LogLines(o)
          BY <1>1 DEF LogLines
        <4>2. QED BY <1>3, <2>4, <4>1 DEF Remembered
      <3>1. edges'[o] = edges[o] \cup {w.ini[o], w.end}
        BY <1>1, <1>6
      <3>2. t \in Traffic!Times /\ t \in Int /\ e \in Int
        BY <1>1, <1>3, <1>6, <3>1 DEF LogLines, TrafficInv, TrafficTypes, Traffic!Times
      <3>3. t # w.ini[o] /\ t \notin edges[o] /\ e # w.end
        BY <1>3, <3>1, <3>2
      <3>4. CASE w.ini[o] < t
        <4>1. t \in lines
          BY <1>2, <3>4 DEF Traffic!Inside
        <4>2. counted[o][t] \in Nat
              /\ counted'[o][t] = counted[o][t] + 1 + (IF t \in again THEN 1 ELSE 0)
          BY <2>11, <3>2, <4>1
        <4>3. QED BY <4>2
      <3>5. CASE t < w.ini[o]
        <4>1. e \in edges[o] /\ t \notin lines
          BY <1>3, <2>11, <3>1, <3>2, <3>3, <3>5
        <4>2. data[o] # << >>
          BY <2>1, <4>1 DEF ObjectInv, Untouched
        <4>3. counted[o][t] >= 1
          BY <2>1, <2>6, <3>3, <3>5, <4>1, <4>2 DEF ObjectInv, Remembered
        <4>4. counted[o][t] \in Nat /\ counted'[o][t] = counted[o][t] + 0 + 0
          BY <2>11, <3>2, <4>1
        <4>5. QED BY <4>3, <4>4
      <3>6. QED BY <1>3, <3>2, <3>3, <3>4, <3>5
    <2>17. QED BY <2>8, <2>9, <2>10, <2>14, <2>15, <2>16 DEF ObjectInv
  <1>12. QED
    BY <1>7, <1>8, <1>9, <1>10, <1>11 DEF TrafficInv, ObjectInv

\* The invariant of monitoring.
LEMMA TrafficInvariant ==
  ASSUME Traffic!Assumption
  PROVE  Traffic!Spec => []TrafficInv
  <1>1. Traffic!Init => TrafficInv
    <2> SUFFICES ASSUME Traffic!Init PROVE TrafficInv
      OBVIOUS
    <2>1. 0 \in Traffic!Times
      BY DEF Traffic!Assumption, Traffic!Times
    <2>2. TrafficTypes
      BY <2>1 DEF Traffic!Init, TrafficTypes, Traffic!Times
    <2>3. DataTypes
      <3>1. data \in [Objects -> Seq(RowsWith({}))]
        BY DEF Traffic!Init
      <3>2. QED BY <3>1 DEF DataTypes
    <2>4. LogsApart /\ MonitoringWindows
      BY DEF Traffic!Init, LogsApart, LogLines, MonitoringWindows, WindowOf
    <2>5. ASSUME NEW o \in Objects PROVE ObjectInv(o)
      BY DEF Traffic!Init, ObjectInv, OneAtWork, LastIsLatest, Untouched, CountedBehind,
         ContinuesThere,
         Remembered, AtWorkOn
    <2>6. QED BY <2>2, <2>3, <2>4, <2>5 DEF TrafficInv, ObjectInv
  <1>2. TrafficInv /\ [Traffic!Next]_(Traffic!vars) => TrafficInv'
    <2> SUFFICES ASSUME TrafficInv, [Traffic!Next]_(Traffic!vars) PROVE TrafficInv'
      OBVIOUS
    <2>1. CASE UNCHANGED Traffic!vars
      BY <2>1, QuietStep DEF Traffic!vars
    <2>2. CASE Traffic!Tick
      BY <2>2, TickStep
    <2>3. CASE Traffic!Rotate
      BY <2>3, RotateStep
    <2>4. CASE Traffic!LockExpires
      BY <2>4, QuietStep DEF Traffic!LockExpires, Traffic!time, Traffic!history
    <2>5. CASE Traffic!Cleanup
      BY <2>5, CleanupStep
    <2>6. ASSUME NEW m \in Monitorings, StartsMonitoring(m) PROVE TrafficInv'
      BY <2>6, StartStep
    <2>7. ASSUME NEW m \in Monitorings, Traffic!Reads(m) \/ Traffic!Execute(m) PROVE TrafficInv'
      BY <2>7, ReadStep
    <2>8. ASSUME NEW m \in Monitorings, Traffic!Store(m) PROVE TrafficInv'
      BY <2>8, StoreStep
    <2>9. ASSUME NEW m \in Monitorings,
                 \/ Traffic!Update(m) \/ Traffic!Crash(m)
                 \/ Traffic!StoreRaises(m) \/ Traffic!ScriptFails(m)
          PROVE  TrafficInv'
      BY <2>9, EndStep
    <2>10. QED
      BY <2>1, <2>2, <2>3, <2>4, <2>5, <2>6, <2>7, <2>8, <2>9 DEF Traffic!Next, StartsMonitoring
  <1>3. QED
    BY <1>1, <1>2, PTL DEF Traffic!Spec

\* No line is counted twice unless it was rotated between the two logs were read, and none
\* is forgotten, on objects that no two monitorings were at work on
\* (ServiceMonitor.get_last_date and store of resources, the two reads of Exim4Traffic and
\* aggregation by monthly_sum_old_values), whatever locks expire.
THEOREM TrafficIsCountedOnce ==
  ASSUME Traffic!Assumption
  PROVE  Traffic!Spec => []CountedOnce
  <1>1. TrafficInv => Traffic!CountedOnce
    <2> SUFFICES ASSUME TrafficInv, NEW o \in Objects \ overlaps, NEW t \in Traffic!Times
                 PROVE  counted[o][t] <= IF t \in moved[o] THEN 2 ELSE 1
      BY DEF Traffic!CountedOnce
    <2>1. counted[o][t] = 0 \/ counted[o][t] = 1 \/ (counted[o][t] = 2 /\ t \in moved[o])
      BY DEF TrafficInv, Untouched, CountedBehind
    <2>2. QED BY <2>1
  <1>2. TrafficInv => Traffic!NothingForgotten
    <2> SUFFICES ASSUME TrafficInv, NEW o \in Objects \ overlaps, Traffic!Present(data[o]) # {},
                        NEW t \in logs[1][o] \cup logs[2][o],
                        t < Traffic!latest(data[o]).created_at, \A e \in edges[o] : e # t,
                        \E e \in edges[o] : e < t
                 PROVE  counted[o][t] >= 1
      BY DEF Traffic!NothingForgotten
    <2>1. data[o] # << >>
      BY RowType DEF TrafficInv, Traffic!Present
    <2>2. Traffic!latest(data[o]) = LastRow(o)
      BY <2>1, LatestIsLast DEF TrafficInv, LastIsLatest
    <2>3. QED BY <2>1, <2>2 DEF TrafficInv, Remembered, LogLines
  <1>3. QED
    BY <1>1, <1>2, TrafficInvariant, PTL DEF CountedOnce

-----------------------------------------------------------------------------
(* The sums of months *)

\* The function a sum of values is computed by, over the subsets of S.
First(s) == CHOOSE x \in s : TRUE
IsSum(g, rows, S) ==
  g = [s \in SUBSET S |-> IF s = {} THEN 0 ELSE rows[First(s)].value + g[s \ {First(s)}]]
SumOver(rows, S) == (CHOOSE g : IsSum(g, rows, S))[S]

\* What holds of a finite set when it holds of all that are smaller holds of all of them.
LEMMA OfAllFiniteSets ==
  ASSUME NEW S, IsFiniteSet(S), NEW A,
         \A s \in SUBSET S : (\A t \in SUBSET s : t # s => t \in A) => s \in A
  PROVE  S \in A
  <1> SUFFICES ASSUME S \notin A PROVE FALSE
    OBVIOUS
  <1> DEFINE R == StrictSubsetOrdering(S)
             D == FiniteSubsetsOf(S)
             B == {s \in SUBSET S : s \notin A}
  <1>1. \A s \in SUBSET S : IsFiniteSet(s)
    BY FS_Subset
  <1>2. B \subseteq D /\ S \in B
    BY <1>1 DEF FiniteSubsetsOf
  <1>3. IsWellFoundedOn(R, D)
    BY FS_StrictSubsetOrderingWellFounded
  <1>4. B # {} /\ B \subseteq D
    BY <1>2
  <1>5. PICK s \in B : \A t \in B : ~ (<<t, s>> \in R)
    <2> HIDE DEF R, D, B
    <2>1. \A T : T \subseteq D /\ T # {} => \E x \in T : \A y \in T : ~ (<<y, x>> \in R)
      BY <1>3, WFMin
    <2>2. QED BY <1>4, <2>1, Zenon
  <1>6. ASSUME NEW t \in SUBSET s, t # s PROVE t \in A
    <2>1. t \in SUBSET S /\ s \in SUBSET S
      OBVIOUS
    <2>2. <<t, s>> \in R
      BY <1>6, <2>1 DEF StrictSubsetOrdering
    <2>3. QED BY <1>5, <2>1, <2>2
  <1>7. QED BY <1>5, <1>6

\* The sum of values by the fold of the library.
LEMMA SumIsSum ==
  ASSUME NEW rows, NEW S
  PROVE  Traffic!Sum(rows, S) = SumOver(rows, S)
  BY DEF Traffic!Sum, Traffic!MapThenSumSet, Traffic!MapThenFoldSet, SumOver, IsSum, First

\* A set with elements has a first one.
LEMMA FirstIsIn ==
  ASSUME NEW s, s # {}
  PROVE  First(s) \in s
  BY DEF First

\* There is one such function: two agree on what both are of.
LEMMA SumIsOne ==
  ASSUME NEW rows, NEW S, NEW T, NEW U, IsFiniteSet(U), U \subseteq S, U \subseteq T,
         NEW g, NEW h, IsSum(g, rows, S), IsSum(h, rows, T)
  PROVE  g[U] = h[U]
  <1> DEFINE A == {s \in SUBSET U : g[s] = h[s]}
  <1>1. ASSUME NEW s \in SUBSET U, \A t \in SUBSET s : t # s => t \in A
        PROVE  s \in A
    <2>1. /\ g[s] = IF s = {} THEN 0 ELSE rows[First(s)].value + g[s \ {First(s)}]
          /\ h[s] = IF s = {} THEN 0 ELSE rows[First(s)].value + h[s \ {First(s)}]
      BY DEF IsSum
    <2>2. s # {} => s \ {First(s)} \in A
      BY <1>1, FirstIsIn
    <2>3. QED BY <2>1, <2>2
  <1> HIDE DEF A
  <1>2. U \in A
    BY <1>1, OfAllFiniteSets
  <1>3. QED BY <1>2 DEF A

\* There is one for every finite set.
LEMMA SumExists ==
  ASSUME NEW rows, NEW S, IsFiniteSet(S)
  PROVE  \E g : IsSum(g, rows, S)
  <1> DEFINE A == {s \in SUBSET S : \E g : IsSum(g, rows, s)}
  <1>1. ASSUME NEW U \in SUBSET S, \A t \in SUBSET U : t # U => t \in A
        PROVE  U \in A
    <2> DEFINE g == [s \in SUBSET U |->
                      IF s = {} THEN 0 ELSE rows[First(s)].value + SumOver(rows, s \ {First(s)})]
    <2>1. ASSUME NEW t \in SUBSET U, t # U
          PROVE  g[t] = SumOver(rows, t)
      <3>1. PICK h : h = CHOOSE f : IsSum(f, rows, t)
        OBVIOUS
      <3>2. IsSum(h, rows, t) /\ SumOver(rows, t) = h[t]
        BY <1>1, <2>1, <3>1 DEF SumOver
      <3>3. h[t] = IF t = {} THEN 0 ELSE rows[First(t)].value + h[t \ {First(t)}]
        BY <3>2 DEF IsSum
      <3>4. ASSUME t # {} PROVE h[t \ {First(t)}] = SumOver(rows, t \ {First(t)})
        <4> DEFINE u == t \ {First(t)}
        <4>1. u \in SUBSET U /\ u # U /\ u \subseteq t
          BY <3>4, FirstIsIn
        <4>2. PICK f : f = CHOOSE x : IsSum(x, rows, u)
          OBVIOUS
        <4>3. IsSum(f, rows, u) /\ SumOver(rows, u) = f[u]
          BY <1>1, <4>1, <4>2 DEF SumOver
        <4>4. IsFiniteSet(u)
          BY FS_Subset
        <4> HIDE DEF u
        <4>5. h[u] = f[u]
          BY <3>2, <4>1, <4>3, <4>4, SumIsOne
        <4>6. QED BY <4>3, <4>5 DEF u
      <3>5. QED BY <3>2, <3>3, <3>4
    <2>2. ASSUME NEW s \in SUBSET U, s # {}
          PROVE  SumOver(rows, s \ {First(s)}) = g[s \ {First(s)}]
      <3>1. s \ {First(s)} \in SUBSET U /\ s \ {First(s)} # U
        BY <2>2, FirstIsIn
      <3>2. QED BY <2>1, <3>1
    <2>3. IsSum(g, rows, U)
      BY <2>2 DEF IsSum
    <2>4. QED BY <2>3
  <1> HIDE DEF A
  <1>2. S \in A
    BY <1>1, OfAllFiniteSets
  <1>3. QED BY <1>2 DEF A

\* How sums unfold.
LEMMA SumStep ==
  ASSUME NEW rows, NEW S, IsFiniteSet(S)
  PROVE  Traffic!Sum(rows, S) =
           IF S = {} THEN 0 ELSE rows[First(S)].value + Traffic!Sum(rows, S \ {First(S)})
  <1>1. PICK g : g = CHOOSE f : IsSum(f, rows, S)
    OBVIOUS
  <1>2. IsSum(g, rows, S) /\ SumOver(rows, S) = g[S]
    BY <1>1, SumExists DEF SumOver
  <1>3. SumOver(rows, S) = IF S = {} THEN 0 ELSE rows[First(S)].value + g[S \ {First(S)}]
    BY <1>2 DEF IsSum
  <1>4. ASSUME S # {} PROVE g[S \ {First(S)}] = SumOver(rows, S \ {First(S)})
    <2> DEFINE U == S \ {First(S)}
    <2>1. PICK f : f = CHOOSE x : IsSum(x, rows, U)
      OBVIOUS
    <2>2. U \subseteq S /\ IsFiniteSet(U)
      BY FS_Subset
    <2> HIDE DEF U
    <2>3. IsSum(f, rows, U) /\ SumOver(rows, U) = f[U]
      BY <2>1, <2>2, SumExists DEF SumOver
    <2>4. g[U] = f[U]
      BY <1>2, <2>2, <2>3, SumIsOne
    <2>5. QED BY <2>3, <2>4 DEF U
  <1>5. QED BY <1>3, <1>4, SumIsSum

\* Sums of natural values are natural.
LEMMA SumIsNat ==
  ASSUME NEW rows, NEW S, IsFiniteSet(S), \A i \in S : rows[i].value \in Nat
  PROVE  Traffic!Sum(rows, S) \in Nat
  <1> DEFINE A == {s \in SUBSET S : Traffic!Sum(rows, s) \in Nat}
  <1>1. ASSUME NEW s \in SUBSET S, \A t \in SUBSET s : t # s => t \in A
        PROVE  s \in A
    <2>1. IsFiniteSet(s)
      BY FS_Subset
    <2>2. s # {} => s \ {First(s)} \in A /\ rows[First(s)].value \in Nat
      BY <1>1, FirstIsIn
    <2>3. Traffic!Sum(rows, s) = IF s = {} THEN 0 ELSE rows[First(s)].value + Traffic!Sum(rows, s \ {First(s)})
      BY <2>1, SumStep
    <2>4. s # {} => Traffic!Sum(rows, s \ {First(s)}) \in Nat
      BY <2>2
    <2> HIDE DEF A
    <2>5. Traffic!Sum(rows, s) \in Nat
      BY <2>2, <2>3, <2>4
    <2>6. QED BY <2>5 DEF A
  <1> HIDE DEF A
  <1>2. S \in A
    BY <1>1, OfAllFiniteSets
  <1>3. QED BY <1>2 DEF A

\* Sums are over values alone.
LEMMA SumOfSame ==
  ASSUME NEW rows, NEW new, NEW S, IsFiniteSet(S), \A i \in S : new[i].value = rows[i].value
  PROVE  Traffic!Sum(new, S) = Traffic!Sum(rows, S)
  <1> DEFINE A == {s \in SUBSET S : Traffic!Sum(new, s) = Traffic!Sum(rows, s)}
  <1>1. ASSUME NEW s \in SUBSET S, \A t \in SUBSET s : t # s => t \in A
        PROVE  s \in A
    <2>1. IsFiniteSet(s)
      BY FS_Subset
    <2>2. s # {} => s \ {First(s)} \in A /\ new[First(s)].value = rows[First(s)].value
      BY <1>1, FirstIsIn
    <2>3. QED BY <2>1, <2>2, SumStep
  <1> HIDE DEF A
  <1>2. S \in A
    BY <1>1, OfAllFiniteSets
  <1>3. QED BY <1>2 DEF A

\* Any element may be taken out of a sum.
LEMMA SumTakesOut ==
  ASSUME NEW rows, NEW S, IsFiniteSet(S), \A i \in S : rows[i].value \in Nat, NEW x \in S
  PROVE  Traffic!Sum(rows, S) = rows[x].value + Traffic!Sum(rows, S \ {x})
  <1> DEFINE Out(s, y) == Traffic!Sum(rows, s) = rows[y].value + Traffic!Sum(rows, s \ {y})
             A == {s \in SUBSET S : \A y \in s : Out(s, y)}
  <1>1. ASSUME NEW s \in SUBSET S, \A t \in SUBSET s : t # s => t \in A
        PROVE  s \in A
    <2> SUFFICES ASSUME NEW y \in s PROVE Out(s, y)
      OBVIOUS
    <2> DEFINE f == First(s)
    <2>1. IsFiniteSet(s) /\ f \in s
      BY FS_Subset, FirstIsIn
    <2> HIDE DEF f
    <2>2. Traffic!Sum(rows, s) = rows[f].value + Traffic!Sum(rows, s \ {f})
      BY <2>1, SumStep DEF f
    <2>3. CASE y # f
      <3>1. Out(s \ {f}, y) /\ Out(s \ {y}, f)
        <4>1. s \ {f} \in A /\ s \ {y} \in A
          BY <1>1, <2>1
        <4>2. QED BY <2>1, <2>3, <4>1
      <3>2. (s \ {f}) \ {y} = (s \ {y}) \ {f}
        OBVIOUS
      <3>3. IsFiniteSet((s \ {f}) \ {y}) /\ \A i \in s : rows[i].value \in Nat
        BY FS_Subset
      <3>4. Traffic!Sum(rows, (s \ {f}) \ {y}) \in Nat
        BY <3>3, SumIsNat
      <3> DEFINE n == Traffic!Sum(rows, (s \ {f}) \ {y})
      <3>5. /\ Traffic!Sum(rows, s \ {f}) = rows[y].value + n
            /\ Traffic!Sum(rows, s \ {y}) = rows[f].value + n
        BY <3>1, <3>2
      <3>6. rows[y].value \in Nat /\ rows[f].value \in Nat /\ n \in Nat
        BY <2>1, <3>3, <3>4
      <3> HIDE DEF n
      <3>7. Traffic!Sum(rows, s) = rows[y].value + Traffic!Sum(rows, s \ {y})
        BY <2>2, <3>5, <3>6
      <3>8. QED BY <3>7
    <2>4. QED BY <2>2, <2>3
  <1> HIDE DEF A
  <1>2. S \in A
    BY <1>1, OfAllFiniteSets
  <1>3. QED BY <1>2 DEF A

\* The sum over two sets that are apart is the sum of both.
LEMMA SumOfBoth ==
  ASSUME NEW rows, NEW S, NEW T, IsFiniteSet(S), IsFiniteSet(T), S \cap T = {},
         \A i \in S \cup T : rows[i].value \in Nat
  PROVE  Traffic!Sum(rows, S \cup T) = Traffic!Sum(rows, S) + Traffic!Sum(rows, T)
  <1> DEFINE Both(t) == Traffic!Sum(rows, S \cup t) = Traffic!Sum(rows, S) + Traffic!Sum(rows, t)
             A == {t \in SUBSET T : Both(t)}
  <1>1. ASSUME NEW t \in SUBSET T, \A u \in SUBSET t : u # t => u \in A
        PROVE  t \in A
    <2> SUFFICES Both(t)
      OBVIOUS
    <2>1. IsFiniteSet(t) /\ IsFiniteSet(S \cup t)
      BY FS_Subset, FS_Union
    <2>2. Traffic!Sum(rows, S) \in Nat
      BY SumIsNat
    <2>3. CASE t = {}
      <3>1. S \cup t = S /\ Traffic!Sum(rows, t) = 0
        BY <2>1, <2>3, SumStep
      <3>2. Traffic!Sum(rows, S \cup t) = Traffic!Sum(rows, S)
        BY <3>1
      <3> DEFINE n == Traffic!Sum(rows, S)
      <3> HIDE DEF n
      <3>3. n = n + 0
        BY <2>2 DEF n
      <3>4. QED BY <3>1, <3>2, <3>3 DEF n
    <2>4. CASE t # {}
      <3>1. PICK x \in t : TRUE
        BY <2>4
      <3>2. Both(t \ {x})
        BY <1>1, <3>1
      <3>3. (S \cup t) \ {x} = S \cup (t \ {x})
        BY <3>1
      <3>4. Traffic!Sum(rows, S \cup t) = rows[x].value + Traffic!Sum(rows, (S \cup t) \ {x})
        BY <2>1, <3>1, SumTakesOut
      <3>5. Traffic!Sum(rows, t) = rows[x].value + Traffic!Sum(rows, t \ {x})
        BY <2>1, <3>1, SumTakesOut
      <3>6. IsFiniteSet(t \ {x})
        BY <2>1, FS_Subset
      <3>7. Traffic!Sum(rows, t \ {x}) \in Nat /\ rows[x].value \in Nat
        BY <3>1, <3>6, SumIsNat
      <3>8. Traffic!Sum(rows, S \cup (t \ {x})) = Traffic!Sum(rows, S) + Traffic!Sum(rows, t \ {x})
        BY <3>2
      <3> DEFINE a == Traffic!Sum(rows, S)
                 b == Traffic!Sum(rows, t \ {x})
                 v == rows[x].value
      <3>9. Traffic!Sum(rows, S \cup t) = v + (a + b)
        BY <3>3, <3>4, <3>8
      <3>10. a \in Nat /\ b \in Nat /\ v \in Nat /\ Traffic!Sum(rows, t) = v + b
        BY <2>2, <3>5, <3>7
      <3> HIDE DEF a, b, v
      <3>11. Traffic!Sum(rows, S \cup t) = a + Traffic!Sum(rows, t)
        BY <3>9, <3>10
      <3>12. QED BY <3>11 DEF a
    <2>5. QED BY <2>3, <2>4
  <1> HIDE DEF A
  <1>2. T \in A
    BY <1>1, OfAllFiniteSets
  <1>3. QED BY <1>2 DEF A

\* The rows of a month.
OfMonth(rows, month) ==
  {i \in Traffic!Present(rows) : Traffic!MonthOf(rows[i].created_at) = month}

\* Of rows there are some that follow all others.
LEMMA LastOfMonth ==
  ASSUME Traffic!Assumption, NEW n \in Nat, NEW rows, NEW U \in SUBSET (1 .. n), U # {},
         \A i \in U : rows[i].created_at \in Traffic!Times
  PROVE  \E k \in U : /\ ~\E j \in U : Traffic!Follows(rows, j, k)
                      /\ \A i \in U \ {k} : Traffic!Follows(rows, k, i)
  <1> DEFINE T == {rows[i].created_at : i \in U}
  <1>1. MaxTime \in Nat /\ T \in SUBSET (0 .. MaxTime) /\ T # {}
    BY DEF Traffic!Assumption, Traffic!Times
  <1>2. PICK t \in T : \A x \in T : x <= t
    <2> HIDE DEF T
    <2>1. QED BY <1>1, GreatestExists
  <1> DEFINE R == {i \in U : rows[i].created_at = t}
  <1>3. R \in SUBSET (0 .. n) /\ R # {}
    <2>1. \A i \in U : i \in 0 .. n
      OBVIOUS
    <2>2. \E i \in U : rows[i].created_at = t
      BY <1>2
    <2>3. QED BY <2>1, <2>2
  <1>4. PICK k \in R : \A x \in R : x <= k
    <2> HIDE DEF R
    <2>1. QED BY <1>3, GreatestExists
  <1>5. /\ k \in U /\ rows[k].created_at = t
        /\ \A i \in U : rows[i].created_at <= t /\ (rows[i].created_at = t => i <= k)
    <2>1. k \in U /\ rows[k].created_at = t
      BY <1>4
    <2>2. ASSUME NEW i \in U PROVE rows[i].created_at <= t /\ (rows[i].created_at = t => i <= k)
      <3>1. rows[i].created_at \in T /\ (rows[i].created_at = t => i \in R)
        OBVIOUS
      <3> HIDE DEF T, R
      <3>2. QED BY <1>2, <1>4, <3>1
    <2>3. QED BY <2>1, <2>2
  <1>6. \A i \in U : i \in Nat /\ rows[i].created_at \in Int
    BY DEF Traffic!Times
  <1>7. t \in Int /\ k \in Int
    BY <1>5, <1>6
  <1> HIDE DEF T, R
  <1>8. ASSUME NEW i \in U
        PROVE  ~Traffic!Follows(rows, i, k) /\ (i # k => Traffic!Follows(rows, k, i))
    <2> DEFINE c == rows[i].created_at
    <2>1. /\ t \in Int /\ k \in Int /\ i \in Int /\ c \in Int
          /\ rows[k].created_at = t /\ c <= t /\ (c = t => i <= k)
      BY <1>5, <1>6, <1>7
    <2>2. /\ Traffic!Follows(rows, i, k) <=> c > t \/ (c = t /\ i > k)
          /\ Traffic!Follows(rows, k, i) <=> t > c \/ (t = c /\ k > i)
      BY <2>1 DEF Traffic!Follows
    <2> HIDE DEF c
    <2>3. QED BY <2>1, <2>2
  <1>9. QED
    BY <1>5, <1>8

\* The use of a month stays when some of its rows become one of them, with their sum.
LEMMA SumOfMonth ==
  ASSUME NEW n \in Nat, NEW rows, NEW new, NEW month, DOMAIN rows = 1 .. n, DOMAIN new = 1 .. n,
         \A i \in 1 .. n : rows[i].value \in Nat,
         NEW U \in SUBSET OfMonth(rows, month), NEW k \in U,
         k \in OfMonth(new, month), new[k].value = Traffic!Sum(rows, U),
         \A i \in U \ {k} : i \notin OfMonth(new, month),
         \A i \in (1 .. n) \ U : /\ i \in OfMonth(new, month) <=> i \in OfMonth(rows, month)
                                 /\ i \in OfMonth(rows, month) => new[i].value = rows[i].value
  PROVE  Traffic!Usage(new, month) = Traffic!Usage(rows, month)
  <1> DEFINE O == OfMonth(rows, month) \ U
  <1>1. OfMonth(rows, month) \subseteq 1 .. n /\ OfMonth(new, month) \subseteq 1 .. n
    BY DEF OfMonth, Traffic!Present
  <1>2. /\ OfMonth(rows, month) = O \cup U /\ OfMonth(new, month) = O \cup {k}
        /\ O \cap U = {} /\ k \notin O
    BY <1>1
  <1>3. IsFiniteSet(O) /\ IsFiniteSet(U) /\ IsFiniteSet({k}) /\ IsFiniteSet({})
    <2>1. IsFiniteSet(1 .. n)
      BY FS_Interval
    <2>2. O \subseteq 1 .. n /\ U \subseteq 1 .. n /\ {k} \subseteq 1 .. n /\ {} \subseteq 1 .. n
      BY <1>1
    <2> HIDE DEF O
    <2>3. QED BY <2>1, <2>2, FS_Subset
  <1>4. \A i \in O : new[i].value = rows[i].value /\ rows[i].value \in Nat
    BY <1>1
  <1>5. \A i \in O \cup U : rows[i].value \in Nat
    BY <1>1
  <1> HIDE DEF O
  <1>6. Traffic!Sum(rows, U) \in Nat
    <2>1. \A i \in U : rows[i].value \in Nat
      BY <1>5
    <2>2. QED BY <1>3, <2>1, SumIsNat
  <1>7. \A i \in O \cup {k} : new[i].value \in Nat
    BY <1>4, <1>6
  <1>8. Traffic!Sum(new, {k}) = Traffic!Sum(rows, U)
    <2>1. {k} \ {k} = {}
      OBVIOUS
    <2>2. Traffic!Sum(new, {k}) = new[k].value + Traffic!Sum(new, {k} \ {k})
      BY <1>3, <1>7, SumTakesOut
    <2>3. Traffic!Sum(new, {}) = 0
      BY <1>3, SumStep
    <2> DEFINE u == Traffic!Sum(rows, U)
    <2>4. Traffic!Sum(new, {k}) = u + 0 /\ u \in Nat
      BY <1>6, <2>1, <2>2, <2>3
    <2> HIDE DEF u
    <2>5. Traffic!Sum(new, {k}) = u
      BY <2>4
    <2>6. QED BY <2>5 DEF u
  <1>9. Traffic!Sum(new, O) = Traffic!Sum(rows, O)
    BY <1>3, <1>4, SumOfSame
  <1>10. Traffic!Sum(rows, O \cup U) = Traffic!Sum(rows, O) + Traffic!Sum(rows, U)
    BY <1>2, <1>3, <1>5, SumOfBoth
  <1>11. Traffic!Sum(new, O \cup {k}) = Traffic!Sum(new, O) + Traffic!Sum(new, {k})
    <2>1. O \cap {k} = {}
      BY <1>2
    <2>2. QED BY <1>3, <1>7, <2>1, SumOfBoth
  <1>12. Traffic!Sum(new, OfMonth(new, month)) = Traffic!Sum(rows, OfMonth(rows, month))
    BY <1>2, <1>8, <1>9, <1>10, <1>11
  <1>13. QED
    BY <1>12 DEF Traffic!Usage, OfMonth

\* What aggregating old data makes of the rows of an object.
LEMMA CleanupRows ==
  ASSUME DataTypes, Traffic!Cleanup, NEW o \in Objects
  PROVE  \E last :
           /\ DOMAIN data'[o] = DOMAIN data[o]
           /\ \A i \in DOMAIN data[o] :
                data'[o][i] = IF Traffic!IsSummed(o, i, last)
                              THEN Traffic!Aggregate(data[o], Traffic!OldOfMonth(o, i), i)
                              ELSE data[o][i]
  <1>1. PICK last : data' = [q \in Objects |-> [i \in DOMAIN data[q] |->
          IF Traffic!IsSummed(q, i, last)
          THEN Traffic!Aggregate(data[q], Traffic!OldOfMonth(q, i), i) ELSE data[q][i]]]
    BY DEF Traffic!Cleanup
  <1>2. data'[o] = [i \in DOMAIN data[o] |->
          IF Traffic!IsSummed(o, i, last)
          THEN Traffic!Aggregate(data[o], Traffic!OldOfMonth(o, i), i) ELSE data[o][i]]
    BY <1>1
  <1>3. QED
    BY <1>2

\* Aggregating old data changes the use of no month.
LEMMA CleanupKeepsSums ==
  ASSUME Traffic!Assumption, DataTypes, ValuesAreNatural, Traffic!Cleanup,
         NEW o \in Objects, NEW month
  PROVE  Traffic!Usage(data'[o], month) = Traffic!Usage(data[o], month)
  <1> DEFINE rows == data[o]
             new == data'[o]
             n == Len(data[o])
             U == {i \in Traffic!OldRows(o) : Traffic!MonthOf(rows[i].created_at) = month}
  <1>1. PICK last :
          /\ DOMAIN new = DOMAIN rows
          /\ \A i \in DOMAIN rows :
               new[i] = IF Traffic!IsSummed(o, i, last)
                        THEN Traffic!Aggregate(rows, Traffic!OldOfMonth(o, i), i) ELSE rows[i]
    BY CleanupRows
  <1>2. n \in Nat /\ DOMAIN rows = 1 .. n /\ \A i \in 1 .. n : rows[i].created_at \in Traffic!Times
    BY RowType
  <1>3. \A i \in 1 .. n : rows[i].value \in Nat
    BY <1>2 DEF ValuesAreNatural
  <1>4. U \subseteq OfMonth(rows, month) /\ OfMonth(rows, month) \subseteq 1 .. n
    BY <1>2 DEF OfMonth, Traffic!OldRows, Traffic!Present
  <1>5. \A i \in U : Traffic!OldOfMonth(o, i) = U
    BY DEF Traffic!OldOfMonth
  <1>6. \A i, j \in U : Traffic!IsSummed(o, i, last) => Traffic!IsSummed(o, j, last)
    <2> SUFFICES ASSUME NEW i \in U, NEW j \in U, Traffic!IsSummed(o, i, last)
                 PROVE  Traffic!IsSummed(o, j, last)
      OBVIOUS
    <2>1. /\ Traffic!MonthOf(data[o][i].created_at) = month
          /\ Traffic!MonthOf(data[o][j].created_at) = month /\ j \in Traffic!OldRows(o)
      OBVIOUS
    <2>2. QED BY <2>1 DEF Traffic!IsSummed
  <1>7. ASSUME NEW i \in 1 .. n, i \notin U
        PROVE  /\ i \in OfMonth(new, month) <=> i \in OfMonth(rows, month)
               /\ i \in OfMonth(rows, month) => new[i].value = rows[i].value
    <2>1. CASE Traffic!IsSummed(o, i, last)
      <3>1. i \in Traffic!OldRows(o) /\ Traffic!MonthOf(rows[i].created_at) # month
        BY <1>7, <2>1 DEF Traffic!IsSummed
      <3>2. new[i].there = FALSE \/ new[i].created_at = rows[i].created_at
        <4> DEFINE some == Traffic!OldOfMonth(o, i)
        <4>1. new[i] = Traffic!Aggregate(rows, some, i)
          BY <1>1, <1>2, <2>1
        <4> HIDE DEF new, rows, some
        <4>2. \/ new[i] = [created_at |-> 0, value |-> 0, there |-> FALSE]
              \/ new[i] = [created_at |-> rows[i].created_at, value |-> Traffic!Sum(rows, some),
                           there |-> TRUE]
          BY <4>1 DEF Traffic!Aggregate, Traffic!Deleted
        <4>3. QED BY <4>2
      <3>3. i \notin OfMonth(new, month) /\ i \notin OfMonth(rows, month)
        BY <3>1, <3>2 DEF OfMonth, Traffic!Present
      <3>4. QED BY <3>3
    <2>2. CASE ~Traffic!IsSummed(o, i, last)
      BY <1>1, <1>2, <2>2 DEF OfMonth, Traffic!Present
    <2>3. QED BY <2>1, <2>2
  <1>8. CASE \E i \in U : Traffic!IsSummed(o, i, last)
    <2>1. \A i \in U : new[i] = Traffic!Aggregate(rows, U, i)
      BY <1>1, <1>2, <1>4, <1>5, <1>6, <1>8
    <2>2. PICK k \in U : /\ ~\E j \in U : Traffic!Follows(rows, j, k)
                         /\ \A i \in U \ {k} : Traffic!Follows(rows, k, i)
      <3>1. U \in SUBSET (1 .. n) /\ U # {} /\ \A i \in U : rows[i].created_at \in Traffic!Times
        BY <1>2, <1>4, <1>8
      <3> HIDE DEF U, rows, n
      <3>2. QED BY <1>2, <3>1, LastOfMonth
    <2>3. /\ new[k].created_at = rows[k].created_at /\ new[k].there
          /\ new[k].value = Traffic!Sum(rows, U)
      <3>1. new[k] = [created_at |-> rows[k].created_at, value |-> Traffic!Sum(rows, U),
                      there |-> TRUE]
        <4> HIDE DEF U, rows, new
        <4>1. QED BY <2>1, <2>2 DEF Traffic!Aggregate
      <3> HIDE DEF U, rows, new
      <3>2. QED BY <3>1
    <2>4. k \in OfMonth(new, month)
      BY <1>1, <1>2, <1>4, <2>3 DEF OfMonth, Traffic!Present
    <2>5. ASSUME NEW i \in U \ {k} PROVE i \notin OfMonth(new, month)
      <3>1. new[i] = Traffic!Deleted
        BY <2>1, <2>2 DEF Traffic!Aggregate
      <3>2. QED BY <3>1 DEF Traffic!Deleted, OfMonth, Traffic!Present
    <2> HIDE DEF U, rows, new, n
    <2>6. /\ DOMAIN new = 1 .. n /\ U \in SUBSET OfMonth(rows, month)
          /\ new[k].value = Traffic!Sum(rows, U)
      BY <1>1, <1>2, <1>4, <2>3
    <2>7. \A i \in (1 .. n) \ U : /\ i \in OfMonth(new, month) <=> i \in OfMonth(rows, month)
                                  /\ i \in OfMonth(rows, month) => new[i].value = rows[i].value
      BY <1>7
    <2>8. Traffic!Usage(new, month) = Traffic!Usage(rows, month)
      BY <1>2, <1>3, <2>4, <2>5, <2>6, <2>7, SumOfMonth
    <2>9. QED BY <2>8 DEF new, rows
  <1>9. CASE ~\E i \in U : Traffic!IsSummed(o, i, last)
    <2>1. \A i \in U : new[i] = rows[i]
      BY <1>1, <1>2, <1>4, <1>9
    <2>2. OfMonth(new, month) \subseteq 1 .. n
      BY <1>1, <1>2 DEF OfMonth, Traffic!Present
    <2>3. \A i \in U : i \in OfMonth(new, month)
      BY <1>1, <1>2, <1>4, <2>1 DEF OfMonth, Traffic!Present
    <2>4. OfMonth(new, month) = OfMonth(rows, month)
      BY <1>4, <1>7, <2>2, <2>3
    <2>5. \A i \in OfMonth(rows, month) : new[i].value = rows[i].value
      BY <1>4, <1>7, <2>1
    <2>6. IsFiniteSet(OfMonth(rows, month))
      <3>1. IsFiniteSet(1 .. n)
        BY <1>2, FS_Interval
      <3> HIDE DEF U, n
      <3>2. QED BY <1>4, <3>1, FS_Subset
    <2> HIDE DEF U, rows, new, n
    <2>7. Traffic!Sum(new, OfMonth(new, month)) = Traffic!Sum(rows, OfMonth(rows, month))
      BY <2>4, <2>5, <2>6, SumOfSame
    <2>8. Traffic!Usage(new, month) = Traffic!Usage(rows, month)
      BY <2>7 DEF Traffic!Usage, OfMonth
    <2>9. QED BY <2>8 DEF new, rows
  <1>10. QED
    BY <1>8, <1>9

\* What storing a line of output adds is a row, and lines that were counted if it has a value.
LEMMA StoreAddsRow ==
  ASSUME Traffic!Assumption, TrafficInv, NEW m \in Monitorings, Traffic!Store(m)
  PROVE  \E o \in Objects, t \in Traffic!Times, v \in Nat :
           /\ data' = [data EXCEPT ![o] =
                Append(data[o], [created_at |-> t, value |-> v, there |-> TRUE])]
           /\ v # 0 => counted' # counted
  <1> DEFINE w == window[m]
  <1>1. PICK o \in output[m] :
          /\ o \in Objects /\ w.end \in Traffic!Times
          /\ w.value[o] \subseteq Traffic!Times /\ w.again[o] \subseteq w.value[o]
          /\ data' = [data EXCEPT ![o] = Append(data[o],
               [created_at |-> w.end,
                value |-> Traffic!Cardinality(w.value[o]) + Traffic!Cardinality(w.again[o]),
                there |-> TRUE])]
          /\ counted' = [counted EXCEPT ![o] = [t \in Traffic!Times |->
               counted[o][t] + (IF t \in w.value[o] THEN 1 ELSE 0)
                             + (IF t \in w.again[o] THEN 1 ELSE 0)]]
    BY StoreEffect, Zenon DEF TrafficInv
  <1> HIDE DEF w
  <1>2. PICK t \in Traffic!Times, lines \in SUBSET Traffic!Times, again \in SUBSET Traffic!Times :
          /\ again \subseteq lines
          /\ data' = [data EXCEPT ![o] = Append(data[o],
               [created_at |-> t,
                value |-> Traffic!Cardinality(lines) + Traffic!Cardinality(again),
                there |-> TRUE])]
          /\ counted' = [counted EXCEPT ![o] = [x \in Traffic!Times |->
               counted[o][x] + (IF x \in lines THEN 1 ELSE 0) + (IF x \in again THEN 1 ELSE 0)]]
    BY <1>1
  <1>3. /\ o \in Objects /\ Traffic!Cardinality(lines) = Cardinality(lines)
        /\ Traffic!Cardinality(again) = Cardinality(again)
    BY <1>1 DEF Traffic!Cardinality, Cardinality
  <1>4. IsFiniteSet(Traffic!Times)
    <2>1. IsFiniteSet(0 .. MaxTime)
      BY FS_Interval DEF Traffic!Assumption
    <2>2. QED BY <2>1 DEF Traffic!Times
  <1>5. IsFiniteSet(lines) /\ IsFiniteSet(again)
    BY <1>4, FS_Subset
  <1> DEFINE v == Traffic!Cardinality(lines) + Traffic!Cardinality(again)
  <1>6. v \in Nat
    BY <1>3, <1>5, FS_CardinalityType
  <1>7. ASSUME v # 0 PROVE counted' # counted
    <2>1. PICK x \in lines : TRUE
      <3>1. CASE lines = {}
        <4>1. again = {} /\ Cardinality(lines) = 0 /\ Cardinality(again) = 0
          BY <1>2, <3>1, FS_EmptySet
        <4>2. QED BY <1>3, <1>7, <4>1
      <3>2. QED BY <3>1
    <2>2. counted \in [Objects -> [Traffic!Times -> Nat]]
      BY DEF TrafficInv, TrafficTypes
    <2>3. /\ counted'[o][x] = counted[o][x] + 1 + (IF x \in again THEN 1 ELSE 0)
          /\ counted[o][x] \in Nat
      BY <1>2, <1>3, <2>1, <2>2
    <2>4. counted'[o][x] # counted[o][x]
      BY <2>3
    <2>5. QED BY <2>4
  <1>8. QED
    BY <1>2, <1>3, <1>6, <1>7

\* A row adds its value to the use of its month, and nothing to that of others.
LEMMA RowAddsUp ==
  ASSUME NEW n \in Nat, NEW rows, NEW new, NEW month, DOMAIN rows = 1 .. n,
         DOMAIN new = 1 .. n + 1, \A i \in 1 .. n : new[i] = rows[i],
         \A i \in 1 .. n : rows[i].value \in Nat, new[n + 1].value \in Nat
  PROVE  \/ Traffic!Usage(new, month) = Traffic!Usage(rows, month)
         \/ /\ Traffic!Usage(new, month) > Traffic!Usage(rows, month)
            /\ new[n + 1].value # 0
  <1> DEFINE O == OfMonth(rows, month)
             k == n + 1
             v == new[k].value
  <1>1. O \subseteq 1 .. n /\ OfMonth(new, month) \subseteq 1 .. n + 1
    BY DEF OfMonth, Traffic!Present
  <1>2. \A i \in 1 .. n : i \in 1 .. n + 1 /\ (i \in OfMonth(new, month) <=> i \in O)
    BY DEF OfMonth, Traffic!Present
  <1>3. k \notin 1 .. n /\ \A i \in 1 .. n + 1 : i \in 1 .. n \/ i = k
    OBVIOUS
  <1>4. OfMonth(new, month) = O \/ OfMonth(new, month) = O \cup {k}
    <2> HIDE DEF O, k
    <2>1. QED BY <1>1, <1>2, <1>3
  <1>5. IsFiniteSet(O) /\ IsFiniteSet({k}) /\ IsFiniteSet({})
    <2>1. IsFiniteSet(1 .. n)
      BY FS_Interval
    <2> HIDE DEF O, k
    <2>2. QED BY <1>1, <2>1, FS_Subset, FS_Singleton, FS_EmptySet
  <1>6. \A i \in O : new[i].value = rows[i].value /\ new[i].value \in Nat
    BY <1>1
  <1> HIDE DEF O, k
  <1>7. Traffic!Sum(new, O) = Traffic!Sum(rows, O) /\ Traffic!Sum(new, O) \in Nat
    BY <1>5, <1>6, SumOfSame, SumIsNat
  <1>8. Traffic!Sum(new, O \cup {k}) = Traffic!Sum(new, O) + Traffic!Sum(new, {k})
    <2>1. O \cap {k} = {} /\ \A i \in O \cup {k} : new[i].value \in Nat
      BY <1>1, <1>3, <1>6 DEF k
    <2>2. QED BY <1>5, <2>1, SumOfBoth
  <1>9. Traffic!Sum(new, {k}) = v
    <2>1. {k} \ {k} = {} /\ \A i \in {k} : new[i].value \in Nat
      BY DEF k
    <2>2. Traffic!Sum(new, {k}) = new[k].value + Traffic!Sum(new, {k} \ {k})
      BY <1>5, <2>1, SumTakesOut
    <2>3. Traffic!Sum(new, {}) = 0
      BY <1>5, SumStep
    <2>4. Traffic!Sum(new, {k}) = v + 0 /\ v \in Nat
      BY <2>1, <2>2, <2>3
    <2> HIDE DEF v
    <2>5. QED BY <2>4
  <1>10. Traffic!Usage(rows, month) = Traffic!Sum(rows, O)
    BY DEF Traffic!Usage, OfMonth, O
  <1>11. Traffic!Usage(new, month) = Traffic!Sum(new, OfMonth(new, month))
    BY DEF Traffic!Usage, OfMonth
  <1> DEFINE s == Traffic!Sum(rows, O)
  <1>12. Traffic!Usage(new, month) = s \/ Traffic!Usage(new, month) = s + v
    BY <1>4, <1>7, <1>8, <1>9, <1>11
  <1>13. s \in Nat /\ v \in Nat /\ Traffic!Usage(rows, month) = s
    BY <1>7, <1>10 DEF k
  <1> HIDE DEF s, v
  <1>14. \/ Traffic!Usage(new, month) = Traffic!Usage(rows, month)
         \/ Traffic!Usage(new, month) > Traffic!Usage(rows, month) /\ v # 0
    BY <1>12, <1>13
  <1>15. QED
    BY <1>14 DEF v, k

\* What changes data.
LEMMA DataChanges ==
  ASSUME [Traffic!Next]_(Traffic!vars)
  PROVE  data' = data \/ Traffic!Cleanup \/ \E m \in Monitorings : Traffic!Store(m)
  BY DEF Traffic!Next, Traffic!vars, Traffic!Tick, Traffic!Rotate, Traffic!LockExpires,
     Traffic!Monitor, Traffic!MonitorObject, Traffic!Generates, Traffic!Reads,
     Traffic!Execute, Traffic!ScriptFails,
     Traffic!StoreRaises, Traffic!Update, Traffic!Crash, Traffic!time, Traffic!history

\* What a row that is added makes of the rows of an object.
LEMMA AppendedRow ==
  ASSUME DataTypes, NEW o \in Objects, NEW row
  PROVE  /\ DOMAIN Append(data[o], row) = 1 .. Len(data[o]) + 1
         /\ \A i \in 1 .. Len(data[o]) : Append(data[o], row)[i] = data[o][i]
         /\ Append(data[o], row)[Len(data[o]) + 1] = row
  <1>1. PICK V : data \in [Objects -> Seq(RowsWith(V))]
    BY DEF DataTypes
  <1>2. PICK W : data[o] \in Seq(W) /\ row \in W
    <2>1. data[o] \in Seq(RowsWith(V) \cup {row})
      BY <1>1
    <2>2. QED BY <2>1
  <1>3. QED
    BY <1>2

\* The values of rows are natural numbers.
LEMMA ValuesStep ==
  ASSUME Traffic!Assumption, TrafficInv, ValuesAreNatural, [Traffic!Next]_(Traffic!vars)
  PROVE  ValuesAreNatural'
  <1>1. CASE data' = data
    BY <1>1 DEF ValuesAreNatural
  <1>2. CASE Traffic!Cleanup
    <2> SUFFICES ASSUME NEW o \in Objects, NEW i \in DOMAIN data'[o]
                 PROVE  data'[o][i].value \in Nat
      BY DEF ValuesAreNatural
    <2>1. PICK last :
            /\ DOMAIN data'[o] = DOMAIN data[o]
            /\ \A j \in DOMAIN data[o] :
                 data'[o][j] = IF Traffic!IsSummed(o, j, last)
                               THEN Traffic!Aggregate(data[o], Traffic!OldOfMonth(o, j), j)
                               ELSE data[o][j]
      BY <1>2, CleanupRows DEF TrafficInv
    <2> DEFINE U == Traffic!OldOfMonth(o, i)
    <2>2. Traffic!Sum(data[o], U) \in Nat
      <3>1. U \subseteq DOMAIN data[o] /\ \A j \in DOMAIN data[o] : data[o][j].value \in Nat
        BY DEF Traffic!OldOfMonth, Traffic!OldRows, Traffic!Present, ValuesAreNatural
      <3>2. IsFiniteSet(DOMAIN data[o])
        <4>1. Len(data[o]) \in Nat /\ DOMAIN data[o] = 1 .. Len(data[o])
          BY RowType DEF TrafficInv
        <4>2. IsFiniteSet(1 .. Len(data[o]))
          BY <4>1, FS_Interval
        <4>3. QED BY <4>1, <4>2
      <3> HIDE DEF U
      <3>3. IsFiniteSet(U) /\ \A j \in U : data[o][j].value \in Nat
        BY <3>1, <3>2, FS_Subset
      <3>4. QED BY <3>3, SumIsNat
    <2>3. \/ data'[o][i] = data[o][i]
          \/ data'[o][i] = [created_at |-> 0, value |-> 0, there |-> FALSE]
          \/ data'[o][i] = [created_at |-> data[o][i].created_at,
                            value |-> Traffic!Sum(data[o], U), there |-> TRUE]
      <3>1. data'[o][i] = data[o][i] \/ data'[o][i] = Traffic!Aggregate(data[o], U, i)
        BY <2>1
      <3> HIDE DEF U
      <3>2. QED BY <3>1 DEF Traffic!Aggregate, Traffic!Deleted
    <2>4. data[o][i].value \in Nat
      BY <2>1 DEF ValuesAreNatural
    <2> HIDE DEF U
    <2>5. QED BY <2>2, <2>3, <2>4
  <1>3. ASSUME NEW m \in Monitorings, Traffic!Store(m)
        PROVE  ValuesAreNatural'
    <2>1. PICK o \in Objects, t \in Traffic!Times, v \in Nat :
            data' = [data EXCEPT ![o] =
              Append(data[o], [created_at |-> t, value |-> v, there |-> TRUE])]
      BY <1>3, StoreAddsRow
    <2> SUFFICES ASSUME NEW q \in Objects, NEW i \in DOMAIN data'[q]
                 PROVE  data'[q][i].value \in Nat
      BY DEF ValuesAreNatural
    <2> DEFINE row == [created_at |-> t, value |-> v, there |-> TRUE]
               n == Len(data[o])
    <2>2. DOMAIN data = Objects
      BY DEF TrafficInv, DataTypes
    <2>3. CASE q # o
      BY <2>1, <2>2, <2>3 DEF ValuesAreNatural
    <2>4. CASE q = o
      <3>1. /\ data'[q] = Append(data[o], row) /\ row.value = v
            /\ n \in Nat /\ DOMAIN data[o] = 1 .. n
        BY <2>1, <2>2, <2>4, RowType DEF TrafficInv
      <3>2. /\ DOMAIN data'[q] = 1 .. n + 1 /\ data'[q][n + 1] = row
            /\ \A j \in 1 .. n : data'[q][j] = data[o][j]
        BY <3>1, AppendedRow DEF TrafficInv
      <3>3. i \in 1 .. n \/ i = n + 1
        BY <3>1, <3>2
      <3>4. \A j \in 1 .. n : data[o][j].value \in Nat
        BY <3>1 DEF ValuesAreNatural
      <3> HIDE DEF row, n
      <3>5. QED BY <3>1, <3>2, <3>3, <3>4
    <2>5. QED BY <2>3, <2>4
  <1>4. QED
    BY <1>1, <1>2, <1>3, DataChanges

\* The use of a month grows with what is counted, and is the same otherwise.
LEMMA SumsStep ==
  ASSUME Traffic!Assumption, TrafficInv, ValuesAreNatural, [Traffic!Next]_(Traffic!vars),
         NEW o \in Objects, NEW month
  PROVE  \/ Traffic!Usage(data'[o], month) = Traffic!Usage(data[o], month)
         \/ /\ counted' # counted
            /\ Traffic!Usage(data'[o], month) > Traffic!Usage(data[o], month)
  <1>1. CASE data' = data
    BY <1>1
  <1>2. CASE Traffic!Cleanup
    BY <1>2, CleanupKeepsSums DEF TrafficInv
  <1>3. ASSUME NEW m \in Monitorings, Traffic!Store(m)
        PROVE  \/ Traffic!Usage(data'[o], month) = Traffic!Usage(data[o], month)
               \/ /\ counted' # counted
                  /\ Traffic!Usage(data'[o], month) > Traffic!Usage(data[o], month)
    <2>1. PICK q \in Objects, t \in Traffic!Times, v \in Nat :
            /\ data' = [data EXCEPT ![q] =
                 Append(data[q], [created_at |-> t, value |-> v, there |-> TRUE])]
            /\ v # 0 => counted' # counted
      BY <1>3, StoreAddsRow
    <2>2. DOMAIN data = Objects
      BY DEF TrafficInv, DataTypes
    <2>3. CASE q # o
      BY <2>1, <2>2, <2>3
    <2>4. CASE q = o
      <3> DEFINE row == [created_at |-> t, value |-> v, there |-> TRUE]
                 n == Len(data[o])
                 rows == data[o]
                 new == data'[o]
      <3>1. /\ new = Append(rows, row) /\ row.value = v
            /\ n \in Nat /\ DOMAIN rows = 1 .. n
        BY <2>1, <2>2, <2>4, RowType DEF TrafficInv
      <3>2. DOMAIN new = 1 .. n + 1 /\ new[n + 1] = row /\ \A j \in 1 .. n : new[j] = rows[j]
        BY <3>1, AppendedRow DEF TrafficInv
      <3>3. \A j \in 1 .. n : rows[j].value \in Nat
        BY <3>1 DEF ValuesAreNatural
      <3> HIDE DEF row, n, rows, new
      <3>4. \/ Traffic!Usage(new, month) = Traffic!Usage(rows, month)
            \/ Traffic!Usage(new, month) > Traffic!Usage(rows, month) /\ v # 0
        BY <3>1, <3>2, <3>3, RowAddsUp
      <3>5. QED BY <2>1, <3>4 DEF rows, new
    <2>5. QED BY <2>3, <2>4
  <1>4. QED
    BY <1>1, <1>2, <1>3, DataChanges

\* Aggregating old data, which deletes rows and changes others, changes the use of no
\* month, and nothing but what is counted adds to it (monthly_sum_old_values, MonthlySum
\* and MonitorData.store of resources).
THEOREM UsageIsKept ==
  ASSUME Traffic!Assumption
  PROVE  Traffic!Spec => SumsAreKept
  <1>1. Traffic!Init => ValuesAreNatural
    BY DEF Traffic!Init, ValuesAreNatural
  <1>2. TrafficInv /\ ValuesAreNatural /\ [Traffic!Next]_(Traffic!vars) => ValuesAreNatural'
    BY ValuesStep
  <1> DEFINE Kept ==
        \A o \in Objects, month \in 0 .. Traffic!MonthOf(MaxTime) :
          LET before == Traffic!Usage(data[o], month) IN
          \/ Traffic!Usage(data'[o], month) = before
          \/ counted' # counted /\ Traffic!Usage(data'[o], month) > before
  <1>3. TrafficInv /\ ValuesAreNatural /\ [Traffic!Next]_(Traffic!vars) => [Kept]_(Traffic!vars)
    BY SumsStep
  <1>4. QED
    BY <1>1, <1>2, <1>3, TrafficInvariant, PTL DEF Traffic!Spec, SumsAreKept, Traffic!SumsAreKept
================================================================================
