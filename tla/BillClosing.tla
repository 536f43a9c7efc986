------------------------------ MODULE BillClosing ------------------------------
(***************************************************************************)
(* The life of a bill of one type (orchestra.contrib.bills): its lines are *)
(* edited and added by the billing of orders while it is open, and closing *)
(* it numbers it and creates the transaction that charges its total.       *)
(*                                                                         *)
(* Each request reads first and writes later, in a database transaction at *)
(* the isolation level READ COMMITTED: what others commit in between is    *)
(* not seen by what it read already.  No row is locked for it.             *)
(***************************************************************************)
EXTENDS Naturals, Sequences, FiniteSets, FiniteSetsExt

CONSTANTS
  Bills, Users,
  MaxTotal,   \* bound of the total of the lines
  MaxYear,    \* bound of the years that pass
  MaxCharges, \* bound of the transactions of a bill
  Limit,      \* last number with the digits of BILLS_NUMBER_LENGTH
  Mails       \* bills are closed only, or sent too from a "list" or their "page"

ASSUME BillAssumption ==
  /\ MaxTotal \in Nat \ {0} /\ MaxYear \in Nat \ {0} /\ Limit \in Nat \ {0}
  /\ MaxCharges \in Nat
  /\ Mails \subseteq {"none", "list", "page"}

VARIABLES
  open, number, total,  \* the row of each bill, and what its lines add up to
  charges,              \* charges[b]: amounts of its transactions, in order
  visit,                \* visit[u]: what the user's request is at, and what it read
  year,                 \* this year
  drafts,  \* history: bills of which close, send and download sent a draft
  shared,  \* history: bills at which two requests were at once
  spoilt,  \* history: bills a request wrote on reads that did not hold any more
  lost     \* history: numbers that such writes replaced

billRows == <<open, number, total, charges>>
history == <<drafts, shared, spoilt, lost>>
vars == <<open, number, total, charges, visit, year, drafts, shared, spoilt, lost>>

Draft == [year |-> 0, seq |-> 0]
Numbers == [year : 1 .. MaxYear, seq : Nat \ {0}]
Amounts == 0 .. MaxTotal

\* The instance of a bill that a request holds: the columns a change view read,
\* or the total a closing computed.
Read(b) == [open |-> open[b], number |-> number[b], total |-> 0]
Computed(b) == [open |-> TRUE, number |-> Draft, total |-> total[b]]
Instances == [open : BOOLEAN, number : Numbers \cup {Draft}, total : Amounts]
Nothing == [at |-> "none"]
Visits == [at : {"close", "save", "send", "edit", "billing"},
           bill : Bills, mail : {"none", "list", "page"}, row : Instances]

TypeOK ==
  /\ open \in [Bills -> BOOLEAN]
  /\ number \in [Bills -> Numbers \cup {Draft}]
  /\ total \in [Bills -> Amounts]
  /\ charges \in [Bills -> Seq(Amounts)]
  /\ visit \in [Users -> Visits \cup {Nothing}]
  /\ year \in 1 .. MaxYear
  /\ drafts \subseteq Bills /\ shared \subseteq Bills /\ spoilt \subseteq Bills
  /\ lost \subseteq Numbers

Init ==
  /\ open = [b \in Bills |-> TRUE]
  /\ number = [b \in Bills |-> Draft]
  /\ total \in [Bills -> Amounts]
  /\ charges = [b \in Bills |-> <<>>]
  /\ visit = [u \in Users |-> Nothing]
  /\ year = 1
  /\ drafts = {} /\ shared = {} /\ spoilt = {} /\ lost = {}

Idle(u) == visit[u].at = "none"
Ends(u) == visit' = [visit EXCEPT ![u] = Nothing]

\* Another request may be at the bill.
Starts(u, b, at, mail, row) ==
  /\ Idle(u)
  /\ visit' = [visit EXCEPT ![u] = [at |-> at, bill |-> b, mail |-> mail, row |-> row]]
  /\ shared' = shared \cup {c \in {b} : \E v \in Users : ~ Idle(v) /\ visit[v].bill = c}
  /\ UNCHANGED <<billRows, year, drafts, spoilt, lost>>

\* Whether the write of u is of a bill that is as u read it, in what it relies on.
Spoils(u, holds) ==
  LET b == visit[u].bill  new == visit[u].row.number IN
  /\ spoilt' = IF holds THEN spoilt ELSE spoilt \cup {b}
  /\ lost' = lost \cup ({number[b]} \ {Draft, new})
  /\ UNCHANGED <<drafts, shared>>

-----------------------------------------------------------------------------
(* Numbers *)

Given(y) == {number[b].seq : b \in {c \in Bills : number[c].year = y}}

\* A slip: the last number of any year.
NextOfAnyYear(y) == Max({0} \cup UNION {Given(z) : z \in 1 .. MaxYear}) + 1

\* get_number: one after the last in the order of their text, in which a
\* number with more digits than BILLS_NUMBER_LENGTH comes before Limit.
NextNumber(y) == Max({0} \cup (Given(y) \cap 1 .. Limit)) + 1

-----------------------------------------------------------------------------
(* close_bills and Bill.close *)

\* A slip: closed bills are not refused.
StartCloseOfAny(u, b, mail) == Starts(u, b, "close", mail, Computed(b))

\* close_bills reads the bills, finds them open and builds the forms, which
\* compute their totals; close, send and download is chosen in a list or on the
\* page of a bill.
StartClose(u, b, mail) ==
  /\ open[b]
  /\ Starts(u, b, "close", mail, Computed(b))

\* Bill.close creates its transaction and gets its number.
GetNumber(u) ==
  /\ visit[u].at = "close"
  /\ visit' = [visit EXCEPT ![u].at = "save",
                              ![u].row.number = [year |-> year, seq |-> NextNumber(year)]]
  /\ UNCHANGED <<billRows, year, history>>

IsTaken(b, n) == n # Draft /\ \E c \in Bills \ {b} : number[c] = n

\* A slip: the transaction of an amount of zero is not created.
SaveClosedUncharged(u) ==
  LET b == visit[u].bill  row == visit[u].row IN
  /\ visit[u].at = "save"
  /\ ~ IsTaken(b, row.number) /\ Len(charges[b]) < MaxCharges
  /\ open' = [open EXCEPT ![b] = FALSE]
  /\ number' = [number EXCEPT ![b] = row.number]
  /\ charges' = [charges EXCEPT ![b] = IF row.total = 0 THEN @ ELSE Append(@, row.total)]
  /\ visit' = [visit EXCEPT ![u] = IF @.mail = "none" THEN Nothing ELSE [@ EXCEPT !.at = "send"]]
  /\ Spoils(u, open[b] /\ row.total = total[b])
  /\ UNCHANGED <<total, year>>

\* ... and saves it, all its columns, with the commit of the request: whether it
\* is open and its total are not asked again.
SaveClosed(u) ==
  LET b == visit[u].bill  row == visit[u].row IN
  /\ visit[u].at = "save"
  /\ ~ IsTaken(b, row.number) /\ Len(charges[b]) < MaxCharges
  /\ open' = [open EXCEPT ![b] = FALSE]
  /\ number' = [number EXCEPT ![b] = row.number]
  /\ charges' = [charges EXCEPT ![b] = Append(@, row.total)]
  /\ visit' = [visit EXCEPT ![u] = IF @.mail = "none" THEN Nothing ELSE [@ EXCEPT !.at = "send"]]
  /\ Spoils(u, open[b] /\ row.total = total[b])
  /\ UNCHANGED <<total, year>>

\* Another bill got the number: numbers are unique, and the request is undone.
NumberIsTaken(u) ==
  /\ visit[u].at \in {"save", "edit"}
  /\ IsTaken(visit[u].bill, visit[u].row.number)
  /\ Ends(u)
  /\ UNCHANGED <<billRows, year, history>>

\* close_send_download_bills sends the bills of its queryset: in a list they
\* are the instances that were closed, as the formset takes its instances from
\* an ordered queryset; the queryset of the page of a bill has no order, the
\* formset queries again, and what is sent is the instance as it was read open.
MailClosed(u) ==
  /\ visit[u].at = "send"
  /\ drafts' = IF visit[u].mail = "page" THEN drafts \cup {visit[u].bill} ELSE drafts
  /\ Ends(u)
  /\ UNCHANGED <<billRows, year, shared, spoilt, lost>>

-----------------------------------------------------------------------------
(* What else is done to bills *)

\* The change view of a bill loads it ...
StartEdit(u, b) == Starts(u, b, "edit", "none", Read(b))

\* ... and saves all its columns as they were read; the lines can be edited
\* when it was open (get_inline_instances).
SaveEdit(u) ==
  LET b == visit[u].bill  row == visit[u].row IN
  /\ visit[u].at = "edit"
  /\ ~ IsTaken(b, row.number)
  /\ open' = [open EXCEPT ![b] = row.open]
  /\ number' = [number EXCEPT ![b] = row.number]
  /\ \E n \in Amounts :
       /\ total' = [total EXCEPT ![b] = n]
       /\ row.open \/ n = total[b]
  /\ Spoils(u, row.open = open[b] /\ row.number = number[b])
  /\ Ends(u)
  /\ UNCHANGED <<charges, year>>

\* The billing of orders takes the last open bill of the account ...
StartBilling(u, b) == open[b] /\ Starts(u, b, "billing", "none", Read(b))

\* ... and creates its lines there.
AddLines(u) ==
  LET b == visit[u].bill IN
  /\ visit[u].at = "billing"
  /\ \E n \in Amounts : total' = [total EXCEPT ![b] = n]
  /\ spoilt' = IF open[b] THEN spoilt ELSE spoilt \cup {b}
  /\ Ends(u)
  /\ UNCHANGED <<open, number, charges, year, drafts, shared, lost>>

\* A request fails before it commits, or its user gives up.
Fails(u) ==
  /\ ~ Idle(u)
  /\ Ends(u)
  /\ UNCHANGED <<billRows, year, history>>

NewYear ==
  /\ year < MaxYear
  /\ year' = year + 1
  /\ UNCHANGED <<billRows, visit, history>>

Next ==
  \/ \E u \in Users :
       \/ \E b \in Bills :
            \/ \E mail \in Mails : StartClose(u, b, mail)
            \/ StartEdit(u, b) \/ StartBilling(u, b)
       \/ GetNumber(u) \/ SaveClosed(u) \/ NumberIsTaken(u) \/ MailClosed(u)
       \/ SaveEdit(u) \/ AddLines(u) \/ Fails(u)
  \/ NewYear

Spec == Init /\ [][Next]_vars

-----------------------------------------------------------------------------
(* Properties *)

\* All numbers that were given in a year, to bills that have them or had
Spent(y) == Given(y) \cup {n.seq : n \in {m \in lost : m.year = y}}

\* The numbers of the bills closed in a year have no holes but those a write on
\* old reads left, and no two bills have the same (get_number, and Bill.number
\* being unique).
NumbersInSequence ==
  /\ \A y \in 1 .. MaxYear : \A n \in Given(y) : \A m \in 1 .. n : m \in Spent(y)
  /\ \A b, c \in Bills : number[b] = number[c] /\ number[b] # Draft => b = c

\* A closed bill has one transaction, of what its lines add up to, and an open
\* one has none (Bill.close); unless a request wrote it on what it had read before.
ChargedItsTotal ==
  \A b \in Bills \ spoilt : charges[b] = IF open[b] THEN <<>> ELSE <<total[b]>>

\* Only if two requests are at a bill at once one of them may write it on reads
\* that do not hold: closed twice, opened again by its change view, or with lines
\* that its closing did not count.
SpoiltByOverlap == spoilt \subseteq shared

\* "Once a bill is closed it can not be further modified" (close_bills), but by
\* the requests that spoil it.
ClosedIsFinal ==
  [][\A b \in Bills \ spoilt' : ~ open[b] =>
       ~ open'[b] /\ number'[b] = number[b] /\ total'[b] = total[b]]_vars

\* "Close, send and download bills in one shot" sends what it closed.
SentAsClosed == drafts = {}

OpenIsDraft == \A b \in Bills : open[b] <=> number[b] = Draft

\* Closing bills implements the promise of BillLedger.
Ledger == INSTANCE BillLedger WITH
  Years <- 1 .. MaxYear,
  charges <- [b \in Bills |-> {charges[b][i] : i \in DOMAIN charges[b]}]
LedgerSpec == Ledger!Spec

===============================================================================
