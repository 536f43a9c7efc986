-------------------------- MODULE PaymentTransactions --------------------------
(***************************************************************************)
(* The transactions that charge bills, and the processes that hold the     *)
(* files sent to the bank (orchestra.contrib.payments), as the users of    *)
(* the administration move them.                                           *)
(*                                                                         *)
(* A user opens a page (a confirmation, or the checks of a request that    *)
(* needs none) and its effect comes later, in a database transaction of    *)
(* its own: what other users do in between is only seen if it is read      *)
(* again.  There are no locks and no version checks in this code.          *)
(***************************************************************************)
EXTENDS Integers, FiniteSets, Functions

CONSTANTS
  Bills, Transactions, Processes, Users,
  Worth,    \* what a bill adds up to
  Credits,  \* bills with a negative total, of - Worth
  Free,     \* bills with a total of zero
  Manual,   \* bills whose source has no method that is processed
  Amounts,  \* what users charge by hand
  Used,     \* the actions of the administration that are in use
  Bulk,     \* whether actions are also used from lists, on any selection
  None      \* no process

TransactionActions == {"process", "execute", "secure", "reject"}
ProcessActions == {"process_execute", "process_abort", "process_commit", "process_delete"}
AllActions == TransactionActions \cup ProcessActions \cup {"add"}

ASSUME PaymentAssumption ==
  /\ Credits \subseteq Bills /\ Free \subseteq Bills /\ Manual \subseteq Bills
  /\ Credits \cap Free = {}
  /\ Worth \in Nat \ {0} /\ Amounts \subseteq Int
  /\ Used \subseteq AllActions
  /\ Bulk \in BOOLEAN
  /\ None \notin Processes

VARIABLES
  closed,   \* the bills that are closed
  state,    \* state[t] of the transaction, "ABSENT" before it exists
  bill,     \* bill[t]: the bills t charges, at most one
  amount,   \* amount[t]: what it charges of it
  process,  \* process[t]: its process, or None
  pstate,   \* pstate[p] of the process, "ABSENT" before, "DELETED" after
  files,    \* files[p]: the transactions in the file of the process
  page      \* page[u]: the action the user is about to do, and on what

charges == <<closed, bill, amount>>
vars == <<closed, state, bill, amount, process, pstate, files, page>>

States == {"WAITTING_PROCESSING", "WAITTING_EXECUTION", "EXECUTED", "SECURED", "REJECTED"}
Idle == [action |-> "none", over |-> {}]
Pages ==
  [action : {"add"}, over : SUBSET Bills] \cup
  [action : {"none"} \cup TransactionActions \cup ProcessActions,
   over : SUBSET (Transactions \cup Processes)]

TypeOK ==
  /\ closed \subseteq Bills
  /\ state \in [Transactions -> States \cup {"ABSENT"}]
  /\ bill \in [Transactions -> SUBSET Bills]
  /\ amount \in [Transactions -> Int]
  /\ process \in [Transactions -> Processes \cup {None}]
  /\ pstate \in [Processes -> {"ABSENT", "CREATED", "EXECUTED", "ABORTED", "DELETED"}]
  /\ files \in [Processes -> SUBSET Transactions]
  /\ page \in [Users -> Pages]

Init ==
  /\ closed = {}
  /\ state = [t \in Transactions |-> "ABSENT"]
  /\ bill = [t \in Transactions |-> {}]
  /\ amount = [t \in Transactions |-> 0]
  /\ process = [t \in Transactions |-> None]
  /\ pstate = [p \in Processes |-> "ABSENT"]
  /\ files = [p \in Processes |-> {}]
  /\ page = [u \in Users |-> Idle]

Existing == {t \in Transactions : state[t] # "ABSENT"}
Stored == {p \in Processes : pstate[p] \notin {"ABSENT", "DELETED"}}
Of(p) == {t \in Transactions : process[t] = p}
Charging(b) == {t \in Existing : b \in bill[t]}
Valid(b) == {t \in Charging(b) : state[t] # "REJECTED"}
Waitting(S) == {t \in S : state[t] = "WAITTING_EXECUTION"}

Total(b) == IF b \in Credits THEN - Worth ELSE IF b \in Free THEN 0 ELSE Worth
Amount(b) == SumFunctionOnSet(amount, Valid(b))

\* What Transaction.clean refuses to charge again.
Covered(b) == Amount(b) >= Total(b)

-----------------------------------------------------------------------------
(* The transactions are created *)

\* TransactionQuerySet.create, of Bill.close: what has no processing waits for
\* its execution, what has no amount is secured.  Closing does not look at the
\* transactions that were added while the bill was open.
CloseBill(u, b) ==
  /\ page[u] = Idle /\ b \notin closed
  /\ closed' = closed \cup {b}
  /\ \E t \in Transactions :
       /\ state[t] = "ABSENT"
       /\ state' = [state EXCEPT ![t] = IF b \in Free THEN "SECURED"
                                        ELSE IF b \in Manual THEN "WAITTING_EXECUTION"
                                        ELSE "WAITTING_PROCESSING"]
       /\ bill' = [bill EXCEPT ![t] = {b}]
       /\ amount' = [amount EXCEPT ![t] = Total(b)]
  /\ UNCHANGED <<process, pstate, files, page>>

\* A slip: a bill is covered when the transactions exceed its total.
AddBeyond(u, b) ==
  /\ "add" \in Used /\ page[u] = Idle
  /\ b \in closed => Amount(b) <= Total(b)
  /\ page' = [page EXCEPT ![u] = [action |-> "add", over |-> {b}]]
  /\ UNCHANGED <<charges, state, process, pstate, files>>

\* The form to add a transaction, which reissue fills in with the data of a
\* rejected one: Transaction.clean refuses it for a bill that is covered.  The
\* lines of an open bill may add up to anything at that moment.
AddIsValid(u, b) ==
  /\ "add" \in Used /\ page[u] = Idle
  /\ b \in closed => ~ Covered(b)
  /\ page' = [page EXCEPT ![u] = [action |-> "add", over |-> {b}]]
  /\ UNCHANGED <<charges, state, process, pstate, files>>

\* The form saves its instance: it is not create() of the queryset, and the
\* state is the default of the model.  The amount is any, whatever is left.
AddIsSaved(u) ==
  /\ page[u].action = "add"
  /\ \E t \in Transactions :
       /\ state[t] = "ABSENT"
       /\ state' = [state EXCEPT ![t] = "WAITTING_PROCESSING"]
       /\ bill' = [bill EXCEPT ![t] = page[u].over]
       /\ \E n \in Amounts : amount' = [amount EXCEPT ![t] = n]
  /\ page' = [page EXCEPT ![u] = Idle]
  /\ UNCHANGED <<closed, process, pstate, files>>

-----------------------------------------------------------------------------
(* The actions on transactions *)

\* TransactionAdmin.get_change_view_actions
Offered(t) ==
  CASE state[t] = "WAITTING_PROCESSING" -> {"process", "reject"}
    [] state[t] = "WAITTING_EXECUTION"  -> {"execute", "reject"}
    [] state[t] = "EXECUTED"            -> {"secure", "reject"}
    [] OTHER                            -> {}

\* A slip: the page of a transaction offers what would leave a rejected one.
SelectRejected(u, a, S) ==
  /\ a \in Used /\ page[u] = Idle
  /\ S # {} /\ S \subseteq Existing
  /\ \/ Bulk
     \/ \E t \in S : S = {t} /\ (a \in Offered(t) \/ (state[t] = "REJECTED" /\ a = "execute"))
  /\ a = "process" => \A t \in S : state[t] = "WAITTING_PROCESSING"
  /\ page' = [page EXCEPT ![u] = [action |-> a, over |-> S]]
  /\ UNCHANGED <<charges, state, process, pstate, files>>

\* A slip: the page of a transaction offers to execute what is not processed.
SelectUnprocessed(u, a, S) ==
  /\ a \in Used /\ page[u] = Idle
  /\ S # {} /\ S \subseteq Existing
  /\ \/ Bulk
     \/ \E t \in S : S = {t} /\ a \in Offered(t) \cup {"execute"}
  /\ a = "process" => \A t \in S : state[t] = "WAITTING_PROCESSING"
  /\ page' = [page EXCEPT ![u] = [action |-> a, over |-> S]]
  /\ UNCHANGED <<charges, state, process, pstate, files>>

\* The user selects transactions in the list, or opens the page of one, and
\* picks an action of those offered there.  process_transactions checks the
\* state of all of them, the others check nothing.
Select(u, a, S) ==
  /\ a \in Used /\ page[u] = Idle
  /\ S # {} /\ S \subseteq Existing
  /\ Bulk \/ \E t \in S : S = {t} /\ a \in Offered(t)
  /\ a = "process" => \A t \in S : state[t] = "WAITTING_PROCESSING"
  /\ page' = [page EXCEPT ![u] = [action |-> a, over |-> S]]
  /\ UNCHANGED <<charges, state, process, pstate, files>>

Marked == [execute |-> "EXECUTED", secure |-> "SECURED", reject |-> "REJECTED"]

\* mark_as_executed, mark_as_secured and mark_as_rejected, confirmed
Mark(u) ==
  /\ page[u].action \in DOMAIN Marked
  /\ state' = [t \in Transactions |->
                 IF t \in page[u].over THEN Marked[page[u].action] ELSE state[t]]
  /\ page' = [page EXCEPT ![u] = Idle]
  /\ UNCHANGED <<charges, process, pstate, files>>

\* What is processed of the selected transactions: those with a source whose
\* method is, in a process for the debts and another for the credits.
Charged(S) == {t \in S : bill[t] \cap Manual = {}}
Debts(S) == {t \in Charged(S) : amount[t] >= 0}
Groups(S) == {Debts(S), Charged(S) \ Debts(S)} \ {{}}

\* The process of a transaction, where new[G] is the process of a group G.
HeldBy(new, t) == CHOOSE p \in Processes : \E G \in DOMAIN new : t \in G /\ p = new[G]

\* process_transactions after its check: PaymentMethod.process writes files
\* and marks the transactions as processed.
Process(u) ==
  /\ page[u].action = "process"
  /\ \E new \in [Groups(page[u].over) -> Processes] :
       /\ \A G, H \in DOMAIN new : G # H => new[G] # new[H]
       /\ \A G \in DOMAIN new : pstate[new[G]] = "ABSENT"
       /\ state' = [t \in Transactions |->
                      IF t \in Charged(page[u].over) THEN "WAITTING_EXECUTION" ELSE state[t]]
       /\ process' = [t \in Transactions |->
                        IF t \in Charged(page[u].over)
                        THEN HeldBy(new, t) ELSE process[t]]
       /\ pstate' = [p \in Processes |->
                       IF \E G \in DOMAIN new : p = new[G] THEN "CREATED" ELSE pstate[p]]
       /\ files' = [p \in Processes |->
                      {t \in Transactions :
                         t \in files[p] \/ \E G \in DOMAIN new : t \in G /\ p = new[G]}]
  /\ page' = [page EXCEPT ![u] = Idle]
  /\ UNCHANGED charges

-----------------------------------------------------------------------------
(* The actions on processes *)

\* TransactionProcessAdmin.get_change_view_actions; COMMITED is never reached.
OfferedFor(p) ==
  {"process_delete"} \cup
  CASE pstate[p] = "CREATED"  -> {"process_execute", "process_abort", "process_commit"}
    [] pstate[p] = "EXECUTED" -> {"process_abort", "process_commit"}
    [] OTHER                  -> {}

SelectProcess(u, a, p) ==
  /\ a \in Used /\ page[u] = Idle
  /\ p \in Stored
  /\ Bulk \/ a \in OfferedFor(p)
  /\ page' = [page EXCEPT ![u] = [action |-> a, over |-> {p}]]
  /\ UNCHANGED <<charges, state, process, pstate, files>>

\* TransactionProcess.mark_as_executed: of all of its transactions
ExecuteProcess(u, p) ==
  /\ page[u] = [action |-> "process_execute", over |-> {p}]
  /\ pstate' = [pstate EXCEPT ![p] = IF p \in Stored THEN "EXECUTED" ELSE @]
  /\ state' = [t \in Transactions |-> IF t \in Of(p) THEN "EXECUTED" ELSE state[t]]
  /\ page' = [page EXCEPT ![u] = Idle]
  /\ UNCHANGED <<charges, process, files>>

\* A slip: what is aborted is left to be processed again.
AbortForRetry(u, p) ==
  /\ page[u] = [action |-> "process_abort", over |-> {p}]
  /\ pstate' = [pstate EXCEPT ![p] = IF p \in Stored THEN "ABORTED" ELSE @]
  /\ state' = [t \in Transactions |-> IF t \in Of(p) THEN "WAITTING_PROCESSING" ELSE state[t]]
  /\ page' = [page EXCEPT ![u] = Idle]
  /\ UNCHANGED <<charges, process, files>>

\* TransactionProcess.abort: all of its transactions, whatever their state
AbortProcess(u, p) ==
  /\ page[u] = [action |-> "process_abort", over |-> {p}]
  /\ pstate' = [pstate EXCEPT ![p] = IF p \in Stored THEN "ABORTED" ELSE @]
  /\ state' = [t \in Transactions |-> IF t \in Of(p) THEN "REJECTED" ELSE state[t]]
  /\ page' = [page EXCEPT ![u] = Idle]
  /\ UNCHANGED <<charges, process, files>>

\* The commit action calls mark_as_rejected, which a process does not have: the
\* request ends in an internal error and is undone.
CommitProcess(u, p) ==
  /\ page[u] = [action |-> "process_commit", over |-> {p}]
  /\ page' = [page EXCEPT ![u] = Idle]
  /\ UNCHANGED <<charges, state, process, pstate, files>>

\* delete_view with pre_delete_processes and post_delete_processes: a process
\* with one transaction in waiting execution goes, those are to be processed
\* again, and the others lose their process.
DeleteProcess(u, p) ==
  /\ page[u] = [action |-> "process_delete", over |-> {p}]
  /\ p \in Stored
  /\ Waitting(Of(p)) # {}
  /\ pstate' = [pstate EXCEPT ![p] = "DELETED"]
  /\ state' = [t \in Transactions |->
                 IF t \in Waitting(Of(p)) THEN "WAITTING_PROCESSING" ELSE state[t]]
  /\ process' = [t \in Transactions |-> IF t \in Of(p) THEN None ELSE process[t]]
  /\ page' = [page EXCEPT ![u] = Idle]
  /\ UNCHANGED <<charges, files>>

\* With none in waiting execution there is an error, the deletion goes on, and
\* the None that pre_delete_processes returned fails it all.
DeleteProcessFails(u, p) ==
  /\ page[u] = [action |-> "process_delete", over |-> {p}]
  /\ p \in Stored
  /\ Waitting(Of(p)) = {}
  /\ page' = [page EXCEPT ![u] = Idle]
  /\ UNCHANGED <<charges, state, process, pstate, files>>

\* The user goes elsewhere, or the request fails and is undone.
Leave(u) ==
  /\ page[u] # Idle
  /\ page' = [page EXCEPT ![u] = Idle]
  /\ UNCHANGED <<charges, state, process, pstate, files>>

-----------------------------------------------------------------------------

Confirm(u) ==
  \/ AddIsSaved(u) \/ Mark(u) \/ Process(u) \/ Leave(u)
  \/ \E p \in Processes :
       \/ ExecuteProcess(u, p) \/ AbortProcess(u, p) \/ CommitProcess(u, p)
       \/ DeleteProcess(u, p) \/ DeleteProcessFails(u, p)

Open(u) ==
  \/ \E b \in Bills : AddIsValid(u, b)
  \/ \E a \in TransactionActions, S \in SUBSET Transactions : Select(u, a, S)
  \/ \E a \in ProcessActions, p \in Processes : SelectProcess(u, a, p)

Next ==
  \/ \E u \in Users, b \in Bills : CloseBill(u, b)
  \/ \E u \in Users : Open(u) \/ Confirm(u)

Spec == Init /\ [][Next]_vars

-----------------------------------------------------------------------------
(* Properties *)

\* What the bank was sent is what the panel shows: the file of a process that
\* was not deleted holds exactly the transactions linked to it, so that none
\* is in two of them (process_transactions, post_delete_processes).
FilesMatchProcesses ==
  \A p \in Stored : files[p] = Of(p)

\* A closed bill whose valid transactions cover its total gets no other, be it
\* added, reissued or brought back from rejection (Transaction.clean, reissue,
\* get_change_view_actions).
CoveredIsDone ==
  [][\A b \in closed : Covered(b) => Valid(b)' \subseteq Valid(b)]_vars

\* Why FilesMatchProcesses holds of one user: what is absent or waits for a
\* processing is in no process, and what is about to be processed waits.
FilesInv ==
  /\ FilesMatchProcesses
  /\ \A t \in Transactions :
       state[t] \in {"ABSENT", "WAITTING_PROCESSING"} => process[t] = None
  /\ \A t \in Transactions : process[t] # None => process[t] \in Stored
  /\ \A p \in Processes : pstate[p] = "ABSENT" => files[p] = {}
  /\ \A u \in Users : page[u].action = "process" =>
       \A t \in page[u].over : t \in Transactions /\ state[t] = "WAITTING_PROCESSING"

Sent(t) == \E p \in Processes : t \in files[p]

\* Only what was sent to the bank is taken as charged by the bank
\* (get_change_view_actions, process_transactions).
SentBeforeCharged ==
  \A t \in Existing :
    bill[t] \cap (Manual \cup Free) = {} /\ state[t] \in {"WAITTING_EXECUTION", "EXECUTED", "SECURED"}
      => Sent(t)

\* Why it holds of any users who only use the pages: what is in a process is in
\* its file, and a page to execute or to secure was offered for what was sent.
SentInv ==
  /\ SentBeforeCharged
  /\ \A t \in Transactions : process[t] # None => Sent(t)
  /\ \A u \in Users : page[u].action \in {"execute", "secure"} =>
       \A t \in page[u].over :
         t \in Existing /\ (bill[t] \cap (Manual \cup Free) = {} => Sent(t))

\* Why nothing joins what charges a covered bill, by one user who only uses the pages:
\* what an action was offered for is not rejected meanwhile, and the closed bill that a
\* transaction is about to be added to is not covered meanwhile.
ChargedInv ==
  \A u \in Users :
    /\ page[u].action # "process_execute"
    /\ page[u].action \in TransactionActions =>
         \A t \in page[u].over :
           t \in Existing /\ (page[u].action # "reject" => state[t] # "REJECTED")
    /\ page[u].action = "add" =>
         \E b \in Bills : page[u].over = {b} /\ (b \in closed => ~ Covered(b))

\* What was rejected stays so, a new transaction is created for recharging it
\* (STATE_HELP of REJECTED).
RejectedIsFinal ==
  [][\A t \in Transactions : state[t] = "REJECTED" => state'[t] = "REJECTED"]_vars

\* Money that is secured stays so: a process does not override the higher
\* state of its transactions, and abort leaves what is not being processed
\* (_format_abort lists to the user the ones in processing).
SecuredIsFinal ==
  [][\A t \in Transactions : state[t] = "SECURED" => state'[t] = "SECURED"]_vars

===============================================================================
