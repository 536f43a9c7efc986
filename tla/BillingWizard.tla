----------------------------- MODULE BillingWizard -----------------------------
(***************************************************************************)
(* The wizard that bills selected orders (BillSelectedOrders): three pages *)
(* (options, related orders, confirmation), each of which sends to the     *)
(* next what it shows, and one object of each process through whose        *)
(* attributes the methods of a request hand over orders and options.  A    *)
(* request sets the attributes, then reads them to make its answer, then   *)
(* deletes them and ends; those of other threads come in between.          *)
(*                                                                         *)
(* The orders are those of an account for one service, registered on day 0 *)
(* and billed until the exact day that is asked (fixed_point).  A line is  *)
(* the days it charges, a pair <<order, day>> each.                        *)
(***************************************************************************)
EXTENDS Naturals, FiniteSets

CONSTANTS
  Users,     \* one request each at a time
  Processes, \* of the web server
  Orders,
  LastDay,   \* bound of the days that can be billed
  Options,   \* what may be asked: [until |-> a day after 0, proforma |-> a boolean]
  Ahead,     \* the day an order is billed until when nothing is asked
  None

VARIABLES
  process,   \* process[u]: the process that handles the requests of u
  wizard,    \* wizard[p]: attributes of the object of process p
  page,      \* page[u]: what the browser of u shows, or None
  request,   \* request[u]: the request of u at work, or None
  billedUntil, \* billed_until of each order, 0 if it was never billed
  invoiced,  \* the days that are in lines of invoices
  mixed,     \* history: users on a page made while others were in the wizard of its process
  raced      \* history: orders that two requests billed at once

vars == <<process, wizard, page, request, billedUntil, invoiced, mixed, raced>>

Days == Orders \X (0 .. LastDay - 1)
Posts == [step : 0 .. 3, queryset : SUBSET Orders, options : Options \cup {None},
          picked : SUBSET Orders]
Pages == [step : 1 .. 3, queryset : SUBSET Orders, options : Options \cup {None},
          related : SUBSET Orders, picked : SUBSET Orders, shown : SUBSET Days]

Works == [post : Posts, answered : BOOLEAN, answer : Pages \cup {None}, lines : SUBSET Days,
          invoice : BOOLEAN]

Assumption ==
  /\ LastDay \in Nat
  /\ Options \subseteq [until : 1 .. LastDay, proforma : BOOLEAN]
  /\ None \notin Options /\ None \notin Works
  /\ \A queryset \in SUBSET Orders : queryset # None

TypeOK ==
  /\ process \in [Users -> Processes]
  /\ wizard \in [Processes -> [queryset : (SUBSET Orders) \cup {None},
                               context : (SUBSET Orders) \cup {None},
                               options : Options \cup {None}]]
  /\ page \in [Users -> Pages \cup {None}]
  /\ request \in [Users -> Works \cup {None}]
  /\ billedUntil \in [Orders -> 0 .. LastDay] /\ invoiced \subseteq Days
  /\ mixed \subseteq Users /\ raced \subseteq Orders

Init ==
  /\ process \in [Users -> Processes]
  /\ wizard = [p \in Processes |-> [queryset |-> None, context |-> None, options |-> None]]
  /\ page = [u \in Users |-> None] /\ request = [u \in Users |-> None]
  /\ billedUntil = [o \in Orders |-> 0] /\ invoiced = {}
  /\ mixed = {} /\ raced = {}

-----------------------------------------------------------------------------
(* Orders *)

\* get_related: it is not given the options, so that it looks as far as orders are
\* billed by default.
get_related(orders) == {o \in Orders \ orders : billedUntil[o] < Ahead}

\* queryset.bill: the lines of the orders that are not billed until then.
bill(orders, options) ==
  {l \in Days : l[1] \in orders /\ billedUntil[l[1]] <= l[2] /\ l[2] < options.until}

-----------------------------------------------------------------------------
(* Pages and what they send *)

\* Selection in the list of orders, which any page can be left for.
FromList == {[step |-> 0, queryset |-> S, options |-> None, picked |-> {}] :
               S \in (SUBSET Orders) \ {{}}}

\* The orders of the page are sent with it; those that were picked are sent by the page
\* they are picked on and by no other.
FromPage(p) ==
  IF p = None THEN {}
  ELSE {[step |-> p.step, queryset |-> p.queryset, options |-> o, picked |-> s] :
          o \in IF p.step = 1 THEN Options ELSE {p.options},
          s \in IF p.step = 2 THEN SUBSET p.related ELSE {{}}}

\* The orders of a page are those of the context, which those that are picked are not
\* added to.
Page(w, step, options, related, picked, shown) ==
  [step |-> step, queryset |-> w.context, options |-> options, related |-> related,
   picked |-> picked, shown |-> shown]

-----------------------------------------------------------------------------
(* Requests *)

Working(u, answered) == request[u] # None /\ request[u].answered = answered

\* Whose requests are in threads of the same process.
Others(u) == {v \in Users \ {u} : request[v] # None /\ process[v] = process[u]}

\* A slip: the confirmation takes the options there are from earlier steps.
KeptOptions(w, post) == IF post.step = 3 /\ w.options # None THEN w.options ELSE post.options

\* The options are those of the form, whatever the object had.
OptionsOf(w, post) == post.options

\* __call__, and set_options up to the choice of a page.  A selection starts again.
Call(u) ==
  /\ request[u] = None
  /\ \E post \in FromList \cup FromPage(page[u]) :
       /\ request' = [request EXCEPT ![u] =
            [post |-> post, answered |-> FALSE, answer |-> None, lines |-> {}, invoice |-> FALSE]]
       /\ wizard' = [wizard EXCEPT ![process[u]] =
            [queryset |-> post.queryset, context |-> post.queryset,
             options |-> IF post.step = 0 THEN @.options ELSE OptionsOf(@, post)]]
       /\ mixed' = (IF post.step = 0 THEN mixed \ {u} ELSE mixed)
                     \cup (IF Others(u) = {} THEN {} ELSE Others(u) \cup {u})
  /\ UNCHANGED <<process, page, billedUntil, invoiced, raced>>

\* A step reads w, what the object of its process has, and answers with a page.
Answers(u, step, answer) ==
  /\ Working(u, FALSE)
  /\ request[u].post.step \in step
  /\ wizard[process[u]].queryset # None
  /\ request' = [request EXCEPT ![u].answered = TRUE, ![u].answer = answer]
  /\ UNCHANGED <<process, page, billedUntil, invoiced, mixed, raced>>

AskOptions(u) ==
  LET w == wizard[process[u]] IN
  Answers(u, {0}, Page(w, 1, None, {}, {}, {})) /\ UNCHANGED wizard

\* Related orders are offered, again if those that were picked are not related any more.
AskRelated(u) ==
  LET w == wizard[process[u]]
      related == get_related(w.queryset)
  IN /\ Answers(u, {1, 2}, Page(w, 2, w.options, related, {}, {}))
     /\ related # {}
     /\ request[u].post.step = 1 \/ ~(request[u].post.picked \subseteq related)
     /\ UNCHANGED wizard

\* The page that asks for confirmation shows what would be billed, with the related
\* orders that were picked if there are any to pick.
Preview(u) ==
  LET w == wizard[process[u]]
      related == get_related(w.queryset)
      picked == request[u].post.picked
      orders == IF related = {} THEN w.queryset ELSE w.queryset \cup picked
  IN /\ Answers(u, {1, 2}, Page(w, 3, w.options, {}, picked, bill(orders, w.options)))
     /\ related = {} \/ (request[u].post.step = 2 /\ picked \subseteq related)
     /\ wizard' = [wizard EXCEPT ![process[u]].queryset = orders]

\* Bills are created; orders keep their dates when the bill is pro forma.
Confirm(u) ==
  /\ Working(u, FALSE) /\ request[u].post.step = 3
  /\ LET w == wizard[process[u]]
         lines == bill(w.queryset, w.options)
         Rivals(o) == {v \in Users \ {u} : /\ request[v] # None /\ request[v].invoice
                                           /\ \E l \in request[v].lines : l[1] = o}
     IN /\ w.queryset # None
        /\ request' = [request EXCEPT ![u].answered = TRUE, ![u].lines = lines,
                                      ![u].invoice = ~w.options.proforma]
        /\ raced' = IF w.options.proforma THEN raced
                    ELSE raced \cup {o \in Orders : Rivals(o) # {} /\ \E l \in lines : l[1] = o}
  /\ UNCHANGED <<process, wizard, page, billedUntil, invoiced, mixed>>

\* The attributes are deleted, and the transaction of the request commits.
Leave(u) ==
  /\ Working(u, TRUE)
  /\ LET r == request[u]
         lines == IF r.invoice THEN r.lines ELSE {}
         Until(o) == CHOOSE d \in 1 .. LastDay : <<o, d - 1>> \in lines /\ <<o, d>> \notin lines
     IN /\ wizard[process[u]].queryset # None
        /\ wizard' = [wizard EXCEPT ![process[u]].queryset = None, ![process[u]].context = None]
        /\ billedUntil' = [o \in Orders |->
             IF \E l \in lines : l[1] = o THEN Until(o) ELSE billedUntil[o]]
        /\ invoiced' = invoiced \cup lines
        /\ page' = [page EXCEPT ![u] = r.answer]
  /\ request' = [request EXCEPT ![u] = None]
  /\ UNCHANGED <<process, mixed, raced>>

\* Another request has deleted the attributes: AttributeError, and the transaction is
\* rolled back.  The page can be sent again.
Missing(u) ==
  /\ request[u] # None /\ wizard[process[u]].queryset = None
  /\ request' = [request EXCEPT ![u] = None]
  /\ UNCHANGED <<process, wizard, page, billedUntil, invoiced, mixed, raced>>

Next ==
  \E u \in Users :
    \/ Call(u) \/ AskOptions(u) \/ AskRelated(u) \/ Preview(u) \/ Confirm(u) \/ Leave(u) \/ Missing(u)

Spec == Init /\ [][Next]_vars

-----------------------------------------------------------------------------
(* Properties. *)

Confirmed(u) == Working(u, TRUE) /\ request[u].post.step = 3

\* What is billed is what the user confirmed: no day the page did not show, all it
\* showed that was not billed meanwhile, and an invoice or a pro forma as it was asked.
\* What does not hold: the related orders that were picked are shown and not billed, as
\* the page does not send them; users whose requests are in one process at once get the
\* orders of each other; and an order that was billed twice at once may be billed from
\* an earlier day.
BilledAsConfirmed ==
  \A u \in Users \ mixed : Confirmed(u) =>
    /\ request[u].invoice = ~page[u].options.proforma
    /\ \A l \in request[u].lines \ page[u].shown : l[1] \in raced
    /\ \A l \in page[u].shown \ request[u].lines :
         l \in invoiced \/ l[1] \in page[u].picked

\* An invoice charges no day again, but of orders that two requests billed at once, as
\* the last to commit may write an earlier billed_until.
NoDayAgain ==
  \A u \in Users : Confirmed(u) /\ request[u].invoice =>
    \A l \in request[u].lines \cap invoiced : l[1] \in raced
================================================================================
