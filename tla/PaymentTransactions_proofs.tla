---------------------- MODULE PaymentTransactions_proofs ----------------------
(***************************************************************************)
(* Proofs about PaymentTransactions, for any bills, transactions and       *)
(* processes: what one user may rely on, and what any users may.           *)
(***************************************************************************)
EXTENDS PaymentTransactions, FiniteSetTheorems, TLAPS

LEMMA IdlePage == Idle \in Pages
  BY DEF Idle, Pages

\* The groups of a selection share no transaction, and hold all it charges.
LEMMA GroupsPartition ==
  ASSUME NEW S
  PROVE  /\ \A G, H \in Groups(S) : G # H => G \cap H = {}
         /\ \A G \in Groups(S) : G \subseteq Charged(S)
         /\ \A t \in Charged(S) : \E G \in Groups(S) : t \in G
  BY DEF Groups, Debts

\* The process of a transaction is the one of its group.
LEMMA HeldByGroup ==
  ASSUME NEW S, NEW new \in [Groups(S) -> Processes],
         NEW G \in Groups(S), NEW t \in G
  PROVE  HeldBy(new, t) = new[G] /\ new[G] \in Processes
  <1>1. \A H \in Groups(S) : t \in H => H = G
    BY GroupsPartition
  <1>2. new[G] \in Processes /\ DOMAIN new = Groups(S)
    OBVIOUS
  <1>3. \E p \in Processes : \E H \in DOMAIN new : t \in H /\ p = new[H]
    BY <1>2
  <1>4. \E H \in DOMAIN new : t \in H /\ HeldBy(new, t) = new[H]
    BY <1>3 DEF HeldBy
  <1>5. QED BY <1>1, <1>2, <1>4

LEMMA OpenTypes ==
  ASSUME TypeOK, NEW u \in Users, Open(u)
  PROVE  TypeOK'
  <1>1. CASE \E b \in Bills : AddIsValid(u, b)
    <2>1. PICK b \in Bills : AddIsValid(u, b)
      BY <1>1
    <2>2. [action |-> "add", over |-> {b}] \in Pages
      BY DEF Pages, AllActions
    <2>3. QED BY <2>1, <2>2 DEF TypeOK, AddIsValid, charges
  <1>2. CASE \E a \in TransactionActions, S \in SUBSET Transactions : Select(u, a, S)
    <2>1. PICK a \in TransactionActions, S \in SUBSET Transactions : Select(u, a, S)
      BY <1>2
    <2>2. [action |-> a, over |-> S] \in Pages
      BY DEF Pages, AllActions
    <2>3. QED BY <2>1, <2>2 DEF TypeOK, Select, charges
  <1>3. CASE \E a \in ProcessActions, p \in Processes : SelectProcess(u, a, p)
    <2>1. PICK a \in ProcessActions, p \in Processes : SelectProcess(u, a, p)
      BY <1>3
    <2>2. [action |-> a, over |-> {p}] \in Pages
      BY DEF Pages, AllActions
    <2>3. QED BY <2>1, <2>2 DEF TypeOK, SelectProcess, charges
  <1>4. QED BY <1>1, <1>2, <1>3 DEF Open

LEMMA ProcessTypes ==
  ASSUME TypeOK, NEW u \in Users, Process(u)
  PROVE  TypeOK'
  <1> DEFINE S == page[u].over
  <1>1. PICK new \in [Groups(S) -> Processes] :
          /\ state' = [t \in Transactions |->
                         IF t \in Charged(S) THEN "WAITTING_EXECUTION" ELSE state[t]]
          /\ process' = [t \in Transactions |->
                           IF t \in Charged(S) THEN HeldBy(new, t) ELSE process[t]]
          /\ pstate' = [p \in Processes |->
                          IF \E G \in DOMAIN new : p = new[G] THEN "CREATED" ELSE pstate[p]]
          /\ files' = [p \in Processes |->
                         {t \in Transactions :
                            t \in files[p] \/ \E G \in DOMAIN new : t \in G /\ p = new[G]}]
    BY DEF Process, charges
  <1>2. \A t \in Charged(S) : HeldBy(new, t) \in Processes
    BY GroupsPartition, HeldByGroup
  <1>3. process' \in [Transactions -> Processes \cup {None}]
    BY <1>1, <1>2 DEF TypeOK
  <1>4. state' \in [Transactions -> States \cup {"ABSENT"}]
    BY <1>1 DEF TypeOK, States
  <1>5. pstate' \in [Processes -> {"ABSENT", "CREATED", "EXECUTED", "ABORTED", "DELETED"}]
    BY <1>1 DEF TypeOK
  <1>6. files' \in [Processes -> SUBSET Transactions]
    BY <1>1
  <1>7. QED BY <1>3, <1>4, <1>5, <1>6, IdlePage DEF TypeOK, Process, charges

LEMMA ConfirmTypes ==
  ASSUME TypeOK, NEW u \in Users, Confirm(u)
  PROVE  TypeOK'
  <1>1. CASE AddIsSaved(u)
    <2>1. page[u].over \subseteq Bills
      BY <1>1 DEF TypeOK, AddIsSaved, Pages, TransactionActions, ProcessActions, charges
    <2>2. PICK t \in Transactions :
            /\ state' = [state EXCEPT ![t] = "WAITTING_PROCESSING"]
            /\ bill' = [bill EXCEPT ![t] = page[u].over]
            /\ \E n \in Amounts : amount' = [amount EXCEPT ![t] = n]
      BY <1>1 DEF AddIsSaved, charges
    <2>3. amount' \in [Transactions -> Int]
      BY <2>2, PaymentAssumption DEF TypeOK
    <2>4. QED BY <1>1, <2>1, <2>2, <2>3, IdlePage DEF TypeOK, AddIsSaved, States, Idle, charges
  <1>2. CASE Mark(u)
    <2>1. Marked[page[u].action] \in States
      BY <1>2 DEF Mark, Marked, States, charges
    <2>2. state' \in [Transactions -> States \cup {"ABSENT"}]
      BY <1>2, <2>1 DEF TypeOK, Mark, charges, charges
    <2>3. QED BY <1>2, <2>2, IdlePage DEF TypeOK, Mark, charges, charges
  <1>3. CASE Process(u)
    BY <1>3, ProcessTypes
  <1>4. CASE Leave(u)
    BY <1>4, IdlePage DEF TypeOK, Leave, charges, charges
  <1>5. ASSUME NEW p \in Processes, ExecuteProcess(u, p) PROVE TypeOK'
    BY <1>5, IdlePage DEF TypeOK, ExecuteProcess, charges, States
  <1>6. ASSUME NEW p \in Processes, AbortProcess(u, p) PROVE TypeOK'
    BY <1>6, IdlePage DEF TypeOK, AbortProcess, charges, States
  <1>7. ASSUME NEW p \in Processes, CommitProcess(u, p) PROVE TypeOK'
    BY <1>7, IdlePage DEF TypeOK, CommitProcess, charges, AllActions, ProcessActions
  <1>8. ASSUME NEW p \in Processes, DeleteProcess(u, p) PROVE TypeOK'
    BY <1>8, IdlePage DEF TypeOK, DeleteProcess, charges, States
  <1>9. ASSUME NEW p \in Processes, DeleteProcessFails(u, p) PROVE TypeOK'
    BY <1>9, IdlePage DEF TypeOK, DeleteProcessFails, charges, AllActions, ProcessActions
  <1>10. QED BY <1>1, <1>2, <1>3, <1>4, <1>5, <1>6, <1>7, <1>8, <1>9 DEF Confirm

LEMMA TypeStep == TypeOK /\ [Next]_vars => TypeOK'
  <1> SUFFICES ASSUME TypeOK, [Next]_vars PROVE TypeOK'
    OBVIOUS
  <1>1. ASSUME NEW u \in Users, NEW b \in Bills, CloseBill(u, b) PROVE TypeOK'
    <2>1. Total(b) \in Int
      BY PaymentAssumption DEF Total
    <2>2. QED BY <1>1, <2>1 DEF TypeOK, CloseBill, States
  <1>2. CASE UNCHANGED vars
    BY <1>2 DEF TypeOK, vars, charges
  <1>3. QED BY <1>1, <1>2, OpenTypes, ConfirmTypes DEF Next

LEMMA TypeInit == Init => TypeOK
  BY IdlePage DEF Init, TypeOK

\* Types of the transactions, their processes and files, and the pages.
THEOREM TypeCorrect == Spec => []TypeOK
  BY TypeInit, TypeStep, PTL DEF Spec

-----------------------------------------------------------------------------
(* One user *)

LEMMA FilesProcessed ==
  ASSUME TypeOK, FilesInv, NEW u \in Users, Process(u),
         \A v, w \in Users : v = w
  PROVE  FilesInv'
  <1> DEFINE S == page[u].over
  <1>1. PICK new \in [Groups(S) -> Processes] :
          /\ \A G, H \in DOMAIN new : G # H => new[G] # new[H]
          /\ \A G \in DOMAIN new : pstate[new[G]] = "ABSENT"
          /\ state' = [t \in Transactions |->
                         IF t \in Charged(S) THEN "WAITTING_EXECUTION" ELSE state[t]]
          /\ process' = [t \in Transactions |->
                           IF t \in Charged(S) THEN HeldBy(new, t) ELSE process[t]]
          /\ pstate' = [p \in Processes |->
                          IF \E G \in DOMAIN new : p = new[G] THEN "CREATED" ELSE pstate[p]]
          /\ files' = [p \in Processes |->
                         {t \in Transactions :
                            t \in files[p] \/ \E G \in DOMAIN new : t \in G /\ p = new[G]}]
    BY DEF Process, charges
  <1>2. DOMAIN new = Groups(S)
    OBVIOUS
  <1>3. \A t \in Charged(S) : t \in Transactions /\ state[t] = "WAITTING_PROCESSING" /\ process[t] = None
    BY DEF FilesInv, Process, Charged, charges
  <1>4. \A t \in Charged(S) : \E G \in Groups(S) : t \in G /\ HeldBy(new, t) = new[G]
    BY GroupsPartition, HeldByGroup
  <1>5. \A t \in Charged(S), G \in Groups(S) : t \in G => HeldBy(new, t) = new[G]
    BY HeldByGroup
  <1>6. \A v \in Users : page'[v].action # "process"
    BY DEF TypeOK, Process, Idle, charges
  <1>7. \A t \in Transactions : state'[t] \in {"ABSENT", "WAITTING_PROCESSING"} => process'[t] = None
    BY <1>1 DEF FilesInv
  <1>8. \A t \in Transactions : process'[t] # None => process'[t] \in Stored'
    <2> TAKE t \in Transactions
    <2>1. CASE t \in Charged(S)
      BY <1>1, <1>2, <1>4, <2>1 DEF Stored
    <2>2. CASE t \notin Charged(S)
      <3>1. process'[t] = process[t]
        BY <1>1, <2>2
      <3>2. process[t] # None => process[t] \in Processes /\ pstate[process[t]] \notin {"ABSENT", "DELETED"}
        BY DEF FilesInv, Stored
      <3>3. QED BY <1>1, <3>1, <3>2 DEF Stored
    <2>3. QED BY <2>1, <2>2
  <1>9. \A p \in Processes : pstate'[p] = "ABSENT" => files'[p] = {}
    <2> SUFFICES ASSUME NEW p \in Processes, pstate'[p] = "ABSENT" PROVE files'[p] = {}
      OBVIOUS
    <2>1. ~ \E G \in DOMAIN new : p = new[G]
      BY <1>1
    <2>2. pstate[p] = "ABSENT"
      BY <1>1, <2>1
    <2>3. files[p] = {}
      BY <2>2 DEF FilesInv
    <2>4. QED BY <1>1, <2>1, <2>3
  <1>10. \A p \in Stored' : files'[p] = Of(p)'
    <2> SUFFICES ASSUME NEW p \in Processes, pstate'[p] \notin {"ABSENT", "DELETED"}
                 PROVE  files'[p] = {t \in Transactions : process'[t] = p}
      BY DEF Stored, Of
    <2>1. CASE \E G \in DOMAIN new : p = new[G]
      <3>1. PICK G \in Groups(S) : p = new[G]
        BY <1>2, <2>1
      <3>2. files[p] = {} /\ \A t \in Transactions : process[t] # p
        BY <1>1, <1>2, <3>1, PaymentAssumption DEF FilesInv, Stored
      <3>3. \A H \in Groups(S) : p = new[H] => H = G
        BY <1>1, <1>2, <3>1
      <3>4. files'[p] = {t \in Transactions : t \in G}
        BY <1>1, <1>2, <3>1, <3>2, <3>3
      <3>5. \A t \in Transactions : process'[t] = p <=> t \in G
        <4> TAKE t \in Transactions
        <4>1. CASE t \in Charged(S)
          BY <1>1, <1>4, <1>5, <3>1, <3>3, <4>1
        <4>2. CASE t \notin Charged(S)
          BY <1>1, <3>2, <4>2, GroupsPartition
        <4>3. QED BY <4>1, <4>2
      <3>6. QED BY <3>4, <3>5
    <2>2. CASE ~ \E G \in DOMAIN new : p = new[G]
      <3>1. p \in Stored
        BY <1>1, <2>2 DEF Stored
      <3>2. files'[p] = {t \in Transactions : t \in files[p]}
        BY <1>1, <2>2
      <3>3. files[p] = {t \in Transactions : process[t] = p}
        BY <3>1 DEF FilesInv, FilesMatchProcesses, Of
      <3>4. \A t \in Transactions : process'[t] = p <=> process[t] = p
        <4> TAKE t \in Transactions
        <4>1. CASE t \in Charged(S)
          <5>1. process'[t] # p
            BY <1>1, <1>2, <1>4, <2>2, <4>1
          <5>2. process[t] # p
            BY <1>3, <4>1, PaymentAssumption
          <5>3. QED BY <5>1, <5>2
        <4>2. CASE t \notin Charged(S)
          BY <1>1, <4>2
        <4>3. QED BY <4>1, <4>2
      <3>5. QED BY <3>2, <3>3, <3>4
    <2>3. QED BY <2>1, <2>2
  <1>11. QED BY <1>6, <1>7, <1>8, <1>9, <1>10 DEF FilesInv, FilesMatchProcesses

\* What changes no file, and neither processes nor what is about to be
\* processed, keeps the invariant.
LEMMA FilesKept ==
  ASSUME TypeOK, FilesInv, process' = process, files' = files,
         \A p \in Processes :
           /\ pstate'[p] = pstate[p] \/ (pstate[p] \notin {"ABSENT", "DELETED"} /\ pstate'[p] \notin {"ABSENT", "DELETED"}),
         \A t \in Transactions :
           state'[t] \in {"ABSENT", "WAITTING_PROCESSING"} => process[t] = None,
         \A u \in Users : page'[u].action = "process" =>
           \A t \in page'[u].over : t \in Transactions /\ state'[t] = "WAITTING_PROCESSING"
  PROVE  FilesInv'
  <1>1. Stored' = Stored
    BY DEF Stored
  <1>2. \A p \in Processes : Of(p)' = Of(p)
    BY DEF Of
  <1>3. FilesMatchProcesses'
    BY <1>1, <1>2 DEF FilesInv, FilesMatchProcesses, Stored
  <1>4. \A p \in Processes : pstate'[p] = "ABSENT" => files'[p] = {}
    BY DEF FilesInv
  <1>5. \A t \in Transactions : process'[t] # None => process'[t] \in Stored'
    BY <1>1 DEF FilesInv
  <1>6. QED BY <1>3, <1>4, <1>5 DEF FilesInv

LEMMA FilesStep ==
  ASSUME \A v, w \in Users : v = w
  PROVE  TypeOK /\ FilesInv /\ [Next]_vars => FilesInv'
  <1> SUFFICES ASSUME TypeOK, FilesInv, [Next]_vars PROVE FilesInv'
    OBVIOUS
  <1>1. ASSUME NEW w \in Users, NEW b \in Bills, CloseBill(w, b) PROVE FilesInv'
    <2>1. PICK t \in Transactions : state[t] = "ABSENT" /\ \A s \in Transactions : s # t => state'[s] = state[s]
      BY <1>1 DEF CloseBill, TypeOK
    <2>2. process[t] = None
      BY <2>1 DEF FilesInv
    <2>3. \A s \in Transactions : state'[s] \in {"ABSENT", "WAITTING_PROCESSING"} => process[s] = None
      BY <2>1, <2>2 DEF FilesInv
    <2>4. \A s \in Transactions : state[s] = "WAITTING_PROCESSING" => state'[s] = "WAITTING_PROCESSING"
      BY <2>1
    <2>5. process' = process /\ files' = files /\ pstate' = pstate /\ page' = page
      BY <1>1 DEF CloseBill
    <2>6. \A u \in Users : page'[u].action = "process" =>
            \A s \in page'[u].over : s \in Transactions /\ state'[s] = "WAITTING_PROCESSING"
      BY <2>4, <2>5 DEF FilesInv
    <2>7. QED BY <2>3, <2>5, <2>6, FilesKept
  <1>2. ASSUME NEW u \in Users, Open(u) PROVE FilesInv'
    <2>1. process' = process /\ files' = files /\ pstate' = pstate /\ state' = state
      BY <1>2 DEF Open, AddIsValid, Select, SelectProcess, charges
    <2>2. \A v \in Users : page'[v].action = "process" =>
            \A s \in page'[v].over : s \in Transactions /\ state'[s] = "WAITTING_PROCESSING"
      <3>1. CASE \E b \in Bills : AddIsValid(u, b)
        BY <3>1 DEF AddIsValid, FilesInv, TypeOK, charges
      <3>2. CASE \E a \in TransactionActions, S \in SUBSET Transactions : Select(u, a, S)
        <4>1. PICK a \in TransactionActions, S \in SUBSET Transactions : Select(u, a, S)
          BY <3>2
        <4>2. page' = [page EXCEPT ![u] = [action |-> a, over |-> S]]
          BY <4>1 DEF Select, charges
        <4>3. a = "process" => \A s \in S : state[s] = "WAITTING_PROCESSING"
          BY <4>1 DEF Select, charges
        <4>4. QED BY <2>1, <4>2, <4>3 DEF TypeOK, FilesInv
      <3>3. CASE \E a \in ProcessActions, p \in Processes : SelectProcess(u, a, p)
        BY <3>3 DEF SelectProcess, ProcessActions, FilesInv, TypeOK, charges
      <3>4. QED BY <1>2, <3>1, <3>2, <3>3 DEF Open
    <2>3. \A s \in Transactions : state'[s] \in {"ABSENT", "WAITTING_PROCESSING"} => process[s] = None
      BY <2>1 DEF FilesInv
    <2>4. QED BY <2>1, <2>2, <2>3, FilesKept
  <1>3. ASSUME NEW u \in Users, Confirm(u) PROVE FilesInv'
    <2>1. CASE Process(u)
      BY <2>1, FilesProcessed
    <2>2. CASE ~ Process(u)
      <3>1. \A v \in Users : page'[v].action # "process"
        BY <1>3, <2>2 DEF Confirm, AddIsSaved, Mark, Leave, ExecuteProcess, AbortProcess,
          CommitProcess, DeleteProcess, DeleteProcessFails, Idle, TypeOK, charges
      <3>2. CASE AddIsSaved(u)
        <4>1. PICK t \in Transactions : state[t] = "ABSENT" /\ \A s \in Transactions : s # t => state'[s] = state[s]
          BY <3>2 DEF AddIsSaved, TypeOK, charges
        <4>2. \A s \in Transactions : state'[s] \in {"ABSENT", "WAITTING_PROCESSING"} => process[s] = None
          BY <4>1 DEF FilesInv
        <4>3. process' = process /\ files' = files /\ pstate' = pstate
          BY <3>2 DEF AddIsSaved, charges
        <4>4. QED BY <3>1, <4>2, <4>3, FilesKept
      <3>3. CASE Mark(u)
        <4>1. \A t \in Transactions : state'[t] \in {"ABSENT", "WAITTING_PROCESSING"} => process[t] = None
          BY <3>3 DEF Mark, Marked, FilesInv, charges
        <4>2. process' = process /\ files' = files /\ pstate' = pstate
          BY <3>3 DEF Mark, charges
        <4>3. QED BY <3>1, <4>1, <4>2, FilesKept
      <3>4. CASE Leave(u)
        BY <3>1, <3>4, FilesKept DEF Leave, FilesInv, charges
      <3>5. ASSUME NEW p \in Processes, ExecuteProcess(u, p) \/ AbortProcess(u, p) PROVE FilesInv'
        <4>1. \A t \in Transactions : state'[t] \in {"ABSENT", "WAITTING_PROCESSING"} => process[t] = None
          BY <3>5 DEF ExecuteProcess, AbortProcess, FilesInv, charges
        <4>2. process' = process /\ files' = files
          BY <3>5 DEF ExecuteProcess, AbortProcess, charges
        <4>3. \A q \in Processes :
                pstate'[q] = pstate[q] \/ (pstate[q] \notin {"ABSENT", "DELETED"} /\ pstate'[q] \notin {"ABSENT", "DELETED"})
          BY <3>5 DEF ExecuteProcess, AbortProcess, TypeOK, Stored, charges
        <4>4. QED BY <3>1, <4>1, <4>2, <4>3, FilesKept
      <3>6. ASSUME NEW p \in Processes, CommitProcess(u, p) \/ DeleteProcessFails(u, p) PROVE FilesInv'
        BY <3>1, <3>6, FilesKept DEF CommitProcess, DeleteProcessFails, FilesInv, charges
      <3>7. ASSUME NEW p \in Processes, DeleteProcess(u, p) PROVE FilesInv'
        <4>1. /\ process' = [t \in Transactions |-> IF t \in Of(p) THEN None ELSE process[t]]
              /\ pstate' = [pstate EXCEPT ![p] = "DELETED"]
              /\ state' = [t \in Transactions |->
                             IF t \in Waitting(Of(p)) THEN "WAITTING_PROCESSING" ELSE state[t]]
              /\ files' = files
          BY <3>7 DEF DeleteProcess, charges
        <4>2. \A t \in Transactions : state'[t] \in {"ABSENT", "WAITTING_PROCESSING"} => process'[t] = None
          BY <4>1 DEF FilesInv, Waitting
        <4>3. \A t \in Transactions : process'[t] # None => process'[t] \in Stored'
          BY <4>1 DEF FilesInv, Stored, Of, TypeOK
        <4>4. \A q \in Processes : pstate'[q] = "ABSENT" => files'[q] = {}
          BY <4>1 DEF FilesInv, TypeOK
        <4>5. \A q \in Stored' : files'[q] = Of(q)'
          <5> SUFFICES ASSUME NEW q \in Stored' PROVE files'[q] = Of(q)'
            OBVIOUS
          <5>1. q # p /\ q \in Stored
            BY <4>1 DEF Stored, TypeOK
          <5>2. Of(q)' = Of(q)
            BY <4>1, <5>1, PaymentAssumption DEF Of, Stored
          <5>3. QED BY <4>1, <5>1, <5>2 DEF FilesInv, FilesMatchProcesses
        <4>6. QED BY <3>1, <4>2, <4>3, <4>4, <4>5 DEF FilesInv, FilesMatchProcesses
      <3>8. QED BY <1>3, <2>2, <3>2, <3>3, <3>4, <3>5, <3>6, <3>7 DEF Confirm
    <2>3. QED BY <2>1, <2>2
  <1>4. CASE UNCHANGED vars
    BY <1>4, FilesKept DEF vars, FilesInv, charges
  <1>5. QED BY <1>1, <1>2, <1>3, <1>4 DEF Next

LEMMA FilesInit == Init => FilesInv
  BY PaymentAssumption DEF Init, FilesInv, FilesMatchProcesses, Stored, Idle

\* With one user at a time the file of a process holds exactly the transactions
\* linked to it, whatever is selected and done.
THEOREM FilesOfOneUser ==
  ASSUME \A v, w \in Users : v = w
  PROVE  Spec => []FilesMatchProcesses
  <1>1. FilesInv => FilesMatchProcesses
    BY DEF FilesInv
  <1>2. TypeOK /\ FilesInv /\ [Next]_vars => FilesInv'
    BY FilesStep
  <1>3. QED BY <1>1, <1>2, FilesInit, TypeInit, TypeStep, PTL DEF Spec

-----------------------------------------------------------------------------
(* Any users, who use the pages *)

\* Steps that leave the bills of what exists, and add no charged transaction
\* nor page to charge one but of what was sent.
LEMMA SentKept ==
  ASSUME TypeOK, SentInv,
         \A p \in Processes : files[p] \subseteq files'[p],
         \A t \in Existing : bill'[t] = bill[t] /\ t \in Existing',
         \A t \in Transactions : process'[t] # None => Sent(t)',
         \A t \in Existing' :
           \/ state'[t] \notin {"WAITTING_EXECUTION", "EXECUTED", "SECURED"}
           \/ t \in Existing /\ state[t] \in {"WAITTING_EXECUTION", "EXECUTED", "SECURED"}
           \/ Sent(t)'
           \/ bill'[t] \cap (Manual \cup Free) # {},
         \A u \in Users : page'[u].action \in {"execute", "secure"} =>
           \/ page'[u] = page[u]
           \/ \A t \in page'[u].over :
                t \in Existing /\ (bill[t] \cap (Manual \cup Free) = {} => Sent(t))
  PROVE  SentInv'
  <1>1. \A t \in Transactions : Sent(t) => Sent(t)'
    BY DEF Sent
  <1>2. SentBeforeCharged'
    <2> SUFFICES ASSUME NEW t \in Existing', bill'[t] \cap (Manual \cup Free) = {},
                        state'[t] \in {"WAITTING_EXECUTION", "EXECUTED", "SECURED"}
                 PROVE  Sent(t)'
      BY DEF SentBeforeCharged
    <2>1. t \in Transactions
      BY DEF Existing
    <2>2. CASE t \in Existing /\ state[t] \in {"WAITTING_EXECUTION", "EXECUTED", "SECURED"}
      <3>1. bill[t] \cap (Manual \cup Free) = {}
        BY <2>2
      <3>2. Sent(t)
        BY <2>2, <3>1 DEF SentInv, SentBeforeCharged
      <3>3. QED BY <1>1, <2>1, <3>2
    <2>3. QED BY <2>2
  <1>3. \A u \in Users : page'[u].action \in {"execute", "secure"} =>
          \A t \in page'[u].over :
            t \in Existing /\ (bill[t] \cap (Manual \cup Free) = {} => Sent(t))
    BY DEF SentInv
  <1>4. \A u \in Users : page'[u].action \in {"execute", "secure"} =>
          \A t \in page'[u].over :
            t \in Existing' /\ (bill'[t] \cap (Manual \cup Free) = {} => Sent(t)')
    BY <1>1, <1>3 DEF Existing
  <1>5. QED BY <1>2, <1>4 DEF SentInv

LEMMA SentProcessed ==
  ASSUME TypeOK, SentInv, NEW u \in Users, Process(u)
  PROVE  SentInv'
  <1> DEFINE S == page[u].over
  <1>1. PICK new \in [Groups(S) -> Processes] :
          /\ state' = [t \in Transactions |->
                         IF t \in Charged(S) THEN "WAITTING_EXECUTION" ELSE state[t]]
          /\ process' = [t \in Transactions |->
                           IF t \in Charged(S) THEN HeldBy(new, t) ELSE process[t]]
          /\ files' = [p \in Processes |->
                         {t \in Transactions :
                            t \in files[p] \/ \E G \in DOMAIN new : t \in G /\ p = new[G]}]
    BY DEF Process, charges
  <1>2. \A p \in Processes : files[p] \subseteq files'[p]
    BY <1>1 DEF TypeOK
  <1>3. \A t \in Transactions : t \in Charged(S) => Sent(t)'
    <2> SUFFICES ASSUME NEW t \in Transactions, t \in Charged(S) PROVE Sent(t)'
      OBVIOUS
    <2>1. PICK G \in Groups(S) : t \in G
      BY GroupsPartition
    <2>2. new[G] \in Processes /\ G \in DOMAIN new
      OBVIOUS
    <2>3. t \in files'[new[G]]
      BY <1>1, <2>1, <2>2
    <2>4. QED BY <2>2, <2>3 DEF Sent
  <1>4. \A t \in Transactions : Sent(t) => Sent(t)'
    BY <1>2 DEF Sent
  <1>5. \A t \in Transactions : process'[t] # None => Sent(t)'
    BY <1>1, <1>3, <1>4 DEF SentInv
  <1>6. bill' = bill /\ page' = [page EXCEPT ![u] = Idle]
    BY DEF Process, charges
  <1>7. \A t \in Existing : t \in Existing'
    BY <1>1 DEF Existing
  <1>8. \A t \in Existing' : state'[t] \in {"WAITTING_EXECUTION", "EXECUTED", "SECURED"} =>
          (t \in Existing /\ state[t] \in {"WAITTING_EXECUTION", "EXECUTED", "SECURED"}) \/ Sent(t)'
    BY <1>1, <1>3 DEF Existing
  <1>9. \A v \in Users : page'[v].action \in {"execute", "secure"} => page'[v] = page[v]
    BY <1>6 DEF Idle, TypeOK
  <1>10. QED BY <1>2, <1>5, <1>6, <1>7, <1>8, <1>9, SentKept

LEMMA SentStep ==
  ASSUME Bulk = FALSE
  PROVE  TypeOK /\ SentInv /\ [Next]_vars => SentInv'
  <1> SUFFICES ASSUME TypeOK, SentInv, [Next]_vars PROVE SentInv'
    OBVIOUS
  <1>1. ASSUME NEW w \in Users, NEW b \in Bills, CloseBill(w, b) PROVE SentInv'
    <2>1. PICK t \in Transactions :
            /\ state[t] = "ABSENT"
            /\ state' = [state EXCEPT ![t] = IF b \in Free THEN "SECURED"
                                            ELSE IF b \in Manual THEN "WAITTING_EXECUTION"
                                            ELSE "WAITTING_PROCESSING"]
            /\ bill' = [bill EXCEPT ![t] = {b}]
            /\ process' = process /\ files' = files /\ page' = page
      BY <1>1 DEF CloseBill
    <2>2. \A s \in Existing : bill'[s] = bill[s] /\ s \in Existing' /\ state'[s] = state[s]
      BY <2>1 DEF Existing, TypeOK
    <2>3. \A s \in Existing' : s \in Existing \/ s = t
      BY <2>1 DEF Existing, TypeOK
    <2>4. \/ state'[t] = "WAITTING_PROCESSING"
          \/ bill'[t] \cap (Manual \cup Free) # {}
      BY <2>1 DEF TypeOK
    <2>5. \A s \in Transactions : process'[s] # None => Sent(s)'
      BY <2>1 DEF SentInv, Sent
    <2>6. QED BY <2>1, <2>2, <2>3, <2>4, <2>5, SentKept
  <1>2. ASSUME NEW u \in Users, Open(u) PROVE SentInv'
    <2>1. process' = process /\ files' = files /\ state' = state /\ bill' = bill
      BY <1>2 DEF Open, AddIsValid, Select, SelectProcess, charges
    <2>2. \A v \in Users : page'[v].action \in {"execute", "secure"} =>
            \/ page'[v] = page[v]
            \/ \A t \in page'[v].over :
                 t \in Existing /\ (bill[t] \cap (Manual \cup Free) = {} => Sent(t))
      <3>1. CASE \E b \in Bills : AddIsValid(u, b)
        BY <3>1 DEF AddIsValid, TypeOK, charges
      <3>2. CASE \E a \in TransactionActions, S \in SUBSET Transactions : Select(u, a, S)
        <4>1. PICK a \in TransactionActions, S \in SUBSET Transactions : Select(u, a, S)
          BY <3>2
        <4>2. page' = [page EXCEPT ![u] = [action |-> a, over |-> S]]
          BY <4>1 DEF Select, charges
        <4>3. PICK t \in S : S = {t} /\ a \in Offered(t) /\ t \in Existing
          BY <4>1 DEF Select, charges
        <4>4. a \in {"execute", "secure"} => state[t] \in {"WAITTING_EXECUTION", "EXECUTED"}
          BY <4>3 DEF Offered
        <4>5. a \in {"execute", "secure"} => (bill[t] \cap (Manual \cup Free) = {} => Sent(t))
          BY <4>3, <4>4 DEF SentInv, SentBeforeCharged
        <4>6. QED BY <4>2, <4>3, <4>5 DEF TypeOK
      <3>3. CASE \E a \in ProcessActions, p \in Processes : SelectProcess(u, a, p)
        BY <3>3 DEF SelectProcess, ProcessActions, TypeOK, charges
      <3>4. QED BY <1>2, <3>1, <3>2, <3>3 DEF Open
    <2>3. \A s \in Transactions : process'[s] # None => Sent(s)'
      BY <2>1 DEF SentInv, Sent
    <2>4. Existing' = Existing
      BY <2>1 DEF Existing
    <2>5. QED BY <2>1, <2>2, <2>3, <2>4, SentKept
  <1>3. ASSUME NEW u \in Users, Confirm(u) PROVE SentInv'
    <2>1. CASE Process(u)
      BY <2>1, SentProcessed
    <2>2. CASE ~ Process(u)
      <3>1. \A v \in Users : page'[v].action \in {"execute", "secure"} => page'[v] = page[v]
        BY <1>3, <2>2 DEF Confirm, AddIsSaved, Mark, Leave, ExecuteProcess, AbortProcess,
          CommitProcess, DeleteProcess, DeleteProcessFails, Idle, TypeOK, charges
      <3>2. files' = files
        BY <1>3, <2>2 DEF Confirm, AddIsSaved, Mark, Leave, ExecuteProcess, AbortProcess,
          CommitProcess, DeleteProcess, DeleteProcessFails, charges
      <3>3. \A t \in Transactions : process'[t] # None => Sent(t)'
        <4>1. \A t \in Transactions : process'[t] # None => process[t] # None
          BY <1>3, <2>2 DEF Confirm, AddIsSaved, Mark, Leave, ExecuteProcess, AbortProcess,
            CommitProcess, DeleteProcess, DeleteProcessFails, TypeOK, charges
        <4>2. QED BY <3>2, <4>1 DEF SentInv, Sent
      <3>4. CASE AddIsSaved(u)
        <4>1. PICK t \in Transactions :
                /\ state[t] = "ABSENT"
                /\ state' = [state EXCEPT ![t] = "WAITTING_PROCESSING"]
                /\ bill' = [bill EXCEPT ![t] = page[u].over]
          BY <3>4 DEF AddIsSaved, charges
        <4>2. \A s \in Existing : bill'[s] = bill[s] /\ s \in Existing' /\ state'[s] = state[s]
          BY <4>1 DEF Existing, TypeOK
        <4>3. \A s \in Existing' : s \in Existing \/ state'[s] = "WAITTING_PROCESSING"
          BY <4>1 DEF Existing, TypeOK
        <4>4. QED BY <3>1, <3>2, <3>3, <4>2, <4>3, SentKept
      <3>5. CASE Mark(u)
        <4>1. /\ state' = [t \in Transactions |->
                             IF t \in page[u].over THEN Marked[page[u].action] ELSE state[t]]
              /\ bill' = bill /\ page[u].action \in {"execute", "secure", "reject"}
          BY <3>5 DEF Mark, Marked, charges
        <4>2. Marked[page[u].action] \in {"EXECUTED", "SECURED", "REJECTED"}
          BY <4>1 DEF Marked
        <4>3. \A t \in Existing : t \in Existing'
          BY <4>1, <4>2 DEF Existing
        <4>4. \A t \in Existing' :
                \/ state'[t] \notin {"WAITTING_EXECUTION", "EXECUTED", "SECURED"}
                \/ t \in Existing /\ state[t] \in {"WAITTING_EXECUTION", "EXECUTED", "SECURED"}
                \/ Sent(t)'
                \/ bill'[t] \cap (Manual \cup Free) # {}
          <5> SUFFICES ASSUME NEW t \in Existing',
                              state'[t] \in {"WAITTING_EXECUTION", "EXECUTED", "SECURED"},
                              bill[t] \cap (Manual \cup Free) = {}
                       PROVE  \/ t \in Existing /\ state[t] \in {"WAITTING_EXECUTION", "EXECUTED", "SECURED"}
                              \/ Sent(t)'
            BY <4>1
          <5>1. CASE t \in page[u].over
            <6>1. page[u].action \in {"execute", "secure"}
              BY <4>1, <5>1 DEF Marked, Existing
            <6>2. Sent(t)
              BY <5>1, <6>1 DEF SentInv
            <6>3. QED BY <3>2, <6>2 DEF Sent
          <5>2. CASE t \notin page[u].over
            BY <4>1, <5>2 DEF Existing
          <5>3. QED BY <5>1, <5>2
        <4>5. QED BY <3>1, <3>2, <3>3, <4>1, <4>3, <4>4, SentKept
      <3>6. CASE Leave(u)
        BY <3>1, <3>2, <3>3, <3>6, SentKept DEF Leave, Existing, charges
      <3>7. ASSUME NEW p \in Processes,
                   ExecuteProcess(u, p) \/ AbortProcess(u, p) \/ DeleteProcess(u, p)
            PROVE  SentInv'
        <4>1. bill' = bill
          BY <3>7 DEF ExecuteProcess, AbortProcess, DeleteProcess, charges
        <4>2. \A t \in Transactions :
                \/ state'[t] = state[t]
                \/ process[t] = p /\ state'[t] \in {"EXECUTED", "REJECTED", "WAITTING_PROCESSING"}
          BY <3>7 DEF ExecuteProcess, AbortProcess, DeleteProcess, Of, Waitting, charges
        <4>3. \A t \in Existing : t \in Existing'
          BY <4>2 DEF Existing
        <4>4. \A t \in Transactions : process[t] = p => Sent(t)'
          BY <3>2, PaymentAssumption DEF SentInv, Sent
        <4>5. \A t \in Existing' : (t \in Existing /\ state'[t] = state[t]) \/ process[t] = p
          BY <4>2 DEF Existing
        <4>6. \A t \in Existing' :
                (t \in Existing /\ state'[t] = state[t]) \/ Sent(t)'
          BY <4>4, <4>5 DEF Existing
        <4>7. \A t \in Existing : bill'[t] = bill[t] /\ t \in Existing'
          BY <4>1, <4>3
        <4>8. \A q \in Processes : files[q] \subseteq files'[q]
          BY <3>2
        <4>9. QED BY <3>1, <3>3, <4>6, <4>7, <4>8, SentKept
      <3>8. ASSUME NEW p \in Processes, CommitProcess(u, p) \/ DeleteProcessFails(u, p)
            PROVE  SentInv'
        BY <3>1, <3>2, <3>3, <3>8, SentKept DEF CommitProcess, DeleteProcessFails, Existing, charges
      <3>9. QED BY <1>3, <2>2, <3>4, <3>5, <3>6, <3>7, <3>8 DEF Confirm
    <2>3. QED BY <2>1, <2>2
  <1>4. CASE UNCHANGED vars
    <2>1. /\ state' = state /\ bill' = bill /\ process' = process
          /\ files' = files /\ page' = page
      BY <1>4 DEF vars, charges
    <2>2. Existing' = Existing
      BY <2>1 DEF Existing
    <2>3. \A t \in Transactions : process'[t] # None => Sent(t)'
      BY <2>1 DEF SentInv, Sent
    <2>4. QED BY <2>1, <2>2, <2>3, SentKept
  <1>5. QED BY <1>1, <1>2, <1>3, <1>4 DEF Next

LEMMA SentInit == Init => SentInv
  BY DEF Init, SentInv, SentBeforeCharged, Existing, Idle

\* Whatever any users do on the pages, stale or not, what is taken as charged by
\* the bank was in a file sent to it.
THEOREM SentForAnyUsers ==
  ASSUME Bulk = FALSE
  PROVE  Spec => []SentBeforeCharged
  <1>1. SentInv => SentBeforeCharged
    BY DEF SentInv
  <1>2. TypeOK /\ SentInv /\ [Next]_vars => SentInv'
    BY SentStep
  <1>3. QED BY <1>1, <1>2, SentInit, TypeInit, TypeStep, PTL DEF Spec

-----------------------------------------------------------------------------
(* One user, who uses the pages and does not execute processes *)

OnPages == (\A v, w \in Users : v = w) /\ Bulk = FALSE /\ "process_execute" \notin Used

\* No step brings back what was rejected, nor makes a charge of what is absent.
Settled ==
  \A t \in Transactions :
    /\ state[t] = "REJECTED" => state'[t] = "REJECTED"
    /\ state[t] = "ABSENT" => state'[t] \in {"ABSENT", "REJECTED"}
    /\ state[t] # "ABSENT" => state'[t] # "ABSENT"

LEMMA SettledKeeps ==
  ASSUME Settled, bill' = bill
  PROVE  \A b \in Bills : Valid(b)' \subseteq Valid(b)
  BY DEF Settled, Valid, Charging, Existing

LEMMA ConfirmSettles ==
  ASSUME TypeOK, ChargedInv, NEW u \in Users, Confirm(u), ~ AddIsSaved(u)
  PROVE  Settled /\ bill' = bill /\ page' = [page EXCEPT ![u] = Idle]
  <1>1. CASE Mark(u)
    <2>1. /\ page[u].action \in {"execute", "secure", "reject"}
          /\ state' = [t \in Transactions |->
                         IF t \in page[u].over THEN Marked[page[u].action] ELSE state[t]]
          /\ bill' = bill /\ page' = [page EXCEPT ![u] = Idle]
      BY <1>1 DEF Mark, Marked, charges
    <2>2. \A t \in page[u].over :
            state[t] # "ABSENT" /\ (page[u].action # "reject" => state[t] # "REJECTED")
      BY <2>1 DEF ChargedInv, Existing, TransactionActions
    <2>3. /\ Marked[page[u].action] \in {"EXECUTED", "SECURED", "REJECTED"}
          /\ page[u].action = "reject" => Marked[page[u].action] = "REJECTED"
      BY <2>1 DEF Marked
    <2>4. QED BY <2>1, <2>2, <2>3 DEF Settled
  <1>2. CASE Process(u)
    <2>1. /\ page[u].action = "process" /\ bill' = bill
          /\ state' = [t \in Transactions |->
                         IF t \in Charged(page[u].over) THEN "WAITTING_EXECUTION" ELSE state[t]]
          /\ page' = [page EXCEPT ![u] = Idle]
      BY <1>2 DEF Process, charges
    <2>2. \A t \in Charged(page[u].over) : state[t] \notin {"ABSENT", "REJECTED"}
      BY <2>1 DEF ChargedInv, Charged, Existing, TransactionActions
    <2>3. QED BY <2>1, <2>2 DEF Settled
  <1>3. CASE Leave(u)
    BY <1>3 DEF Leave, Settled, charges
  <1>4. ASSUME NEW p \in Processes, ExecuteProcess(u, p) PROVE FALSE
    BY <1>4 DEF ExecuteProcess, ChargedInv, charges
  <1>5. ASSUME NEW p \in Processes, AbortProcess(u, p)
        PROVE  Settled /\ bill' = bill /\ page' = [page EXCEPT ![u] = Idle]
    BY <1>5 DEF AbortProcess, Settled, charges
  <1>6. ASSUME NEW p \in Processes, DeleteProcess(u, p)
        PROVE  Settled /\ bill' = bill /\ page' = [page EXCEPT ![u] = Idle]
    BY <1>6 DEF DeleteProcess, Settled, Waitting, charges
  <1>7. ASSUME NEW p \in Processes, CommitProcess(u, p) \/ DeleteProcessFails(u, p)
        PROVE  Settled /\ bill' = bill /\ page' = [page EXCEPT ![u] = Idle]
    BY <1>7 DEF CommitProcess, DeleteProcessFails, Settled, charges
  <1>8. QED BY <1>1, <1>2, <1>3, <1>4, <1>5, <1>6, <1>7 DEF Confirm

\* What the page of one transaction, or of a bill, offers.
LEMMA ChargedOpen ==
  ASSUME OnPages, TypeOK, ChargedInv, NEW u \in Users, Open(u)
  PROVE  ChargedInv' /\ Settled /\ bill' = bill
  <1>1. \A v \in Users : v = u
    BY DEF OnPages
  <1>2. state' = state /\ bill' = bill /\ amount' = amount /\ closed' = closed
    BY DEF Open, AddIsValid, Select, SelectProcess, charges
  <1>3. Existing' = Existing
    BY <1>2 DEF Existing
  <1>4. \A b : Covered(b)' = Covered(b)
    <2>1. \A b : Valid(b)' = Valid(b)
      BY <1>2, <1>3 DEF Charging, Valid
    <2>2. QED BY <1>2, <2>1 DEF Covered, Amount, Total
  <1>5. Settled
    BY <1>2 DEF Settled
  <1>6. CASE \E b \in Bills : AddIsValid(u, b)
    <2>1. PICK b \in Bills : AddIsValid(u, b)
      BY <1>6
    <2>2. page'[u] = [action |-> "add", over |-> {b}] /\ (b \in closed => ~ Covered(b))
      BY <2>1 DEF AddIsValid, TypeOK, charges
    <2>3. b \in closed' => ~ Covered(b)'
      BY <1>2, <1>4, <2>2
    <2>4. ChargedInv'
      BY <1>1, <2>2, <2>3 DEF ChargedInv, TransactionActions
    <2>5. QED BY <1>2, <1>5, <2>4
  <1>7. CASE \E a \in TransactionActions, S \in SUBSET Transactions : Select(u, a, S)
    <2>1. PICK a \in TransactionActions, S \in SUBSET Transactions : Select(u, a, S)
      BY <1>7
    <2>2. page'[u] = [action |-> a, over |-> S] /\ S \subseteq Existing
      BY <2>1 DEF Select, TypeOK, charges
    <2>3. PICK t \in S : S = {t} /\ a \in Offered(t)
      BY <2>1 DEF Select, OnPages, charges
    <2>4. state[t] # "REJECTED"
      BY <2>3 DEF Offered
    <2>5. \A q \in S : q \in Existing' /\ state'[q] # "REJECTED"
      BY <1>2, <1>3, <2>2, <2>3, <2>4
    <2>6. ChargedInv'
      BY <1>1, <2>2, <2>5 DEF ChargedInv, TransactionActions
    <2>7. QED BY <1>2, <1>5, <2>6
  <1>8. CASE \E a \in ProcessActions, p \in Processes : SelectProcess(u, a, p)
    <2>1. PICK a \in ProcessActions, p \in Processes : SelectProcess(u, a, p)
      BY <1>8
    <2>2. page'[u].action = a /\ a # "process_execute"
      BY <2>1 DEF SelectProcess, OnPages, TypeOK, charges
    <2>3. ChargedInv'
      BY <1>1, <2>2 DEF ChargedInv, TransactionActions, ProcessActions
    <2>4. QED BY <1>2, <1>5, <2>3
  <1>9. QED BY <1>6, <1>7, <1>8 DEF Open

\* A new transaction joins those of its bill only.
LEMMA ChargedByNew ==
  ASSUME TypeOK, NEW b \in Bills, NEW t \in Transactions, state[t] = "ABSENT",
         NEW s \in States, state' = [state EXCEPT ![t] = s], bill' = [bill EXCEPT ![t] = {b}]
  PROVE  \A c \in Bills \ {b} : Valid(c)' = Valid(c)
  <1>1. \A q \in Existing : q # t /\ state'[q] = state[q] /\ bill'[q] = bill[q] /\ q \in Existing'
    BY DEF Existing, TypeOK
  <1>2. \A q \in Existing' : q \in Existing \/ q = t
    BY DEF Existing, TypeOK
  <1>3. TAKE c \in Bills \ {b}
  <1>4. c \notin bill'[t]
    BY DEF TypeOK
  <1>5. QED BY <1>1, <1>2, <1>4 DEF Valid, Charging

\* No step disturbs the invariant, adds to what charges a covered bill, or brings back
\* what was rejected.
LEMMA ChargedStep ==
  ASSUME OnPages, TypeOK, ChargedInv, [Next]_vars
  PROVE  /\ ChargedInv'
         /\ \A b \in closed : Covered(b) => Valid(b)' \subseteq Valid(b)
         /\ \A t \in Transactions : state[t] = "REJECTED" => state'[t] = "REJECTED"
  <1> DEFINE Good == /\ ChargedInv'
                     /\ \A b \in closed : Covered(b) => Valid(b)' \subseteq Valid(b)
                     /\ \A t \in Transactions : state[t] = "REJECTED" => state'[t] = "REJECTED"
  <1>1. ASSUME NEW u \in Users, NEW b \in Bills, CloseBill(u, b) PROVE Good
    <2>1. PICK t \in Transactions :
            /\ b \notin closed /\ state[t] = "ABSENT"
            /\ state' = [state EXCEPT ![t] = IF b \in Free THEN "SECURED"
                                            ELSE IF b \in Manual THEN "WAITTING_EXECUTION"
                                            ELSE "WAITTING_PROCESSING"]
            /\ bill' = [bill EXCEPT ![t] = {b}] /\ page' = page /\ page[u] = Idle
      BY <1>1 DEF CloseBill
    <2>2. PICK s \in States : state' = [state EXCEPT ![t] = s]
      BY <2>1 DEF States
    <2>3. \A c \in Bills \ {b} : Valid(c)' = Valid(c)
      BY <2>1, <2>2, ChargedByNew
    <2>4. \A v \in Users : page'[v] = Idle
      BY <2>1 DEF OnPages
    <2>5. ChargedInv'
      BY <2>4 DEF ChargedInv, Idle, TransactionActions
    <2>6. \A c \in closed : Valid(c)' = Valid(c)
      BY <2>1, <2>3 DEF TypeOK
    <2>7. QED BY <2>1, <2>2, <2>5, <2>6 DEF TypeOK
  <1>2. ASSUME NEW u \in Users, Open(u) PROVE Good
    <2>1. ChargedInv' /\ Settled /\ bill' = bill
      BY <1>2, ChargedOpen
    <2>2. \A b \in closed : Valid(b)' \subseteq Valid(b)
      BY <2>1, SettledKeeps DEF TypeOK
    <2>3. QED BY <2>1, <2>2 DEF Settled
  <1>3. ASSUME NEW u \in Users, AddIsSaved(u) PROVE Good
    <2>1. PICK t \in Transactions :
            /\ page[u].action = "add" /\ state[t] = "ABSENT"
            /\ state' = [state EXCEPT ![t] = "WAITTING_PROCESSING"]
            /\ bill' = [bill EXCEPT ![t] = page[u].over]
            /\ page' = [page EXCEPT ![u] = Idle]
      BY <1>3 DEF AddIsSaved, charges
    <2>2. PICK b \in Bills : page[u].over = {b} /\ (b \in closed => ~ Covered(b))
      BY <2>1 DEF ChargedInv
    <2>3. \A c \in Bills \ {b} : Valid(c)' = Valid(c)
      BY <2>1, <2>2, ChargedByNew DEF States
    <2>4. \A c \in closed : Covered(c) => Valid(c)' \subseteq Valid(c)
      BY <2>2, <2>3 DEF TypeOK
    <2>5. \A v \in Users : page'[v] = Idle
      BY <2>1 DEF OnPages, TypeOK
    <2>6. ChargedInv'
      BY <2>5 DEF ChargedInv, Idle, TransactionActions
    <2>7. QED BY <2>1, <2>4, <2>6 DEF TypeOK
  <1>4. ASSUME NEW u \in Users, Confirm(u), ~ AddIsSaved(u) PROVE Good
    <2>1. Settled /\ bill' = bill /\ page' = [page EXCEPT ![u] = Idle]
      BY <1>4, ConfirmSettles
    <2>2. \A v \in Users : page'[v] = Idle
      BY <2>1 DEF OnPages, TypeOK
    <2>3. ChargedInv'
      BY <2>2 DEF ChargedInv, Idle, TransactionActions
    <2>4. \A b \in closed : Valid(b)' \subseteq Valid(b)
      BY <2>1, SettledKeeps DEF TypeOK
    <2>5. QED BY <2>1, <2>3, <2>4 DEF Settled
  <1>5. CASE UNCHANGED vars
    <2>1. Existing' = Existing /\ \A b : Valid(b)' = Valid(b)
      BY <1>5 DEF vars, Valid, Charging, Existing, charges
    <2>2. \A b : Covered(b)' = Covered(b)
      BY <1>5, <2>1 DEF vars, Covered, Amount, Total, charges
    <2>3. ChargedInv'
      BY <1>5, <2>1, <2>2 DEF vars, ChargedInv, charges
    <2>4. QED BY <1>5, <2>1, <2>3 DEF vars, charges
  <1>6. QED BY <1>1, <1>2, <1>3, <1>4, <1>5 DEF Next

LEMMA ChargedInit == Init => ChargedInv
  BY DEF Init, ChargedInv, Idle, TransactionActions

\* A closed bill that its valid transactions cover gets no other, of whatever amounts
\* (Transaction.clean, reissue, get_change_view_actions), by one user who uses the pages
\* and does not execute whole processes.
THEOREM CoveredGetsNoMore ==
  ASSUME OnPages PROVE Spec => CoveredIsDone
  <1>1. TypeOK /\ ChargedInv /\ [Next]_vars =>
          /\ ChargedInv'
          /\ [\A b \in closed : Covered(b) => Valid(b)' \subseteq Valid(b)]_vars
    BY ChargedStep
  <1>2. QED BY <1>1, ChargedInit, TypeInit, TypeStep, PTL DEF Spec, CoveredIsDone

\* What was rejected stays so (STATE_HELP of REJECTED), on the same terms.
THEOREM RejectedForGood ==
  ASSUME OnPages PROVE Spec => RejectedIsFinal
  <1>1. TypeOK /\ ChargedInv /\ [Next]_vars =>
          /\ ChargedInv'
          /\ [\A t \in Transactions : state[t] = "REJECTED" => state'[t] = "REJECTED"]_vars
    BY ChargedStep
  <1>2. QED BY <1>1, ChargedInit, TypeInit, TypeStep, PTL DEF Spec, RejectedIsFinal

===============================================================================
