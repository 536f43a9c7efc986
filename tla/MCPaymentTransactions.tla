------------------------ MODULE MCPaymentTransactions ------------------------
(* Three transactions for two bills, and two processes: one is in a process, *)
(* rejected and reissued while another is in the same or another process.    *)
EXTENDS PaymentTransactions, TLC

\* A part of a bill, all of it, and a refund.
SomeAmounts == {1, 2, -2}

Symmetry == Permutations(Transactions) \cup Permutations(Processes)

===============================================================================
