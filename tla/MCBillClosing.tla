----------------------------- MODULE MCBillClosing -----------------------------
(* Two bills closed, edited and billed by two users over the end of a year. *)
EXTENDS BillClosing, TLC

Symmetry == Permutations(Bills) \cup Permutations(Users)

===============================================================================
