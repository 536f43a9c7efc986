----------------------------- MODULE OrderedSet -----------------------------
(***************************************************************************)
(* The set that remembers the order of insertion, the class OrderedSet of  *)
(* orchestra/utils/python.py.  The doubly linked list of the class is the  *)
(* relation "before": <<a, b>> is in it when the iteration yields a        *)
(* earlier than b.                                                         *)
(***************************************************************************)

Empty == [keys |-> {}, before |-> {}]

\* The strict linear orders of the set K: what a set of keys inserted one
\* after the other, in an order the code does not fix, may end up as.
IsLinearOrder(R, K) ==
  /\ R \subseteq K \X K
  /\ \A a \in K : <<a, a>> \notin R
  /\ \A a, b \in K : a # b => (<<a, b>> \in R \/ <<b, a>> \in R)
  /\ \A a, b, c \in K : <<a, b>> \in R /\ <<b, c>> \in R => <<a, c>> \in R

LinearOrders(K) == {R \in SUBSET (K \X K) : IsLinearOrder(R, K)}

IsOrderedSet(s) == IsLinearOrder(s.before, s.keys)

\* add(): a key that is already there keeps its place.
Add(s, k) ==
  IF k \in s.keys
  THEN s
  ELSE [keys |-> s.keys \cup {k}, before |-> s.before \cup (s.keys \X {k})]

\* discard(), and remove() whose KeyError the callers swallow.
Discard(s, k) ==
  [keys   |-> s.keys \ {k},
   before |-> s.before \cap ((s.keys \ {k}) \X (s.keys \ {k}))]

\* discard() then add() of each key of K, taken in the order R.
MoveToEnd(s, K, R) ==
  LET rest == s.keys \ K IN
  [keys   |-> rest \cup K,
   before |-> (s.before \cap (rest \X rest)) \cup (rest \X K) \cup R]

\* Whether the iteration yields a before b.
Precedes(s, a, b) == <<a, b>> \in s.before
=============================================================================
