---------------------------- MODULE Services_proofs ----------------------------
(***************************************************************************)
(* Proofs about how services are configured, one section for each part:    *)
(*   - the collection of the operations of a request (OperationCollector), *)
(*   - the privileges of MySQL (Databases),                                *)
(*   - the logins of system users (SystemUsers),                           *)
(*   - the reloads of Apache (WebServer),                                  *)
(*   - the zones of domains (DomainZones),                                 *)
(*   - the files of Postfix (MailAddresses).                               *)
(* Each defines the invariant its properties follow from, what the         *)
(* component keeps between its steps, and shows that it is inductive.      *)
(* Constants have any values that the assumptions of the components allow. *)
(***************************************************************************)
EXTENDS OperationCollector, Hosting, Integers, FiniteSets, Sequences, NaturalsInduction,
        WellFoundedInduction, FunctionTheorems, FiniteSetTheorems, TLAPS

-----------------------------------------------------------------------------
(* The collection of operations *)

\* A new OrderedSet() is one.
LEMMA EmptyIsOrdered == IsOrderedSet(Empty)
  BY DEF IsOrderedSet, IsLinearOrder, Empty

\* add() keeps the keys in one line, the new one at its end.
LEMMA AddIsOrdered ==
  ASSUME NEW s, NEW k, IsOrderedSet(s)
  PROVE  /\ IsOrderedSet(Add(s, k))
         /\ Add(s, k).keys = s.keys \cup {k}
         /\ \A a, b \in s.keys : Precedes(s, a, b) => Precedes(Add(s, k), a, b)
  <1>1. CASE k \in s.keys
    BY <1>1 DEF Add, IsOrderedSet
  <1>2. CASE k \notin s.keys
    <2>1. /\ Add(s, k).keys = s.keys \cup {k}
          /\ Add(s, k).before = s.before \cup (s.keys \X {k})
      BY <1>2 DEF Add
    <2>2. IsLinearOrder(s.before \cup (s.keys \X {k}), s.keys \cup {k})
      <3> DEFINE R == s.before \cup (s.keys \X {k})
                 K == s.keys \cup {k}
      <3>1. IsLinearOrder(s.before, s.keys)
        BY DEF IsOrderedSet
      <3>2. R \subseteq K \X K
        BY <3>1 DEF IsLinearOrder
      <3>3. \A a \in K : <<a, a>> \notin R
        BY <1>2, <3>1 DEF IsLinearOrder
      <3>4. \A a, b \in K : a # b => (<<a, b>> \in R \/ <<b, a>> \in R)
        BY <3>1 DEF IsLinearOrder
      <3>5. \A a, b, c \in K : <<a, b>> \in R /\ <<b, c>> \in R => <<a, c>> \in R
        BY <1>2, <3>1 DEF IsLinearOrder
      <3>6. QED
        BY <3>2, <3>3, <3>4, <3>5 DEF IsLinearOrder
    <2>3. QED
      BY <2>1, <2>2 DEF IsOrderedSet, Precedes
  <1>3. QED
    BY <1>1, <1>2

\* discard() takes one key out and leaves the others in their order.
LEMMA DiscardIsOrdered ==
  ASSUME NEW s, NEW k, IsOrderedSet(s)
  PROVE  /\ IsOrderedSet(Discard(s, k))
         /\ Discard(s, k).keys = s.keys \ {k}
         /\ \A a, b \in s.keys \ {k} : Precedes(s, a, b) => Precedes(Discard(s, k), a, b)
  BY DEF Discard, IsOrderedSet, IsLinearOrder, Precedes

\* Keys that are discarded and added again are the last ones, in the order
\* they were added in; the order of the others does not change.
LEMMA MoveToEndIsOrdered ==
  ASSUME NEW s, NEW K, NEW R, IsOrderedSet(s), IsLinearOrder(R, K)
  PROVE  /\ IsOrderedSet(MoveToEnd(s, K, R))
         /\ MoveToEnd(s, K, R).keys = s.keys \cup K
         /\ \A a, b \in s.keys \ K : Precedes(s, a, b) => Precedes(MoveToEnd(s, K, R), a, b)
         /\ \A a \in s.keys \ K, b \in K : Precedes(MoveToEnd(s, K, R), a, b)
  <1> DEFINE rest == s.keys \ K
             m == MoveToEnd(s, K, R)
  <1>1. /\ m.keys = rest \cup K
        /\ m.before = (s.before \cap (rest \X rest)) \cup (rest \X K) \cup R
    BY DEF MoveToEnd
  <1>2. IsLinearOrder(s.before, s.keys)
    BY DEF IsOrderedSet
  <1>3. IsLinearOrder(m.before, m.keys)
    <2>1. m.before \subseteq m.keys \X m.keys
      BY <1>1, <1>2 DEF IsLinearOrder
    <2>2. \A a \in m.keys : <<a, a>> \notin m.before
      BY <1>1, <1>2 DEF IsLinearOrder
    <2>3. \A a, b \in m.keys : a # b => (<<a, b>> \in m.before \/ <<b, a>> \in m.before)
      BY <1>1, <1>2 DEF IsLinearOrder
    <2>4. \A a, b, c \in m.keys :
            <<a, b>> \in m.before /\ <<b, c>> \in m.before => <<a, c>> \in m.before
      <3> SUFFICES ASSUME NEW a \in m.keys, NEW b \in m.keys, NEW c \in m.keys,
                          <<a, b>> \in m.before, <<b, c>> \in m.before
                   PROVE  <<a, c>> \in m.before
        OBVIOUS
      <3>1. CASE a \in K
        BY <3>1, <1>1, <1>2 DEF IsLinearOrder
      <3>2. CASE a \notin K
        BY <3>2, <1>1, <1>2 DEF IsLinearOrder
      <3>3. QED
        BY <3>1, <3>2
    <2>5. QED
      BY <2>1, <2>2, <2>3, <2>4 DEF IsLinearOrder
  <1>4. QED
    BY <1>1, <1>2, <1>3 DEF IsOrderedSet, Precedes

-----------------------------------------------------------------------------

OperationSets == [keys : SUBSET Operation, before : SUBSET (Operation \X Operation)]

\* What scheduling the saves of a set of mains leaves pending.
LEMMA ScheduleSavesEffect ==
  ASSUME TypeOK, NEW S \in SUBSET Mains, NEW C, NEW O, ScheduleSaves(S, C, O)
  PROVE  /\ operations' \in OperationSets
         /\ IsOrderedSet(operations')
         /\ \A m \in Mains : Save(m) \in operations'.keys
                               <=> Save(m) \in operations.keys \/ m \in S \cap Routed
         /\ \A m \in Mains : Delete(m) \in operations'.keys <=> Delete(m) \in operations.keys
         /\ latest' \subseteq Mains
         /\ \A m \in Mains : m \in latest' <=> \/ m \in latest \ C /\ m \notin S \cap Routed
                                               \/ m \in (S \cap Routed) \ O
  <1> DEFINE K == {Save(m) : m \in S \cap Routed}
  <1>1. PICK R \in LinearOrders(K) : operations' = MoveToEnd(operations, K, R)
    BY DEF ScheduleSaves
  <1>2. IsLinearOrder(R, K) /\ IsOrderedSet(operations)
    BY <1>1 DEF LinearOrders, TypeOK
  <1>3. /\ IsOrderedSet(operations')
        /\ operations'.keys = operations.keys \cup K
        /\ \A a, b \in operations.keys \ K :
             Precedes(operations, a, b) => Precedes(operations', a, b)
    BY <1>1, <1>2, MoveToEndIsOrdered
  <1>4. K \subseteq Operation /\ \A m \in Mains : Delete(m) \notin K
    BY DEF Save, Delete, Operation
  <1>5. operations' \in OperationSets
    <2>1. operations.keys \subseteq Operation
      BY DEF TypeOK
    <2>2. operations'.before \subseteq operations'.keys \X operations'.keys
      BY <1>3 DEF IsOrderedSet, IsLinearOrder
    <2>3. operations' = [keys |-> operations'.keys, before |-> operations'.before]
      BY <1>1 DEF MoveToEnd
    <2>4. QED
      BY <1>3, <1>4, <2>1, <2>2, <2>3 DEF OperationSets
  <1>6. \A m \in Mains : Save(m) \in K <=> m \in S \cap Routed
    BY DEF Save
  <1>7. /\ latest' \subseteq Mains
        /\ \A m \in Mains : m \in latest' <=> \/ m \in latest \ C /\ m \notin S \cap Routed
                                              \/ m \in (S \cap Routed) \ O
    BY DEF ScheduleSaves, TypeOK
  <1>8. QED
    BY <1>3, <1>4, <1>5, <1>6, <1>7

\* What scheduling the delete of a main leaves pending.
LEMMA ScheduleDeleteEffect ==
  ASSUME TypeOK, NEW m \in Mains, ScheduleDelete(m)
  PROVE  /\ operations' \in OperationSets
         /\ IsOrderedSet(operations')
         /\ \A n \in Mains : Save(n) \in operations'.keys
                               <=> Save(n) \in operations.keys /\ n # m
         /\ \A n \in Mains : Delete(n) \in operations'.keys
                               <=> Delete(n) \in operations.keys \/ (n = m /\ m \in Routed)
  <1> DEFINE rest == Discard(operations, Save(m))
  <1>1. IsOrderedSet(operations) /\ operations.keys \subseteq Operation
    BY DEF TypeOK
  <1>2. /\ IsOrderedSet(rest)
        /\ rest.keys = operations.keys \ {Save(m)}
        /\ \A a, b \in operations.keys \ {Save(m)} :
             Precedes(operations, a, b) => Precedes(rest, a, b)
    BY <1>1, DiscardIsOrdered
  <1>3. /\ IsOrderedSet(Add(rest, Delete(m)))
        /\ Add(rest, Delete(m)).keys = rest.keys \cup {Delete(m)}
        /\ \A a, b \in rest.keys :
             Precedes(rest, a, b) => Precedes(Add(rest, Delete(m)), a, b)
    BY <1>2, AddIsOrdered
  <1>4. /\ \A n \in Mains : Save(n) = Save(m) <=> n = m
        /\ \A n \in Mains : Delete(n) = Delete(m) <=> n = m
        /\ \A n, p \in Mains : Save(n) # Delete(p)
        /\ Delete(m) \in Operation
    BY DEF Save, Delete, Operation
  <1>5. \A a, b \in Mains : Precedes(operations, Delete(a), Delete(b))
                              => Delete(a) \in rest.keys /\ Delete(b) \in rest.keys
    BY <1>1, <1>2, <1>4 DEF Precedes, IsOrderedSet, IsLinearOrder
  <1>6. rest = [keys |-> rest.keys, before |-> rest.before]
    BY DEF Discard
  <1>7. CASE m \in Routed
    <2>1. operations' = Add(rest, Delete(m))
      BY <1>7 DEF ScheduleDelete
    <2>2. operations' = [keys |-> operations'.keys, before |-> operations'.before]
      BY <2>1, <1>6 DEF Add
    <2>3. operations'.before \subseteq operations'.keys \X operations'.keys
      BY <2>1, <1>3 DEF IsOrderedSet, IsLinearOrder
    <2>4. operations' \in OperationSets
      BY <1>1, <1>2, <1>3, <1>4, <2>1, <2>2, <2>3 DEF OperationSets
    <2>5. QED
      BY <1>2, <1>3, <1>4, <1>5, <1>7, <2>1, <2>4
  <1>8. CASE m \notin Routed
    <2>1. operations' = rest
      BY <1>8 DEF ScheduleDelete
    <2>2. rest.before \subseteq rest.keys \X rest.keys
      BY <1>2 DEF IsOrderedSet, IsLinearOrder
    <2>3. operations' \in OperationSets
      BY <1>1, <1>2, <1>6, <2>1, <2>2 DEF OperationSets
    <2>4. QED
      BY <1>2, <1>4, <1>5, <1>8, <2>1, <2>3
  <1>9. QED
    BY <1>7, <1>8

-----------------------------------------------------------------------------
\* Nothing has been collected when a request starts.
LEMMA InitTypeOK == Init => TypeOK
  <1> SUFFICES ASSUME Init PROVE TypeOK
    OBVIOUS
  <1>1. operations \in OperationSets /\ IsOrderedSet(operations)
    BY EmptyIsOrdered DEF Init, Empty, OperationSets
  <1>2. QED
    BY <1>1 DEF Init, TypeOK, OperationSets

\* Every step keeps the types, and the operations an ordered set.
LEMMA NextTypeOK == TypeOK /\ [Next]_vars => TypeOK'
  <1> SUFFICES ASSUME TypeOK, [Next]_vars PROVE TypeOK'
    OBVIOUS
  <1> USE DEF TypeOK, OperationSets
  <1>1. ASSUME NEW m \in Mains, NEW ignored \in BOOLEAN, SaveMain(m, ignored)
        PROVE  TypeOK'
    <2>1. CASE ignored
      BY <1>1, <2>1 DEF SaveMain, vars
    <2>2. CASE ~ignored
      <3>1. ScheduleSaves({m}, {m}, {})
        BY <1>1, <2>2 DEF SaveMain
      <3>2. operations' \in OperationSets /\ IsOrderedSet(operations') /\ latest' \subseteq Mains
        BY <3>1, ScheduleSavesEffect
      <3>3. cachedOld' \in [Relateds -> SUBSET Mains]
        BY <1>1, <2>2 DEF SaveMain, BecomesOldElsewhere
      <3>4. QED
        BY <1>1, <2>2, <3>2, <3>3 DEF SaveMain
    <2>3. QED
      BY <2>1, <2>2
  <1>2. ASSUME NEW m \in Mains, DeleteMain(m)
        PROVE  TypeOK'
    <2>1. operations' \in OperationSets /\ IsOrderedSet(operations')
      BY <1>2, ScheduleDeleteEffect DEF DeleteMain
    <2>2. QED
      BY <1>2, <2>1 DEF DeleteMain
  <1>3. ASSUME NEW r \in Relateds, SaveRelated(r)
        PROVE  TypeOK'
    <2>1. Candidates(links[r]) \subseteq Mains
      BY <1>3 DEF Candidates
    <2>2. operations' \in OperationSets /\ IsOrderedSet(operations') /\ latest' \subseteq Mains
      BY <1>3, <2>1, ScheduleSavesEffect DEF SaveRelated
    <2>3. QED
      BY <1>3, <2>1, <2>2 DEF SaveRelated
  <1>4. ASSUME NEW r \in Relateds, DeleteRelated(r)
        PROVE  TypeOK'
    <2>1. Candidates(links[r]) \subseteq Mains
      BY <1>4 DEF Candidates
    <2>2. operations' \in OperationSets /\ IsOrderedSet(operations') /\ latest' \subseteq Mains
      BY <1>4, <2>1, ScheduleSavesEffect DEF DeleteRelated
    <2>3. QED
      BY <1>4, <2>1, <2>2 DEF DeleteRelated
  <1>5. ASSUME NEW r \in FKs, NEW m \in Mains, CreateFK(r, m)
        PROVE  TypeOK'
    <2>1. Candidates({m}) \subseteq Mains /\ r \in Relateds
      BY <1>5 DEF Candidates, Relateds
    <2>2. operations' \in OperationSets /\ IsOrderedSet(operations') /\ latest' \subseteq Mains
      BY <1>5, <2>1, ScheduleSavesEffect DEF CreateFK
    <2>3. QED
      BY <1>5, <2>1, <2>2 DEF CreateFK
  <1>6. ASSUME NEW r \in M2Ms, NEW pk_set \in SUBSET Mains, AddLinks(r, pk_set)
        PROVE  TypeOK'
    <2>1. Candidates(pk_set) \subseteq Mains /\ r \in Relateds
      BY <1>6 DEF Candidates, Relateds
    <2>2. operations' \in OperationSets /\ IsOrderedSet(operations') /\ latest' \subseteq Mains
      BY <1>6, <2>1, ScheduleSavesEffect DEF AddLinks
    <2>3. QED
      BY <1>6, <2>1, <2>2 DEF AddLinks
  <1>7. ASSUME NEW r \in M2Ms, NEW pk_set \in SUBSET Mains, RemoveLinks(r, pk_set)
        PROVE  TypeOK'
    BY <1>7 DEF RemoveLinks, Relateds
  <1>8. CASE NextRequest
    BY <1>8, EmptyIsOrdered DEF NextRequest, Empty
  <1>9. CASE UNCHANGED vars
    BY <1>9 DEF vars
  <1>10. QED
    BY <1>1, <1>2, <1>3, <1>4, <1>5, <1>6, <1>7, <1>8, <1>9 DEF Next

\* The types of the collector, and that its operations are an ordered set.
THEOREM TypeCorrect == Spec => []TypeOK
  BY InitTypeOK, NextTypeOK, PTL DEF Spec
-----------------------------------------------------------------------------
\* The invariant holds when nothing has been collected.
LEMMA InitCollectorInv == Init => CollectorInv
  BY DEF Init, Empty, CollectorInv, NoSaveOfDeleted, ChangesCollected,
         PendingSaveIsLastState

\* What a set of saves scheduled for mains in the database, those that have
\* no delete pending, leaves of the invariant; "more" is what the step adds to
\* the mains that changed.
LEMMA SavesKeepInv ==
  ASSUME TypeOK, CollectorInv, NEW S \in SUBSET Mains, NEW more \in SUBSET Mains,
         NEW C, NEW O, ScheduleSaves(S, C, O),
         rows' = rows, outdated' = outdated \cup more,
         more \subseteq rows, more \subseteq S,
         \A m \in S : m \in rows \/ m \notin Routed
  PROVE  /\ NoSaveOfDeleted'
         /\ ChangesCollected'
         /\ \A m \in Mains : Save(m) \in operations'.keys => m \in Routed
         /\ \A m \in Mains : Delete(m) \in operations'.keys => m \notin rows' /\ m \in outdated'
  <1>1. NoSaveOfDeleted' /\ ChangesCollected'
    BY ScheduleSavesEffect, CollectorAssumption
       DEF CollectorInv, NoSaveOfDeleted, ChangesCollected
  <1>2. QED
    BY <1>1, ScheduleSavesEffect DEF CollectorInv

\* Copies made of up to date instances leave every pending save up to date.
LEMMA SavesAreFresh ==
  ASSUME TypeOK, PendingSaveIsLastState, NEW S \in SUBSET Mains,
         NEW C, NEW O, \A m \in Mains : m \notin C /\ m \notin O,
         ScheduleSaves(S, C, O)
  PROVE  PendingSaveIsLastState'
  <1>1. /\ \A m \in Mains : Save(m) \in operations'.keys
                              <=> Save(m) \in operations.keys \/ m \in S \cap Routed
        /\ \A m \in Mains : m \in latest' <=> \/ m \in latest \ C /\ m \notin S \cap Routed
                                              \/ m \in (S \cap Routed) \ O
    BY ScheduleSavesEffect
  <1>2. QED
    BY <1>1 DEF PendingSaveIsLastState

\* Every step keeps the invariant.
LEMMA NextCollectorInv == TypeOK /\ CollectorInv /\ [Next]_vars => CollectorInv'
  <1> SUFFICES ASSUME TypeOK, CollectorInv, [Next]_vars PROVE CollectorInv'
    OBVIOUS
  \* a main that a related instance reaches and has no delete pending is in
  \* the database, or has no route
  <1>a. \A r \in Relateds : \A m \in Candidates(links[r]) : m \in rows \/ m \notin Routed
    BY DEF Candidates, CollectorInv, ChangesCollected, TypeOK
  <1>b. \A S \in SUBSET Mains : S \cap rows \subseteq Candidates(S)
    BY DEF Candidates, CollectorInv
  <1>1. ASSUME NEW m \in Mains, NEW ignored \in BOOLEAN, SaveMain(m, ignored)
        PROVE  CollectorInv'
    <2>1. CASE ignored
      <3>1. UNCHANGED vars
        BY <1>1, <2>1 DEF SaveMain
      <3>2. QED
        BY <3>1 DEF vars, CollectorInv, NoSaveOfDeleted, ChangesCollected,
                    PendingSaveIsLastState
    <2>2. CASE ~ignored
      <3>1. /\ ScheduleSaves({m}, {m}, {})
            /\ rows' = rows \cup {m}
            /\ outdated' = outdated \cup {m}
            /\ links' = links /\ saved' = saved
            /\ m \in rows \/ m \notin outdated
            /\ BecomesOldElsewhere(m)
        BY <1>1, <2>2 DEF SaveMain
      <3>2. /\ \A n \in Mains : Save(n) \in operations'.keys
                                  <=> Save(n) \in operations.keys \/ n \in {m} \cap Routed
            /\ \A n \in Mains : Delete(n) \in operations'.keys
                                  <=> Delete(n) \in operations.keys
        BY <3>1, ScheduleSavesEffect
      <3>3. NoSaveOfDeleted' /\ ChangesCollected'
        BY <3>1, <3>2, CollectorAssumption DEF CollectorInv, NoSaveOfDeleted, ChangesCollected
      <3>4. /\ \A n \in Mains : Save(n) \in operations'.keys => n \in Routed
            /\ \A n \in Mains : Delete(n) \in operations'.keys
                                  => n \notin rows' /\ n \in outdated'
        BY <3>1, <3>2 DEF CollectorInv
      <3>5. /\ \A r \in Relateds : \A n \in links'[r] \ rows' : n \in outdated'
            /\ \A r \in saved' : links'[r] \cap rows' \subseteq outdated'
        BY <3>1 DEF CollectorInv
      <3>6. ~StaleReads => PendingSaveIsLastState' /\ \A r \in Relateds : cachedOld'[r] = {}
        <4>1. ASSUME ~StaleReads PROVE \A r \in Relateds : cachedOld'[r] = {}
          BY <4>1, <3>1 DEF BecomesOldElsewhere, CollectorInv
        <4>2. QED
          BY <4>1, <3>1, <3>2, ScheduleSavesEffect DEF CollectorInv, PendingSaveIsLastState
      <3>7. QED
        BY <3>3, <3>4, <3>5, <3>6 DEF CollectorInv
    <2>3. QED
      BY <2>1, <2>2
  <1>2. ASSUME NEW m \in Mains, DeleteMain(m)
        PROVE  CollectorInv'
    <2>1. /\ \A n \in Mains : Save(n) \in operations'.keys
                                <=> Save(n) \in operations.keys /\ n # m
          /\ \A n \in Mains : Delete(n) \in operations'.keys
                                <=> Delete(n) \in operations.keys \/ (n = m /\ m \in Routed)
      BY <1>2, ScheduleDeleteEffect DEF DeleteMain
    <2>2. NoSaveOfDeleted' /\ ChangesCollected'
      BY <1>2, <2>1, CollectorAssumption
         DEF DeleteMain, CollectorInv, NoSaveOfDeleted, ChangesCollected
    <2>3. /\ \A n \in Mains : Save(n) \in operations'.keys => n \in Routed
          /\ \A n \in Mains : Delete(n) \in operations'.keys => n \notin rows' /\ n \in outdated'
      BY <1>2, <2>1 DEF DeleteMain, CollectorInv
    <2>4. \A r \in Relateds : links'[r] \subseteq links[r]
      BY <1>2 DEF DeleteMain, TypeOK
    <2>5. /\ \A r \in Relateds : \A n \in links'[r] \ rows' : n \in outdated'
          /\ \A r \in saved' : links'[r] \cap rows' \subseteq outdated'
      BY <1>2, <2>4 DEF DeleteMain, CollectorInv, TypeOK
    <2>6. ~StaleReads => PendingSaveIsLastState' /\ \A r \in Relateds : cachedOld'[r] = {}
      BY <1>2, <2>1 DEF DeleteMain, CollectorInv, PendingSaveIsLastState
    <2>7. QED
      BY <2>2, <2>3, <2>5, <2>6 DEF CollectorInv
  <1>3. ASSUME NEW r \in Relateds, SaveRelated(r)
        PROVE  CollectorInv'
    <2> DEFINE S == Candidates(links[r])
               more == links[r] \cap rows
    <2>1. /\ S \in SUBSET Mains /\ more \in SUBSET Mains
          /\ more \subseteq rows /\ more \subseteq S
      BY <1>b DEF Candidates, TypeOK
    <2>2. /\ NoSaveOfDeleted' /\ ChangesCollected'
          /\ \A m \in Mains : Save(m) \in operations'.keys => m \in Routed
          /\ \A m \in Mains : Delete(m) \in operations'.keys => m \notin rows' /\ m \in outdated'
      <3> HIDE DEF S, more
      <3>1. /\ ScheduleSaves(S, {}, cachedOld[r]) /\ rows' = rows /\ outdated' = outdated \cup more
            /\ \A m \in S : m \in rows \/ m \notin Routed
        BY <1>3, <1>a DEF SaveRelated, S, more
      <3>2. QED
        BY <2>1, <3>1, SavesKeepInv
    <2>3. /\ \A q \in Relateds : \A n \in links'[q] \ rows' : n \in outdated'
          /\ \A q \in saved' : links'[q] \cap rows' \subseteq outdated'
      BY <1>3 DEF SaveRelated, CollectorInv
    <2>4. ASSUME ~StaleReads
          PROVE  PendingSaveIsLastState' /\ \A q \in Relateds : cachedOld'[q] = {}
      <3>1. PendingSaveIsLastState /\ \A q \in Relateds : cachedOld[q] = {}
        BY <2>4 DEF CollectorInv
      <3>2. \A q \in Relateds : cachedOld'[q] = {}
        BY <1>3, <3>1 DEF SaveRelated, TypeOK
      <3>3. PendingSaveIsLastState'
        <4> HIDE DEF S
        <4>1. ScheduleSaves(S, {}, cachedOld[r])
          BY <1>3 DEF SaveRelated, S
        <4>2. QED
          BY <2>1, <3>1, <4>1, SavesAreFresh
      <3>4. QED
        BY <3>2, <3>3
    <2>5. QED
      BY <2>2, <2>3, <2>4 DEF CollectorInv
  <1>4. ASSUME NEW r \in Relateds, DeleteRelated(r)
        PROVE  CollectorInv'
    <2> DEFINE S == Candidates(links[r])
               more == links[r] \cap rows
    <2>1. /\ S \in SUBSET Mains /\ more \in SUBSET Mains
          /\ more \subseteq rows /\ more \subseteq S
      BY <1>b DEF Candidates, TypeOK
    <2>2. /\ NoSaveOfDeleted' /\ ChangesCollected'
          /\ \A m \in Mains : Save(m) \in operations'.keys => m \in Routed
          /\ \A m \in Mains : Delete(m) \in operations'.keys => m \notin rows' /\ m \in outdated'
      <3> HIDE DEF S, more
      <3>1. /\ ScheduleSaves(S, {}, cachedOld[r]) /\ rows' = rows /\ outdated' = outdated \cup more
            /\ \A m \in S : m \in rows \/ m \notin Routed
        BY <1>4, <1>a DEF DeleteRelated, S, more
      <3>2. QED
        BY <2>1, <3>1, SavesKeepInv
    <2>3. /\ \A q \in Relateds : \A n \in links'[q] \ rows' : n \in outdated'
          /\ \A q \in saved' : links'[q] \cap rows' \subseteq outdated'
      BY <1>4 DEF DeleteRelated, CollectorInv, TypeOK
    <2>4. ASSUME ~StaleReads
          PROVE  PendingSaveIsLastState' /\ \A q \in Relateds : cachedOld'[q] = {}
      <3>1. PendingSaveIsLastState /\ \A q \in Relateds : cachedOld[q] = {}
        BY <2>4 DEF CollectorInv
      <3>2. \A q \in Relateds : cachedOld'[q] = {}
        BY <1>4, <3>1 DEF DeleteRelated, TypeOK
      <3>3. PendingSaveIsLastState'
        <4> HIDE DEF S
        <4>1. ScheduleSaves(S, {}, cachedOld[r])
          BY <1>4 DEF DeleteRelated, S
        <4>2. QED
          BY <2>1, <3>1, <4>1, SavesAreFresh
      <3>4. QED
        BY <3>2, <3>3
    <2>5. QED
      BY <2>2, <2>3, <2>4 DEF CollectorInv
  <1>5. ASSUME NEW r \in FKs, NEW m \in Mains, CreateFK(r, m)
        PROVE  CollectorInv'
    <2> DEFINE S == Candidates({m})
    <2>1. /\ S \in SUBSET Mains /\ {m} \in SUBSET Mains
          /\ {m} \subseteq rows /\ {m} \subseteq S /\ r \in Relateds
      BY <1>5, <1>b DEF Candidates, CreateFK, Relateds
    <2>2. /\ NoSaveOfDeleted' /\ ChangesCollected'
          /\ \A n \in Mains : Save(n) \in operations'.keys => n \in Routed
          /\ \A n \in Mains : Delete(n) \in operations'.keys => n \notin rows' /\ n \in outdated'
      <3>1. \A n \in S : n \in rows \/ n \notin Routed
        BY <2>1 DEF Candidates
      <3> HIDE DEF S
      <3>2. ScheduleSaves(S, {}, {}) /\ rows' = rows /\ outdated' = outdated \cup {m}
        BY <1>5 DEF CreateFK, S
      <3>3. QED
        BY <2>1, <3>1, <3>2, SavesKeepInv
    <2>3. /\ \A q \in Relateds : \A n \in links'[q] \ rows' : n \in outdated'
          /\ \A q \in saved' : links'[q] \cap rows' \subseteq outdated'
      BY <1>5, <2>1 DEF CreateFK, CollectorInv, TypeOK
    <2>4. ASSUME ~StaleReads
          PROVE  PendingSaveIsLastState' /\ \A q \in Relateds : cachedOld'[q] = {}
      <3>1. PendingSaveIsLastState /\ \A q \in Relateds : cachedOld[q] = {}
        BY <2>4 DEF CollectorInv
      <3>2. \A q \in Relateds : cachedOld'[q] = {}
        BY <1>5, <3>1 DEF CreateFK, TypeOK
      <3>3. PendingSaveIsLastState'
        <4> HIDE DEF S
        <4>1. ScheduleSaves(S, {}, {})
          BY <1>5 DEF CreateFK, S
        <4>2. QED
          BY <2>1, <3>1, <4>1, SavesAreFresh
      <3>4. QED
        BY <3>2, <3>3
    <2>5. QED
      BY <2>2, <2>3, <2>4 DEF CollectorInv
  <1>6. ASSUME NEW r \in M2Ms, NEW pk_set \in SUBSET Mains, AddLinks(r, pk_set)
        PROVE  CollectorInv'
    <2> DEFINE S == Candidates(pk_set)
    <2>1. /\ S \in SUBSET Mains /\ pk_set \subseteq rows /\ pk_set \subseteq S /\ r \in Relateds
      BY <1>6, <1>b DEF Candidates, AddLinks, Relateds
    <2>2. /\ NoSaveOfDeleted' /\ ChangesCollected'
          /\ \A n \in Mains : Save(n) \in operations'.keys => n \in Routed
          /\ \A n \in Mains : Delete(n) \in operations'.keys => n \notin rows' /\ n \in outdated'
      <3>1. \A n \in S : n \in rows \/ n \notin Routed
        BY <2>1 DEF Candidates
      <3> HIDE DEF S
      <3>2. ScheduleSaves(S, {}, cachedOld[r]) /\ rows' = rows /\ outdated' = outdated \cup pk_set
        BY <1>6 DEF AddLinks, S
      <3>3. QED
        BY <2>1, <3>1, <3>2, SavesKeepInv
    <2>3. /\ \A q \in Relateds : \A n \in links'[q] \ rows' : n \in outdated'
          /\ \A q \in saved' : links'[q] \cap rows' \subseteq outdated'
      BY <1>6, <2>1 DEF AddLinks, CollectorInv, TypeOK
    <2>4. ASSUME ~StaleReads
          PROVE  PendingSaveIsLastState' /\ \A q \in Relateds : cachedOld'[q] = {}
      <3>1. PendingSaveIsLastState /\ \A q \in Relateds : cachedOld[q] = {}
        BY <2>4 DEF CollectorInv
      <3>2. \A q \in Relateds : cachedOld'[q] = {}
        BY <1>6, <3>1 DEF AddLinks, TypeOK
      <3>3. PendingSaveIsLastState'
        <4> HIDE DEF S
        <4>1. ScheduleSaves(S, {}, cachedOld[r])
          BY <1>6 DEF AddLinks, S
        <4>2. QED
          BY <2>1, <3>1, <4>1, SavesAreFresh
      <3>4. QED
        BY <3>2, <3>3
    <2>5. QED
      BY <2>2, <2>3, <2>4 DEF CollectorInv
  <1>7. ASSUME NEW r \in M2Ms, NEW pk_set \in SUBSET Mains, RemoveLinks(r, pk_set)
        PROVE  CollectorInv'
    <2>1. r \in saved /\ pk_set \subseteq links[r] /\ r \in Relateds
      BY <1>7 DEF RemoveLinks, Relateds
    \* the mains that go were all collected by the save of r
    <2>2. pk_set \cap rows \subseteq outdated /\ pk_set \ rows \subseteq outdated
      BY <2>1 DEF CollectorInv
    <2>3. outdated' = outdated
      BY <1>7, <2>2 DEF RemoveLinks
    <2>4. \A q \in Relateds : links'[q] \subseteq links[q]
      BY <1>7 DEF RemoveLinks, TypeOK
    <2>5. QED
      BY <1>7, <2>3, <2>4
         DEF RemoveLinks, CollectorInv, NoSaveOfDeleted, ChangesCollected,
             PendingSaveIsLastState, TypeOK
  <1>8. CASE NextRequest
    BY <1>8 DEF NextRequest, Empty, CollectorInv, NoSaveOfDeleted, ChangesCollected,
                PendingSaveIsLastState
  <1>9. CASE UNCHANGED vars
    BY <1>9 DEF vars, CollectorInv, NoSaveOfDeleted, ChangesCollected, PendingSaveIsLastState
  <1>10. QED
    BY <1>1, <1>2, <1>3, <1>4, <1>5, <1>6, <1>7, <1>8, <1>9 DEF Next

\* The inductive invariant holds for any mains, related instances and routes.
THEOREM CollectorInvariant == Spec => []CollectorInv
  BY TypeCorrect, InitCollectorInv, NextCollectorInv, PTL DEF Spec

\* A save that would recreate a deleted instance is never pending.
THEOREM NeverSavesDeleted == Spec => []NoSaveOfDeleted
  <1>1. CollectorInv => NoSaveOfDeleted
    BY DEF CollectorInv
  <1>2. QED
    BY <1>1, CollectorInvariant, PTL

\* Every main with a route that the request changed has its operation pending.
THEOREM AllChangesCollected == Spec => []ChangesCollected
  <1>1. CollectorInv => ChangesCollected
    BY DEF CollectorInv
  <1>2. QED
    BY <1>1, CollectorInvariant, PTL

\* When cached attributes are up to date, pending saves carry the last state.
THEOREM SavesAreLastState == ASSUME ~StaleReads PROVE Spec => []PendingSaveIsLastState
  <1>1. CollectorInv => PendingSaveIsLastState
    BY DEF CollectorInv
  <1>2. QED
    BY <1>1, CollectorInvariant, PTL

-----------------------------------------------------------------------------
(* The privileges of MySQL *)

Commands(script) == {script[i] : i \in DOMAIN script}

\* A script is about one database, if any: each command but the last says which.
IsAbout(script, n) == \A c \in Commands(script) : c.do = "flush" \/ c.name = n

\* It deletes privileges before it grants any, and ends flushing them.
OrderedScript(script) ==
  \A i, j \in DOMAIN script : i < j =>
    /\ script[i].do # "flush"
    /\ script[i].do = "grant" => script[j].do \notin {"reset", "revoke"}
EndsFlushing(script) == script # << >> => \E c \in Commands(script) : c.do = "flush"

ScriptsAreWhole ==
  \A r \in Requests :
    /\ dbPhase[r] = "none" => dbScript[r] = << >> /\ dbUserScript[r] = << >>
    /\ OrderedScript(dbScript[r]) /\ EndsFlushing(dbScript[r])
    /\ \E n \in DatabaseNames : IsAbout(dbScript[r], n)

\* Who is a user of a database has a permision.
UsersHaveRows ==
  \A n \in DatabaseNames : databases[n] # None => \A u \in databases[n] : permision[u] # None

\* What is still to come for the privileges of u on n.
IsToChange(r, n) == \E c \in Commands(dbScript[r]) : c.do # "flush" /\ c.name = n
Resetting(n) ==
  \E r \in Requests : \E c \in Commands(dbScript[r]) : c.do \in {"reset", "revoke"} /\ c.name = n
Granting(n, u) ==
  \E r \in Requests : \E c \in Commands(dbScript[r]) : c.do = "grant" /\ c.name = n /\ c.user = u
Forgetting(u) ==
  \E r \in Requests : \E c \in Commands(dbUserScript[r]) : c.do = "drop" /\ c.user = u

OfDatabase(n) == IF databases[n] = None THEN {} ELSE databases[n]

\* Of a database that is not excused one request is at work on its privileges; what the
\* table says, the commands to come considered, is what the rows say; and memory is as
\* the table, or is going to be.
OneWorks(n) == \A r, s \in Requests : IsToChange(r, n) /\ IsToChange(s, n) => r = s
GrantsWanted(n) ==
  \A r \in Requests : \A c \in Commands(dbScript[r]) : c.do = "grant" /\ c.name = n =>
    c.user \in OfDatabase(n) /\ c.what = permision[c.user]
KeepsUsers(n) ==
  \A u \in OfDatabase(n) :
    /\ ~ Forgetting(u)
    /\ Granting(n, u) \/ (~ Resetting(n) /\ table[n][u] = permision[u])
KeepsOthersOut(n) ==
  \A u \in DatabaseUsers \ OfDatabase(n) :
    Resetting(n) \/ Forgetting(u) \/ table[n][u] = None
InMemory(n) ==
  granted[n] = table[n] \/ \E r \in Requests : dbScript[r] # << >> /\ IsAbout(dbScript[r], n)

PrivilegesOf(n) ==
  OneWorks(n) /\ GrantsWanted(n) /\ KeepsUsers(n) /\ KeepsOthersOut(n) /\ InMemory(n)

GrantsInv ==
  /\ MySQL!TypeOK /\ ScriptsAreWhole /\ UsersHaveRows
  /\ \A n \in DatabaseNames \ dbExcused : PrivilegesOf(n)

\* The order of a set's members as a sequence is any, and it has all of them.
LEMMA SetToSeqMembers ==
  ASSUME NEW S, IsFiniteSet(S)
  PROVE  MySQL!SetToSeq(S) \in Seq(S) /\ Commands(MySQL!SetToSeq(S)) = S
  <1> DEFINE n == Cardinality(S)
  <1>1. n \in Nat /\ ExistsBijection(1 .. n, S)
    BY FS_CardinalityType
  <1>2. MySQL!Cardinality(S) = n
    BY DEF MySQL!Cardinality, Cardinality
  <1>3. PICK f \in [1 .. n -> S] : \A a, b \in 1 .. n : f[a] = f[b] => a = b
    BY <1>1, Fun_BijectionProperties DEF ExistsBijection
  <1> DEFINE seq == MySQL!SetToSeq(S)
  <1>4. seq \in [1 .. n -> S] /\ MySQL!IsInjective(seq)
    <2> HIDE DEF n
    <2>1. MySQL!IsInjective(f)
      BY <1>3 DEF MySQL!IsInjective
    <2>2. seq = CHOOSE g \in [1 .. n -> S] : MySQL!IsInjective(g)
      BY <1>2 DEF MySQL!SetToSeq
    <2> HIDE DEF seq
    <2>3. QED BY <1>3, <2>1, <2>2
  <1>5. seq \in Injection(1 .. n, S)
    <2> HIDE DEF seq, n
    <2>1. QED BY <1>4, Fun_IsInj DEF MySQL!IsInjective
  <1>6. Cardinality(1 .. n) = n
    <2> HIDE DEF n
    <2>1. QED BY <1>1, FS_Interval
  <1>7. seq \in Surjection(1 .. n, S)
    <2> HIDE DEF seq
    <2>1. QED BY <1>5, <1>6, FS_Injection
  <1> HIDE DEF seq, n
  <1>8. QED
    BY <1>1, <1>4, <1>7, Fun_SurjectionProperties DEF Commands, seq

\* The first command of a script, those that follow, and the last.
ScriptOf(a, g, z) == <<a>> \o g \o <<z>>

\* A script in parts: its first command, a sequence of others, and its last.
HasParts(s, a, g, z) ==
  /\ s # << >> /\ Len(s) = Len(g) + 2 /\ DOMAIN s = 1 .. Len(g) + 2
  /\ s[1] = a /\ s[Len(g) + 2] = z /\ \A i \in 1 .. Len(g) : s[i + 1] = g[i]
  /\ Commands(s) = {a, z} \cup Commands(g)

\* Such a script has its parts in this order.
LEMMA ScriptParts ==
  ASSUME NEW S, NEW a \in S, NEW z \in S, NEW g \in Seq(S)
  PROVE  ScriptOf(a, g, z) \in Seq(S) /\ HasParts(ScriptOf(a, g, z), a, g, z)
  <1> DEFINE s == ScriptOf(a, g, z)
  <1>1. /\ s \in Seq(S) /\ Len(s) = Len(g) + 2 /\ DOMAIN s = 1 .. Len(g) + 2
        /\ s[1] = a /\ s[Len(g) + 2] = z /\ \A i \in 1 .. Len(g) : s[i + 1] = g[i]
    BY DEF ScriptOf
  <1> HIDE DEF s
  <1>2. Len(g) \in Nat /\ DOMAIN g = 1 .. Len(g)
    OBVIOUS
  <1>3. ASSUME NEW c \in Commands(s) PROVE c \in {a, z} \cup Commands(g)
    <2>1. PICK i \in 1 .. Len(g) + 2 : c = s[i]
      BY <1>1 DEF Commands
    <2>2. CASE i = 1 \/ i = Len(g) + 2
      BY <1>1, <2>1, <2>2
    <2>3. CASE i # 1 /\ i # Len(g) + 2
      <3>1. i - 1 \in 1 .. Len(g) /\ (i - 1) + 1 = i
        BY <1>2, <2>3
      <3>2. c = g[i - 1]
        BY <1>1, <2>1, <3>1
      <3>3. QED BY <1>2, <3>1, <3>2 DEF Commands
    <2>4. QED BY <2>2, <2>3
  <1>4. ASSUME NEW c \in {a, z} \cup Commands(g) PROVE c \in Commands(s)
    <2>1. CASE c \in {a, z}
      <3>1. 1 \in DOMAIN s /\ Len(g) + 2 \in DOMAIN s
        BY <1>1, <1>2
      <3>2. QED BY <1>1, <2>1, <3>1 DEF Commands
    <2>2. CASE c \in Commands(g)
      <3>1. PICK i \in 1 .. Len(g) : c = g[i]
        BY <1>2, <2>2 DEF Commands
      <3>2. i + 1 \in DOMAIN s /\ s[i + 1] = c
        BY <1>1, <1>2, <3>1
      <3>3. QED BY <3>2 DEF Commands
    <2>3. QED BY <2>1, <2>2
  <1>5. s # << >>
    BY <1>1, <1>2
  <1>6. QED
    BY <1>1, <1>3, <1>4, <1>5 DEF s, HasParts

\* The rest of a script.
HasTail(s) ==
  /\ Head(s) \in Commands(s) /\ Commands(Tail(s)) \subseteq Commands(s)
  /\ Commands(s) \subseteq Commands(Tail(s)) \cup {Head(s)}
  /\ OrderedScript(s) => OrderedScript(Tail(s))
  /\ OrderedScript(s) /\ Tail(s) # << >> => Head(s).do # "flush"
  /\ OrderedScript(s) /\ Head(s).do = "grant" =>
       \A c \in Commands(Tail(s)) : c.do \notin {"reset", "revoke"}

\* What remains of a script once its first command has run.
LEMMA TailOfScript ==
  ASSUME NEW S, NEW s \in Seq(S), s # << >>
  PROVE  Tail(s) \in Seq(S) /\ Head(s) \in S /\ HasTail(s)
  <1> DEFINE t == Tail(s)
             n == Len(s)
  <1>1. /\ n \in Nat \ {0} /\ DOMAIN s = 1 .. n /\ DOMAIN t = 1 .. n - 1 /\ t \in Seq(S)
        /\ Head(s) = s[1] /\ (\A i \in 1 .. n - 1 : t[i] = s[i + 1]) /\ s[1] \in S
        /\ (t = << >> <=> n - 1 = 0)
    <2>1. n \in Nat \ {0} /\ DOMAIN s = 1 .. n /\ Head(s) = s[1] /\ s[1] \in S
      OBVIOUS
    <2>2. t \in Seq(S) /\ Len(t) = n - 1 /\ \A i \in 1 .. n - 1 : t[i] = s[i + 1]
      OBVIOUS
    <2>3. DOMAIN t = 1 .. Len(t) /\ (t = << >> <=> Len(t) = 0)
      <3> HIDE DEF t
      <3>1. QED BY <2>2
    <2>4. QED BY <2>1, <2>2, <2>3
  <1> HIDE DEF t, n
  <1>2. Head(s) \in Commands(s)
    BY <1>1 DEF Commands
  <1>3. \A i \in DOMAIN t : i + 1 \in DOMAIN s /\ t[i] = s[i + 1] /\ 1 < i + 1 /\ 1 \in DOMAIN s
    BY <1>1
  <1>4. Commands(t) \subseteq Commands(s)
    BY <1>3 DEF Commands
  <1>5. ASSUME NEW c \in Commands(s), c # Head(s) PROVE c \in Commands(t)
    <2>1. PICK i \in 1 .. n : c = s[i]
      BY <1>1 DEF Commands
    <2>2. i # 1
      BY <1>1, <1>5, <2>1
    <2>3. i - 1 \in DOMAIN t /\ (i - 1) + 1 = i
      BY <1>1, <2>2
    <2>4. t[i - 1] = c
      BY <1>3, <2>1, <2>3
    <2>5. QED BY <2>3, <2>4 DEF Commands
  <1>6. ASSUME OrderedScript(s) PROVE OrderedScript(t)
    <2> SUFFICES ASSUME NEW i \in DOMAIN t, NEW j \in DOMAIN t, i < j
                 PROVE  /\ t[i].do # "flush"
                        /\ t[i].do = "grant" => t[j].do \notin {"reset", "revoke"}
      BY DEF OrderedScript
    <2>1. i + 1 < j + 1
      BY <1>1
    <2>2. QED BY <1>3, <1>6, <2>1 DEF OrderedScript
  <1>7. ASSUME OrderedScript(s), t # << >> PROVE s[1].do # "flush"
    <2>1. 1 \in DOMAIN t
      BY <1>1, <1>7
    <2>2. QED BY <1>3, <1>7, <2>1 DEF OrderedScript
  <1>8. ASSUME OrderedScript(s), s[1].do = "grant"
        PROVE  \A c \in Commands(t) : c.do \notin {"reset", "revoke"}
    BY <1>3, <1>8 DEF OrderedScript, Commands
  <1>9. QED
    BY <1>1, <1>2, <1>4, <1>5, <1>6, <1>7, <1>8 DEF t, HasTail

\* What saving a database does: it deletes privileges and grants what the rows say.
SavesDatabase(s, n, users, may) ==
  /\ s \in Seq(MySQL!DbCommands) /\ s # << >> /\ OrderedScript(s) /\ EndsFlushing(s) /\ IsAbout(s, n)
  /\ \E c \in Commands(s) : c.do = "reset" /\ c.name = n
  /\ \A u \in users : \E c \in Commands(s) : c.do = "grant" /\ c.name = n /\ c.user = u
  /\ \A c \in Commands(s) : c.do = "grant" => c.user \in users /\ c.what = may[c.user]

\* The script of save, for any users of a database.
LEMMA SaveScript ==
  ASSUME IsFiniteSet(DatabaseUsers), NEW n \in DatabaseNames, NEW users \in SUBSET DatabaseUsers,
         NEW may, \A u \in users : may[u] \in MySQL!Permisions
  PROVE  SavesDatabase(MySQL!SaveDatabase(n, users, may), n, users, may)
  <1> DEFINE s == MySQL!SaveDatabase(n, users, may)
             grant(u) == [do |-> "grant", name |-> n, user |-> u, what |-> may[u]]
             Grants == {grant(u) : u \in users}
             g == MySQL!SetToSeq(Grants)
             a == [do |-> "reset", name |-> n]
             z == [do |-> "flush"]
  <1>1. IsFiniteSet(Grants)
    <2>1. IsFiniteSet(users)
      BY FS_Subset
    <2> DEFINE f == [u \in users |-> grant(u)]
    <2>2. f \in Surjection(users, Grants)
      <3>1. f \in [users -> Grants] /\ \A x \in Grants : \E u \in users : f[u] = x
        OBVIOUS
      <3> HIDE DEF f, Grants
      <3>2. QED BY <3>1, Fun_IsSurj
    <2> HIDE DEF f, Grants
    <2>3. QED BY <2>1, <2>2, FS_Surjection
  <1>2. \A u \in users : grant(u) \in MySQL!DbCommands
    BY DEF MySQL!DbCommands
  <1>3. a \in MySQL!DbCommands /\ z \in MySQL!DbCommands
    BY DEF MySQL!DbCommands
  <1>4. g \in Seq(Grants) /\ Commands(g) = Grants
    <2> HIDE DEF Grants
    <2>1. QED BY <1>1, SetToSeqMembers
  <1>5. Grants \subseteq MySQL!DbCommands
    BY <1>2
  <1>6. s = ScriptOf(a, g, z)
    BY DEF ScriptOf, MySQL!SaveDatabase, MySQL!Flush
  <1>7. \A c \in Grants : c.do = "grant" /\ c.name = n /\ c.user \in users /\ c.what = may[c.user]
    OBVIOUS
  <1>8. \A u \in users : grant(u) \in Grants /\ grant(u).user = u
    OBVIOUS
  <1>9. a.do = "reset" /\ a.name = n /\ z.do = "flush"
    OBVIOUS
  <1> HIDE DEF Grants, g, a, z, grant, s
  <1>10. g \in Seq(MySQL!DbCommands)
    BY <1>4, <1>5
  <1>11. /\ s \in Seq(MySQL!DbCommands) /\ s # << >> /\ DOMAIN s = 1 .. Len(g) + 2
         /\ s[1] = a /\ s[Len(g) + 2] = z /\ (\A i \in 1 .. Len(g) : s[i + 1] = g[i])
         /\ Commands(s) = {a, z} \cup Grants
    <2>1. s \in Seq(MySQL!DbCommands) /\ HasParts(s, a, g, z)
      BY <1>3, <1>6, <1>10, ScriptParts
    <2>2. QED BY <1>4, <2>1 DEF HasParts
  <1>12. OrderedScript(s)
    <2>1. Len(g) \in Nat /\ \A i \in 1 .. Len(g) : g[i].do = "grant"
      BY <1>4, <1>7 DEF Commands
    <2>2. \A i \in DOMAIN s : i # 1 /\ i # Len(g) + 2 => s[i].do = "grant"
      <3> SUFFICES ASSUME NEW i \in DOMAIN s, i # 1, i # Len(g) + 2 PROVE s[i].do = "grant"
        OBVIOUS
      <3>1. i - 1 \in 1 .. Len(g) /\ (i - 1) + 1 = i
        BY <1>11, <2>1
      <3>2. s[i] = g[i - 1]
        BY <1>11, <3>1
      <3>3. QED BY <2>1, <3>1, <3>2
    <2> SUFFICES ASSUME NEW i \in DOMAIN s, NEW j \in DOMAIN s, i < j
                 PROVE  /\ s[i].do # "flush"
                        /\ s[i].do = "grant" => s[j].do \notin {"reset", "revoke"}
      BY DEF OrderedScript
    <2>3. i # Len(g) + 2 /\ j # 1 /\ i \in Nat /\ j \in Nat
      BY <1>11, <2>1
    <2>4. s[i].do # "flush"
      BY <1>9, <1>11, <2>2, <2>3
    <2>5. s[j].do \notin {"reset", "revoke"}
      BY <1>9, <1>11, <2>2, <2>3
    <2>6. QED BY <2>4, <2>5
  <1>13. EndsFlushing(s) /\ IsAbout(s, n)
    BY <1>7, <1>9, <1>11 DEF EndsFlushing, IsAbout
  <1>14. QED
    BY <1>7, <1>8, <1>9, <1>11, <1>12, <1>13 DEF grant, s, SavesDatabase

\* What deleting one does.
LEMMA DeleteScript ==
  ASSUME NEW n \in DatabaseNames, NEW s, s = MySQL!DeleteDatabase(n)
  PROVE  /\ s \in Seq(MySQL!DbCommands) /\ s # << >> /\ OrderedScript(s) /\ EndsFlushing(s)
            /\ IsAbout(s, n)
         /\ \E c \in Commands(s) : c.do = "revoke" /\ c.name = n
         /\ \A c \in Commands(s) : c.do # "grant"
  <1> DEFINE a == [do |-> "drop", name |-> n]
             b == [do |-> "revoke", name |-> n]
             z == [do |-> "flush"]
  <1>1. a \in MySQL!DbCommands /\ b \in MySQL!DbCommands /\ z \in MySQL!DbCommands
    BY DEF MySQL!DbCommands
  <1>2. s = <<a, b>> \o <<z>>
    BY DEF MySQL!DeleteDatabase, MySQL!Flush
  <1>3. a.do = "drop" /\ b.do = "revoke" /\ z.do = "flush" /\ a.name = n /\ b.name = n
    OBVIOUS
  <1> HIDE DEF a, b, z
  <1>4. s \in Seq(MySQL!DbCommands) /\ DOMAIN s = 1 .. 3 /\ s[1] = a /\ s[2] = b /\ s[3] = z
    BY <1>1, <1>2
  <1>5. Commands(s) = {a, b, z}
    BY <1>4 DEF Commands
  <1>6. OrderedScript(s)
    BY <1>3, <1>4 DEF OrderedScript
  <1>7. EndsFlushing(s) /\ IsAbout(s, n) /\ s # << >>
    BY <1>3, <1>4, <1>5 DEF EndsFlushing, IsAbout
  <1>8. QED
    BY <1>3, <1>4, <1>5, <1>6, <1>7

\* Scripts of users, and none at all.
LEMMA UserScripts ==
  ASSUME NEW u \in DatabaseUsers
  PROVE  /\ MySQL!SaveUser(u) \in Seq(MySQL!UserCommands)
         /\ \A c \in Commands(MySQL!SaveUser(u)) : c.do # "drop"
         /\ MySQL!DeleteUser(u) \in Seq(MySQL!UserCommands)
         /\ \A c \in Commands(MySQL!DeleteUser(u)) : c.do = "drop" => c.user = u
         /\ \E c \in Commands(MySQL!DeleteUser(u)) : c.do = "drop" /\ c.user = u
  <1> DEFINE x == [do |-> "create", user |-> u]
             y == [do |-> "drop", user |-> u]
             z == [do |-> "flush"]
  <1>1. x \in MySQL!UserCommands /\ y \in MySQL!UserCommands /\ z \in MySQL!UserCommands
    BY DEF MySQL!UserCommands
  <1>2. /\ MySQL!SaveUser(u) = <<x>> \o <<z>> /\ MySQL!DeleteUser(u) = <<y>> \o <<z>>
    BY DEF MySQL!SaveUser, MySQL!DeleteUser, MySQL!Flush
  <1>3. x.do = "create" /\ y.do = "drop" /\ y.user = u /\ z.do = "flush"
    OBVIOUS
  <1> HIDE DEF x, y, z
  <1>4. \A p, q \in MySQL!UserCommands :
          <<p>> \o <<q>> \in Seq(MySQL!UserCommands) /\ Commands(<<p>> \o <<q>>) = {p, q}
    <2> SUFFICES ASSUME NEW p \in MySQL!UserCommands, NEW q \in MySQL!UserCommands
                 PROVE  /\ <<p>> \o <<q>> \in Seq(MySQL!UserCommands)
                        /\ Commands(<<p>> \o <<q>>) = {p, q}
      OBVIOUS
    <2>1. /\ <<p>> \o <<q>> \in Seq(MySQL!UserCommands) /\ DOMAIN (<<p>> \o <<q>>) = 1 .. 2
          /\ (<<p>> \o <<q>>)[1] = p /\ (<<p>> \o <<q>>)[2] = q
      OBVIOUS
    <2> DEFINE w == <<p>> \o <<q>>
    <2> HIDE DEF w
    <2>2. QED BY <2>1 DEF Commands, w
  <1>5. /\ MySQL!SaveUser(u) \in Seq(MySQL!UserCommands)
        /\ Commands(MySQL!SaveUser(u)) = {x, z}
    BY <1>1, <1>2, <1>4
  <1>6. /\ MySQL!DeleteUser(u) \in Seq(MySQL!UserCommands)
        /\ Commands(MySQL!DeleteUser(u)) = {y, z}
    BY <1>1, <1>2, <1>4
  <1>7. QED
    BY <1>3, <1>5, <1>6

\* The script of no command.
LEMMA NoScript ==
  /\ Commands(<< >>) = {} /\ OrderedScript(<< >>) /\ EndsFlushing(<< >>)
  /\ \A n : IsAbout(<< >>, n)
  /\ << >> \in Seq(MySQL!DbCommands) /\ << >> \in Seq(MySQL!UserCommands)
  BY DEF Commands, OrderedScript, EndsFlushing, IsAbout

\* A request commits: its scripts are those given, it had none, and nothing else moves.
DbCommitted(r, db, user) ==
  /\ dbPhase[r] = "none" /\ dbScript[r] = << >> /\ dbUserScript[r] = << >>
  /\ dbPhase' = [dbPhase EXCEPT ![r] = "executes"]
  /\ dbScript' = [dbScript EXCEPT ![r] = db] /\ dbUserScript' = [dbUserScript EXCEPT ![r] = user]
  /\ dbScript'[r] = db /\ dbUserScript'[r] = user
  /\ \A s \in Requests \ {r} : dbScript'[s] = dbScript[s] /\ dbUserScript'[s] = dbUserScript[s]
  /\ UNCHANGED <<created, there, table, granted>>

\* What a commit does to the scripts of requests.
LEMMA DbCommitEffect ==
  ASSUME GrantsInv, NEW r \in Requests, NEW excuses, NEW db, NEW user,
         MySQL!Commits(r, excuses, db, user)
  PROVE  DbCommitted(r, db, user) /\ dbExcused' = excuses
  <1>1. dbScript[r] = << >> /\ dbUserScript[r] = << >>
    BY DEF MySQL!Commits, GrantsInv, ScriptsAreWhole
  <1>2. DOMAIN dbScript = Requests /\ DOMAIN dbUserScript = Requests
    BY DEF GrantsInv, MySQL!TypeOK
  <1>3. QED
    BY <1>1, <1>2 DEF MySQL!Commits, MySQL!server, DbCommitted

\* The databases a request is not about, whose users stay, are as before.
LEMMA DbCommitOthers ==
  ASSUME GrantsInv, NEW r \in Requests, NEW db, NEW user, DbCommitted(r, db, user),
         NEW n \in DatabaseNames \ dbExcused,
         \A c \in Commands(db) : c.do = "flush" \/ c.name # n,
         \A c \in Commands(user) : c.do = "drop" => c.user \notin OfDatabase(n),
         databases'[n] = databases[n], \A u \in OfDatabase(n) : permision'[u] = permision[u]
  PROVE  PrivilegesOf(n)'
  <1>1. PrivilegesOf(n) /\ OfDatabase(n)' = OfDatabase(n)
    BY DEF GrantsInv, OfDatabase
  <1>2. Commands(dbScript[r]) = {} /\ Commands(dbUserScript[r]) = {}
    BY NoScript DEF DbCommitted
  <1>3. \A s \in Requests : \A c : c \in Commands(dbScript[s]) => c \in Commands(dbScript'[s])
    BY <1>2 DEF DbCommitted
  <1>4. \A s \in Requests : \A c : c \in Commands(dbScript'[s]) /\ c.do # "flush" /\ c.name = n
          => c \in Commands(dbScript[s])
    BY DEF DbCommitted
  <1>5. \A s \in Requests : \A c : c \in Commands(dbUserScript[s]) =>
           c \in Commands(dbUserScript'[s])
    BY <1>2 DEF DbCommitted
  <1>6. \A u \in OfDatabase(n) : Forgetting(u)' => Forgetting(u)
    BY DEF DbCommitted, Forgetting
  <1>7. \A u : Forgetting(u) => Forgetting(u)'
    BY <1>5 DEF Forgetting
  <1>8. /\ Resetting(n)' <=> Resetting(n)
        /\ \A u : Granting(n, u) => Granting(n, u)'
        /\ \A s \in Requests : IsToChange(s, n)' => IsToChange(s, n)
    BY <1>3, <1>4 DEF Resetting, Granting, IsToChange
  <1>9. OneWorks(n)'
    BY <1>1, <1>8 DEF PrivilegesOf, OneWorks
  <1>10. GrantsWanted(n)'
    BY <1>1, <1>4 DEF PrivilegesOf, GrantsWanted
  <1>11. table' = table /\ granted' = granted
    BY DEF DbCommitted
  <1>12. KeepsUsers(n)'
    BY <1>1, <1>6, <1>8, <1>11 DEF PrivilegesOf, KeepsUsers
  <1>13. KeepsOthersOut(n)'
    BY <1>1, <1>7, <1>8, <1>11 DEF PrivilegesOf, KeepsOthersOut
  <1>14. InMemory(n)'
    <2>1. CASE granted[n] = table[n]
      BY <1>11, <2>1 DEF InMemory
    <2>2. ASSUME NEW s \in Requests, dbScript[s] # << >>, IsAbout(dbScript[s], n)
          PROVE  InMemory(n)'
      <3>1. s # r
        BY <2>2 DEF DbCommitted
      <3>2. dbScript'[s] = dbScript[s]
        BY <3>1 DEF DbCommitted
      <3>3. QED BY <2>2, <3>2 DEF InMemory, IsAbout
    <2>3. QED BY <1>1, <2>1, <2>2 DEF PrivilegesOf, InMemory
  <1>15. QED
    BY <1>9, <1>10, <1>12, <1>13, <1>14 DEF PrivilegesOf

\* Of one that is saved while nothing is under way all is to come.
LEMMA CommitSaved ==
  ASSUME GrantsInv, ~ MySQL!Busy, NEW r \in Requests, NEW db, NEW user, DbCommitted(r, db, user),
         NEW n \in DatabaseNames, IsAbout(db, n), db # << >>,
         \E c \in Commands(db) : c.do \in {"reset", "revoke"} /\ c.name = n,
         \A c \in Commands(db) : c.do = "grant" =>
           c.user \in OfDatabase(n)' /\ c.what = permision'[c.user],
         \A u \in OfDatabase(n)' :
           \E c \in Commands(db) : c.do = "grant" /\ c.name = n /\ c.user = u,
         \A c \in Commands(user) : c.do # "drop"
  PROVE  PrivilegesOf(n)'
  <1>1. \A s \in Requests : dbPhase[s] = "none"
    BY DEF MySQL!Busy, GrantsInv, MySQL!TypeOK
  <1>2. \A s \in Requests : Commands(dbScript[s]) = {} /\ Commands(dbUserScript[s]) = {}
    BY <1>1, NoScript DEF GrantsInv, ScriptsAreWhole
  <1>3. /\ dbScript'[r] = db /\ dbUserScript'[r] = user
        /\ \A s \in Requests \ {r} : Commands(dbScript'[s]) = {} /\ Commands(dbUserScript'[s]) = {}
    BY <1>2 DEF DbCommitted
  <1>4. OneWorks(n)'
    BY <1>3 DEF OneWorks, IsToChange
  <1>5. GrantsWanted(n)'
    BY <1>3 DEF GrantsWanted
  <1>6. Resetting(n)' /\ \A u \in OfDatabase(n)' : Granting(n, u)'
    BY <1>3 DEF Resetting, Granting
  <1>7. \A u : ~ Forgetting(u)'
    BY <1>3 DEF Forgetting
  <1>8. KeepsUsers(n)' /\ KeepsOthersOut(n)'
    BY <1>6, <1>7 DEF KeepsUsers, KeepsOthersOut
  <1>9. InMemory(n)'
    BY <1>3 DEF InMemory, IsAbout
  <1>10. QED
    BY <1>4, <1>5, <1>8, <1>9 DEF PrivilegesOf

\* What every commit keeps, when what it does to rows and privileges is known.
LEMMA DbCommitStep ==
  ASSUME GrantsInv, NEW r \in Requests, NEW excuses \in SUBSET DatabaseNames,
         NEW db \in Seq(MySQL!DbCommands), NEW user \in Seq(MySQL!UserCommands),
         DbCommitted(r, db, user), dbExcused' = excuses,
         OrderedScript(db), EndsFlushing(db), \E n \in DatabaseNames : IsAbout(db, n),
         databases' \in [DatabaseNames -> (SUBSET DatabaseUsers) \cup {None}],
         permision' \in [DatabaseUsers -> MySQL!Permisions \cup {None}],
         UsersHaveRows', \A n \in DatabaseNames \ excuses : PrivilegesOf(n)'
  PROVE  GrantsInv'
  <1>1. MySQL!TypeOK'
    BY DEF GrantsInv, MySQL!TypeOK, DbCommitted, MySQL!Permisions, MySQL!DbCommands,
       MySQL!UserCommands
  <1>2. ScriptsAreWhole'
    <2> SUFFICES ASSUME NEW s \in Requests
                 PROVE  /\ dbPhase'[s] = "none" => dbScript'[s] = << >> /\ dbUserScript'[s] = << >>
                        /\ OrderedScript(dbScript'[s]) /\ EndsFlushing(dbScript'[s])
                        /\ \E n \in DatabaseNames : IsAbout(dbScript'[s], n)
      BY DEF ScriptsAreWhole, OrderedScript, EndsFlushing, IsAbout, Commands
    <2>1. CASE s = r
      BY <2>1 DEF DbCommitted, GrantsInv, MySQL!TypeOK
    <2>2. CASE s # r
      BY <2>2 DEF DbCommitted, GrantsInv, ScriptsAreWhole, MySQL!TypeOK
    <2>3. QED BY <2>1, <2>2
  <1>3. QED
    BY <1>1, <1>2 DEF GrantsInv

\* Each request keeps the invariant.
LEMMA AddDatabaseStep ==
  ASSUME MySQL!Assumption, GrantsInv, NEW r \in Requests, MySQL!AddDatabase(r)
  PROVE  GrantsInv'
  <1>1. PICK n \in DatabaseNames, u \in DatabaseUsers :
          LET permisions == [permision EXCEPT ![u] = IF @ = None THEN "all" ELSE @] IN
          /\ databases[n] = None
          /\ databases' = [databases EXCEPT ![n] = {u}]
          /\ permision' = permisions
          /\ MySQL!Commits(r, MySQL!Saves(n), MySQL!SaveDatabase(n, {u}, permisions),
                           MySQL!SaveUser(u))
    BY DEF MySQL!AddDatabase
  <1> DEFINE db == MySQL!SaveDatabase(n, {u}, permision')
             user == MySQL!SaveUser(u)
  <1>2. /\ databases \in [DatabaseNames -> (SUBSET DatabaseUsers) \cup {None}]
        /\ permision \in [DatabaseUsers -> MySQL!Permisions \cup {None}]
        /\ dbExcused \subseteq DatabaseNames
        /\ IsFiniteSet(DatabaseUsers) /\ None \notin SUBSET DatabaseUsers
        /\ None \notin MySQL!Permisions /\ "all" \in MySQL!Permisions
    <2>1. MySQL!IsFiniteSet(DatabaseUsers) => IsFiniteSet(DatabaseUsers)
      BY DEF MySQL!IsFiniteSet, IsFiniteSet
    <2>2. QED BY <2>1 DEF GrantsInv, MySQL!TypeOK, MySQL!Assumption, MySQL!Permisions
  <1>3. permision' = [permision EXCEPT ![u] = IF permision[u] = None THEN "all" ELSE permision[u]]
    BY <1>1
  <1>4. /\ permision' \in [DatabaseUsers -> MySQL!Permisions \cup {None}]
        /\ permision'[u] \in MySQL!Permisions
        /\ \A x \in DatabaseUsers : permision[x] # None => permision'[x] = permision[x]
    BY <1>2, <1>3
  <1>5. /\ databases' \in [DatabaseNames -> (SUBSET DatabaseUsers) \cup {None}]
        /\ databases'[n] = {u} /\ {u} # None
        /\ \A m \in DatabaseNames : m # n => databases'[m] = databases[m]
    BY <1>1, <1>2
  <1>6. MySQL!Commits(r, MySQL!Saves(n), db, user)
    BY <1>1
  <1>7. \A x \in {u} : permision'[x] \in MySQL!Permisions
    BY <1>4
  <1>8. /\ db \in Seq(MySQL!DbCommands) /\ db # << >> /\ OrderedScript(db) /\ EndsFlushing(db)
           /\ IsAbout(db, n)
        /\ \E c \in Commands(db) : c.do = "reset" /\ c.name = n
        /\ \A x \in {u} : \E c \in Commands(db) : c.do = "grant" /\ c.name = n /\ c.user = x
        /\ \A c \in Commands(db) : c.do = "grant" => c.user \in {u} /\ c.what = permision'[c.user]
    <2>1. {u} \in SUBSET DatabaseUsers
      OBVIOUS
    <2>2. SavesDatabase(db, n, {u}, permision')
      BY <1>2, <1>7, <2>1, SaveScript
    <2> HIDE DEF db
    <2>3. QED BY <2>2 DEF SavesDatabase
  <1>9. user \in Seq(MySQL!UserCommands) /\ \A c \in Commands(user) : c.do # "drop"
    BY UserScripts
  <1> HIDE DEF db, user
  <1>10. DbCommitted(r, db, user) /\ dbExcused' = MySQL!Saves(n)
    BY <1>6, DbCommitEffect
  <1>11. UsersHaveRows'
    <2> SUFFICES ASSUME NEW m \in DatabaseNames, databases'[m] # None, NEW x \in databases'[m]
                 PROVE  permision'[x] # None
      BY DEF UsersHaveRows
    <2>1. CASE m = n
      BY <1>2, <1>4, <1>5, <2>1
    <2>2. CASE m # n
      BY <1>2, <1>4, <1>5, <2>2 DEF GrantsInv, UsersHaveRows
    <2>3. QED BY <2>1, <2>2
  <1>12. ASSUME NEW m \in DatabaseNames \ MySQL!Saves(n) PROVE PrivilegesOf(m)'
    <2>1. CASE m = n
      <3>1. ~ MySQL!Busy
        BY <2>1 DEF MySQL!Saves
      <3>2. OfDatabase(n)' = {u}
        BY <1>5 DEF OfDatabase
      <3>3. QED BY <1>8, <1>9, <1>10, <2>1, <3>1, <3>2, CommitSaved
    <2>2. CASE m # n
      <3>1. m \in DatabaseNames \ dbExcused
        BY <2>2 DEF MySQL!Saves
      <3>2. \A x \in OfDatabase(m) : permision'[x] = permision[x]
        BY <1>2, <1>4 DEF OfDatabase, GrantsInv, UsersHaveRows
      <3>3. databases'[m] = databases[m] /\ \A c \in Commands(db) : c.do = "flush" \/ c.name # m
        BY <1>5, <1>8, <2>2 DEF IsAbout
      <3>4. QED BY <1>9, <1>10, <3>1, <3>2, <3>3, DbCommitOthers
    <2>3. QED BY <2>1, <2>2
  <1>13. MySQL!Saves(n) \in SUBSET DatabaseNames
    BY <1>2 DEF MySQL!Saves
  <1>14. QED
    BY <1>4, <1>5, <1>8, <1>9, <1>10, <1>11, <1>12, <1>13, DbCommitStep

\* The users of a database change: its script is about them.
LEMMA ChangeUsersStep ==
  ASSUME MySQL!Assumption, GrantsInv, NEW r \in Requests, MySQL!ChangeUsers(r)
  PROVE  GrantsInv'
  <1>1. PICK n \in DatabaseNames, users \in SUBSET {u \in DatabaseUsers : permision[u] # None} :
          /\ databases[n] \notin {None, users}
          /\ databases' = [databases EXCEPT ![n] = users]
          /\ permision' = permision
          /\ MySQL!Commits(r, MySQL!Saves(n), MySQL!SaveDatabase(n, users, permision), << >>)
    BY DEF MySQL!ChangeUsers
  <1> DEFINE db == MySQL!SaveDatabase(n, users, permision)
  <1>2. /\ databases \in [DatabaseNames -> (SUBSET DatabaseUsers) \cup {None}]
        /\ permision \in [DatabaseUsers -> MySQL!Permisions \cup {None}]
        /\ dbExcused \subseteq DatabaseNames
        /\ IsFiniteSet(DatabaseUsers) /\ None \notin SUBSET DatabaseUsers
    <2>1. MySQL!IsFiniteSet(DatabaseUsers) => IsFiniteSet(DatabaseUsers)
      BY DEF MySQL!IsFiniteSet, IsFiniteSet
    <2>2. QED BY <2>1 DEF GrantsInv, MySQL!TypeOK, MySQL!Assumption
  <1>3. users \in SUBSET DatabaseUsers /\ \A u \in users : permision[u] \in MySQL!Permisions
    BY <1>1, <1>2
  <1>4. /\ databases' \in [DatabaseNames -> (SUBSET DatabaseUsers) \cup {None}]
        /\ databases'[n] = users /\ users # None
        /\ \A m \in DatabaseNames : m # n => databases'[m] = databases[m]
    BY <1>1, <1>2, <1>3
  <1>5. /\ db \in Seq(MySQL!DbCommands) /\ db # << >> /\ OrderedScript(db) /\ EndsFlushing(db)
           /\ IsAbout(db, n)
        /\ \E c \in Commands(db) : c.do = "reset" /\ c.name = n
        /\ \A x \in users : \E c \in Commands(db) : c.do = "grant" /\ c.name = n /\ c.user = x
        /\ \A c \in Commands(db) : c.do = "grant" => c.user \in users /\ c.what = permision[c.user]
    <2>1. SavesDatabase(db, n, users, permision)
      BY <1>2, <1>3, SaveScript
    <2> HIDE DEF db
    <2>2. QED BY <2>1 DEF SavesDatabase
  <1>6. MySQL!Commits(r, MySQL!Saves(n), db, << >>)
    BY <1>1
  <1> HIDE DEF db
  <1>7. DbCommitted(r, db, << >>) /\ dbExcused' = MySQL!Saves(n)
    BY <1>6, DbCommitEffect
  <1>8. UsersHaveRows'
    <2> SUFFICES ASSUME NEW m \in DatabaseNames, databases'[m] # None, NEW x \in databases'[m]
                 PROVE  permision[x] # None
      BY <1>1 DEF UsersHaveRows
    <2>1. CASE m = n
      BY <1>1, <1>4, <2>1
    <2>2. CASE m # n
      BY <1>4, <2>2 DEF GrantsInv, UsersHaveRows
    <2>3. QED BY <2>1, <2>2
  <1>9. ASSUME NEW m \in DatabaseNames \ MySQL!Saves(n) PROVE PrivilegesOf(m)'
    <2>1. CASE m = n
      <3>1. ~ MySQL!Busy
        BY <2>1 DEF MySQL!Saves
      <3>2. OfDatabase(n)' = users
        BY <1>4 DEF OfDatabase
      <3>3. QED BY <1>1, <1>5, <1>7, <2>1, <3>1, <3>2, CommitSaved, NoScript
    <2>2. CASE m # n
      <3>1. m \in DatabaseNames \ dbExcused
        BY <2>2 DEF MySQL!Saves
      <3>2. databases'[m] = databases[m] /\ \A c \in Commands(db) : c.do = "flush" \/ c.name # m
        BY <1>4, <1>5, <2>2 DEF IsAbout
      <3>3. QED BY <1>1, <1>7, <3>1, <3>2, DbCommitOthers, NoScript
    <2>3. QED BY <2>1, <2>2
  <1>10. MySQL!Saves(n) \in SUBSET DatabaseNames
    BY <1>2 DEF MySQL!Saves
  <1>11. QED
    BY <1>1, <1>2, <1>4, <1>5, <1>7, <1>8, <1>9, <1>10, DbCommitStep, NoScript

\* A database goes: its privileges are deleted.
LEMMA RemoveDatabaseStep ==
  ASSUME MySQL!Assumption, GrantsInv, NEW r \in Requests, MySQL!RemoveDatabase(r)
  PROVE  GrantsInv'
  <1>1. PICK n \in DatabaseNames :
          /\ databases' = [databases EXCEPT ![n] = None]
          /\ permision' = permision
          /\ MySQL!Commits(r, MySQL!Saves(n), MySQL!DeleteDatabase(n), << >>)
    BY DEF MySQL!RemoveDatabase
  <1> DEFINE db == MySQL!DeleteDatabase(n)
  <1>2. /\ databases \in [DatabaseNames -> (SUBSET DatabaseUsers) \cup {None}]
        /\ permision \in [DatabaseUsers -> MySQL!Permisions \cup {None}]
        /\ dbExcused \subseteq DatabaseNames
    BY DEF GrantsInv, MySQL!TypeOK
  <1>3. /\ databases' \in [DatabaseNames -> (SUBSET DatabaseUsers) \cup {None}]
        /\ databases'[n] = None
        /\ \A m \in DatabaseNames : m # n => databases'[m] = databases[m]
    BY <1>1, <1>2
  <1>4. /\ db \in Seq(MySQL!DbCommands) /\ db # << >> /\ OrderedScript(db) /\ EndsFlushing(db)
           /\ IsAbout(db, n)
        /\ \E c \in Commands(db) : c.do = "revoke" /\ c.name = n
        /\ \A c \in Commands(db) : c.do # "grant"
    BY DeleteScript
  <1>5. MySQL!Commits(r, MySQL!Saves(n), db, << >>)
    BY <1>1
  <1> HIDE DEF db
  <1>6. DbCommitted(r, db, << >>) /\ dbExcused' = MySQL!Saves(n)
    BY <1>5, DbCommitEffect
  <1>7. UsersHaveRows'
    BY <1>1, <1>3 DEF GrantsInv, UsersHaveRows
  <1>8. ASSUME NEW m \in DatabaseNames \ MySQL!Saves(n) PROVE PrivilegesOf(m)'
    <2>1. CASE m = n
      <3>1. ~ MySQL!Busy
        BY <2>1 DEF MySQL!Saves
      <3>2. OfDatabase(n)' = {}
        BY <1>3 DEF OfDatabase
      <3>3. QED BY <1>1, <1>4, <1>6, <2>1, <3>1, <3>2, CommitSaved, NoScript
    <2>2. CASE m # n
      <3>1. m \in DatabaseNames \ dbExcused
        BY <2>2 DEF MySQL!Saves
      <3>2. databases'[m] = databases[m] /\ \A c \in Commands(db) : c.do = "flush" \/ c.name # m
        BY <1>3, <1>4, <2>2 DEF IsAbout
      <3>3. QED BY <1>1, <1>6, <3>1, <3>2, DbCommitOthers, NoScript
    <2>3. QED BY <2>1, <2>2
  <1>9. MySQL!Saves(n) \in SUBSET DatabaseNames
    BY <1>2 DEF MySQL!Saves
  <1>10. QED
    BY <1>1, <1>2, <1>3, <1>4, <1>6, <1>7, <1>8, <1>9, DbCommitStep, NoScript

\* A user comes, or changes its permision: only databases of it are excused.
LEMMA AddUserStep ==
  ASSUME MySQL!Assumption, GrantsInv, NEW r \in Requests,
         MySQL!AddUser(r) \/ MySQL!ChangePermision(r)
  PROVE  GrantsInv'
  <1>1. PICK u \in DatabaseUsers, p \in MySQL!Permisions,
            excuses \in {dbExcused} \cup {dbExcused \cup MySQL!OfUser(x) : x \in DatabaseUsers} :
          /\ permision' = [permision EXCEPT ![u] = p] /\ databases' = databases
          /\ MySQL!Commits(r, excuses, << >>, MySQL!SaveUser(u))
          /\ \/ permision[u] = None /\ excuses = dbExcused
             \/ excuses = dbExcused \cup MySQL!OfUser(u)
    BY DEF MySQL!AddUser, MySQL!ChangePermision
  <1> DEFINE user == MySQL!SaveUser(u)
  <1>2. /\ databases \in [DatabaseNames -> (SUBSET DatabaseUsers) \cup {None}]
        /\ permision \in [DatabaseUsers -> MySQL!Permisions \cup {None}]
        /\ dbExcused \subseteq DatabaseNames /\ None \notin MySQL!Permisions
    BY DEF GrantsInv, MySQL!TypeOK, MySQL!Assumption
  <1>3. /\ permision' \in [DatabaseUsers -> MySQL!Permisions \cup {None}]
        /\ permision'[u] = p /\ \A x \in DatabaseUsers : x # u => permision'[x] = permision[x]
    BY <1>1, <1>2
  <1>4. user \in Seq(MySQL!UserCommands) /\ \A c \in Commands(user) : c.do # "drop"
    BY UserScripts
  <1>5. MySQL!Commits(r, excuses, << >>, user)
    BY <1>1
  <1> HIDE DEF user
  <1>6. DbCommitted(r, << >>, user) /\ dbExcused' = excuses
    BY <1>5, DbCommitEffect
  <1>7. UsersHaveRows'
    BY <1>1, <1>2, <1>3 DEF GrantsInv, UsersHaveRows
  <1>8. ASSUME NEW m \in DatabaseNames \ excuses PROVE PrivilegesOf(m)'
    <2>1. m \in DatabaseNames \ dbExcused
      BY <1>1
    <2>2. u \notin OfDatabase(m)
      BY <1>1 DEF OfDatabase, GrantsInv, UsersHaveRows, MySQL!OfUser
    <2>3. \A x \in OfDatabase(m) : permision'[x] = permision[x]
      BY <1>2, <1>3, <2>2 DEF OfDatabase
    <2>4. databases'[m] = databases[m]
      BY <1>1
    <2>5. QED BY <1>4, <1>6, <2>1, <2>3, <2>4, DbCommitOthers, NoScript
  <1>9. excuses \in SUBSET DatabaseNames
    BY <1>1, <1>2 DEF MySQL!OfUser
  <1>10. \E n \in DatabaseNames : IsAbout(<< >>, n)
    BY NoScript DEF GrantsInv, ScriptsAreWhole
  <1>11. QED
    BY <1>1, <1>2, <1>3, <1>4, <1>6, <1>7, <1>8, <1>9, <1>10, DbCommitStep, NoScript

\* Who is removed while nothing is under way is going to be forgotten by MySQL.
LEMMA RemoveUserStep ==
  ASSUME MySQL!Assumption, GrantsInv, NEW r \in Requests, MySQL!RemoveUser(r)
  PROVE  GrantsInv'
  <1>1. PICK u \in DatabaseUsers :
          /\ permision' = [permision EXCEPT ![u] = None]
          /\ databases' =
               [n \in DatabaseNames |-> IF databases[n] = None THEN None ELSE databases[n] \ {u}]
          /\ MySQL!Commits(r, MySQL!Touches(MySQL!OfUser(u)), << >>, MySQL!DeleteUser(u))
    BY DEF MySQL!RemoveUser
  <1> DEFINE user == MySQL!DeleteUser(u)
             excuses == MySQL!Touches(MySQL!OfUser(u))
  <1>2. /\ databases \in [DatabaseNames -> (SUBSET DatabaseUsers) \cup {None}]
        /\ permision \in [DatabaseUsers -> MySQL!Permisions \cup {None}]
        /\ dbExcused \subseteq DatabaseNames /\ None \notin SUBSET DatabaseUsers
    BY DEF GrantsInv, MySQL!TypeOK, MySQL!Assumption
  <1>3. /\ permision' \in [DatabaseUsers -> MySQL!Permisions \cup {None}]
        /\ permision'[u] = None /\ \A x \in DatabaseUsers : x # u => permision'[x] = permision[x]
    BY <1>1, <1>2
  <1>4. /\ databases' \in [DatabaseNames -> (SUBSET DatabaseUsers) \cup {None}]
        /\ \A n \in DatabaseNames : /\ databases'[n] = None <=> databases[n] = None
                                    /\ databases[n] # None => databases'[n] = databases[n] \ {u}
    BY <1>1, <1>2
  <1>5. \A n \in DatabaseNames : OfDatabase(n)' = OfDatabase(n) \ {u}
    BY <1>4 DEF OfDatabase
  <1>6. /\ user \in Seq(MySQL!UserCommands)
        /\ \A c \in Commands(user) : c.do = "drop" => c.user = u
        /\ \E c \in Commands(user) : c.do = "drop" /\ c.user = u
    BY UserScripts
  <1>7. MySQL!Commits(r, excuses, << >>, user)
    BY <1>1
  <1> HIDE DEF user, excuses
  <1>8. DbCommitted(r, << >>, user) /\ dbExcused' = excuses
    BY <1>7, DbCommitEffect
  <1>9. UsersHaveRows'
    <2> SUFFICES ASSUME NEW m \in DatabaseNames, databases'[m] # None, NEW x \in databases'[m]
                 PROVE  permision'[x] # None
      BY DEF UsersHaveRows
    <2>1. databases[m] # None /\ x \in databases[m] /\ x # u
      BY <1>4
    <2>2. x \in DatabaseUsers
      BY <1>2, <2>1
    <2>3. QED BY <1>3, <2>1, <2>2 DEF GrantsInv, UsersHaveRows
  <1>10. ASSUME NEW m \in DatabaseNames \ excuses PROVE PrivilegesOf(m)'
    <2>1. m \in DatabaseNames \ dbExcused /\ (u \in OfDatabase(m) => ~ MySQL!Busy)
      BY DEF excuses, MySQL!Touches, MySQL!OfUser, OfDatabase
    <2>2. CASE u \notin OfDatabase(m)
      <3>1. databases'[m] = databases[m]
        BY <1>4, <2>2 DEF OfDatabase
      <3>2. \A x \in OfDatabase(m) : permision'[x] = permision[x]
        BY <1>2, <1>3, <2>2 DEF OfDatabase
      <3>3. \A c \in Commands(user) : c.do = "drop" => c.user \notin OfDatabase(m)
        BY <1>6, <2>2
      <3>4. QED BY <1>8, <2>1, <3>1, <3>2, <3>3, DbCommitOthers, NoScript
    <2>3. CASE u \in OfDatabase(m)
      <3>1. \A s \in Requests : dbPhase[s] = "none"
        BY <2>1, <2>3 DEF MySQL!Busy, GrantsInv, MySQL!TypeOK
      <3>2. \A s \in Requests : dbScript[s] = << >> /\ dbUserScript[s] = << >>
        BY <3>1 DEF GrantsInv, ScriptsAreWhole
      <3>3. /\ \A s \in Requests : dbScript'[s] = << >>
            /\ dbUserScript'[r] = user
            /\ \A s \in Requests \ {r} : dbUserScript'[s] = << >>
        BY <1>8, <3>2 DEF DbCommitted
      <3>4. \A s \in Requests : Commands(dbScript[s]) = {} /\ Commands(dbScript'[s]) = {}
        BY <3>2, <3>3, NoScript
      <3>5. \A x : ~ Forgetting(x)
        BY <3>2, NoScript DEF Forgetting
      <3>6. Forgetting(u)' /\ \A x : Forgetting(x)' => x = u
        BY <1>6, <3>3, NoScript DEF Forgetting
      <3>7. OneWorks(m)' /\ GrantsWanted(m)'
        BY <3>4 DEF OneWorks, GrantsWanted, IsToChange
      <3>8. table' = table /\ granted' = granted
        BY <1>8 DEF DbCommitted
      <3>9. KeepsUsers(m) /\ KeepsOthersOut(m) /\ InMemory(m)
        BY <2>1 DEF GrantsInv, PrivilegesOf
      <3>10. ~ Resetting(m)' /\ ~ Resetting(m) /\ \A x : ~ Granting(m, x)
        BY <3>4 DEF Resetting, Granting
      <3>11. \A x \in OfDatabase(m) : x # u => x \in DatabaseUsers
        BY <1>2 DEF OfDatabase
      <3>12. KeepsUsers(m)'
        BY <1>3, <1>5, <3>6, <3>8, <3>9, <3>10, <3>11 DEF KeepsUsers
      <3>13. KeepsOthersOut(m)'
        BY <1>5, <3>5, <3>6, <3>8, <3>9, <3>10 DEF KeepsOthersOut
      <3>14. granted[m] = table[m]
        BY <3>2, <3>9 DEF InMemory
      <3>15. InMemory(m)'
        BY <3>8, <3>14 DEF InMemory
      <3>16. QED BY <3>7, <3>12, <3>13, <3>15 DEF PrivilegesOf
    <2>4. QED BY <2>2, <2>3
  <1>11. excuses \in SUBSET DatabaseNames
    BY <1>2 DEF excuses, MySQL!Touches, MySQL!OfUser
  <1>12. \E n \in DatabaseNames : IsAbout(<< >>, n)
    BY NoScript DEF GrantsInv, ScriptsAreWhole
  <1>13. QED
    BY <1>3, <1>4, <1>6, <1>8, <1>9, <1>10, <1>11, <1>12, DbCommitStep, NoScript

\* A command of a script of databases was the head of it, and is gone.
DbRan(r, h) ==
  /\ UNCHANGED <<databases, permision, dbPhase, dbUserScript, dbExcused>>
  /\ h = Head(dbScript[r]) /\ h \in MySQL!DbCommands /\ h \in Commands(dbScript[r])
  /\ dbScript' \in [Requests -> Seq(MySQL!DbCommands)] /\ ScriptsAreWhole'
  /\ \A s \in Requests \ {r} : dbScript'[s] = dbScript[s]
  /\ Commands(dbScript'[r]) \subseteq Commands(dbScript[r])
  /\ Commands(dbScript[r]) \subseteq Commands(dbScript'[r]) \cup {h}
  /\ h.do # "flush" => dbScript'[r] # << >>
  /\ h.do = "grant" => \A c \in Commands(dbScript[r]) : c.do \notin {"reset", "revoke"}

\* A command that runs leaves the rest of its script.
LEMMA DbRunEffect ==
  ASSUME GrantsInv, NEW r \in Requests, NEW do, MySQL!DbRuns(r, do)
  PROVE  DbRan(r, Head(dbScript[r])) /\ Head(dbScript[r]).do = do
  <1> DEFINE script == dbScript[r]
             h == Head(script)
  <1>1. /\ script # << >> /\ h.do = do /\ dbScript' = [dbScript EXCEPT ![r] = Tail(script)]
        /\ UNCHANGED <<databases, permision, dbPhase, dbUserScript, dbExcused>>
    BY DEF MySQL!DbRuns
  <1>2. /\ dbScript \in [Requests -> Seq(MySQL!DbCommands)] /\ script \in Seq(MySQL!DbCommands)
        /\ OrderedScript(script) /\ EndsFlushing(script)
    BY DEF GrantsInv, MySQL!TypeOK, ScriptsAreWhole
  <1> HIDE DEF script
  <1>3. HasTail(script)
    <2>1. HasTail(script) /\ Head(script) \in MySQL!DbCommands
             /\ Tail(script) \in Seq(MySQL!DbCommands)
      BY <1>1, <1>2, TailOfScript
    <2>2. QED BY <2>1
  <1>4. h \in MySQL!DbCommands /\ Tail(script) \in Seq(MySQL!DbCommands)
    BY <1>1, <1>2, TailOfScript
  <1>5. /\ dbScript'[r] = Tail(script)
        /\ \A s \in Requests \ {r} : dbScript'[s] = dbScript[s]
        /\ dbScript' \in [Requests -> Seq(MySQL!DbCommands)]
    BY <1>1, <1>2, <1>4
  <1>6. h.do # "flush" => Tail(script) # << >>
    <2>1. PICK c \in Commands(script) : c.do = "flush"
      BY <1>1, <1>2 DEF EndsFlushing
    <2>2. h.do # "flush" => c \in Commands(Tail(script))
      BY <1>3, <2>1 DEF HasTail
    <2>3. QED BY <2>2, NoScript
  <1>7. OrderedScript(Tail(script)) /\ EndsFlushing(Tail(script))
    <2>1. OrderedScript(Tail(script))
      BY <1>2, <1>3 DEF HasTail
    <2>2. ASSUME Tail(script) # << >> PROVE \E c \in Commands(Tail(script)) : c.do = "flush"
      <3>1. h.do # "flush"
        BY <1>2, <1>3, <2>2 DEF HasTail
      <3>2. QED BY <1>1, <1>2, <1>3, <3>1 DEF EndsFlushing, HasTail
    <2>3. QED BY <2>1, <2>2 DEF EndsFlushing
  <1>8. dbPhase[r] # "none"
    BY <1>1 DEF GrantsInv, ScriptsAreWhole, script
  <1>9. ScriptsAreWhole'
    <2> SUFFICES ASSUME NEW s \in Requests
                 PROVE  /\ dbPhase[s] = "none" => dbScript'[s] = << >> /\ dbUserScript[s] = << >>
                        /\ OrderedScript(dbScript'[s]) /\ EndsFlushing(dbScript'[s])
                        /\ \E n \in DatabaseNames : IsAbout(dbScript'[s], n)
      BY <1>1 DEF ScriptsAreWhole, OrderedScript, EndsFlushing, IsAbout, Commands
    <2>1. CASE s = r
      <3>1. PICK n \in DatabaseNames : IsAbout(script, n)
        BY DEF GrantsInv, ScriptsAreWhole, script
      <3>2. IsAbout(Tail(script), n)
        BY <1>3, <3>1 DEF IsAbout, HasTail
      <3>3. QED BY <1>5, <1>7, <1>8, <2>1, <3>2
    <2>2. CASE s # r
      BY <1>5, <2>2 DEF GrantsInv, ScriptsAreWhole
    <2>3. QED BY <2>1, <2>2
  <1>10. h.do = "grant" => \A c \in Commands(script) : c.do \notin {"reset", "revoke"}
    <2>1. Commands(script) \subseteq Commands(Tail(script)) \cup {h}
      BY <1>3 DEF HasTail
    <2>2. h.do = "grant" => \A c \in Commands(Tail(script)) : c.do \notin {"reset", "revoke"}
      BY <1>2, <1>3 DEF HasTail
    <2>3. QED BY <2>1, <2>2
  <1>11. /\ h \in Commands(script) /\ Commands(Tail(script)) \subseteq Commands(script)
         /\ Commands(script) \subseteq Commands(Tail(script)) \cup {h}
    BY <1>3 DEF HasTail
  <1>12. QED
    BY <1>1, <1>4, <1>5, <1>6, <1>9, <1>10, <1>11 DEF DbRan, script

\* What that does to what is to come for a database.
LEMMA RunKeeps ==
  ASSUME GrantsInv, NEW r \in Requests, NEW h, DbRan(r, h), NEW n \in DatabaseNames \ dbExcused
  PROVE  /\ PrivilegesOf(n) /\ OneWorks(n)' /\ GrantsWanted(n)' /\ OfDatabase(n)' = OfDatabase(n)
         /\ \A u : Forgetting(u)' <=> Forgetting(u)
         /\ Resetting(n)' => Resetting(n)
         /\ Resetting(n) => Resetting(n)' \/ (h.do \in {"reset", "revoke"} /\ h.name = n)
         /\ \A u : Granting(n, u) =>
              Granting(n, u)' \/ (h.do = "grant" /\ h.name = n /\ h.user = u)
         /\ h.do = "grant" /\ h.name = n => ~ Resetting(n)
         /\ h.do = "grant" /\ h.name = n => h.user \in OfDatabase(n) /\ h.what = permision[h.user]
         /\ h.do \in {"reset", "revoke"} /\ h.name = n => Resetting(n)
         /\ h.do # "flush" /\ h.name = n => dbScript'[r] # << >> /\ IsAbout(dbScript'[r], n)
         /\ h.do # "flush" => \A s \in Requests :
              dbScript[s] # << >> /\ IsAbout(dbScript[s], n) =>
                dbScript'[s] # << >> /\ IsAbout(dbScript'[s], n)
  <1>1. PrivilegesOf(n)
    BY DEF GrantsInv
  <1>2. /\ UNCHANGED <<databases, permision, dbPhase, dbUserScript, dbExcused>>
        /\ \A s \in Requests : \A c : c \in Commands(dbScript'[s]) => c \in Commands(dbScript[s])
        /\ \A s \in Requests : \A c : c \in Commands(dbScript[s]) =>
           c \in Commands(dbScript'[s]) \/ c = h
        /\ h \in Commands(dbScript[r])
    BY DEF DbRan
  <1>3. OneWorks(n)'
    <2>1. \A s \in Requests : IsToChange(s, n)' => IsToChange(s, n)
      BY <1>2 DEF IsToChange
    <2>2. QED BY <1>1, <2>1 DEF OneWorks, PrivilegesOf
  <1>4. OfDatabase(n)' = OfDatabase(n) /\ \A u : Forgetting(u)' <=> Forgetting(u)
    BY <1>2 DEF OfDatabase, Forgetting
  <1>5. GrantsWanted(n)'
    BY <1>1, <1>2, <1>4 DEF GrantsWanted, PrivilegesOf
  <1>6. /\ Resetting(n)' => Resetting(n)
        /\ Resetting(n) => Resetting(n)' \/ (h.do \in {"reset", "revoke"} /\ h.name = n)
        /\ h.do \in {"reset", "revoke"} /\ h.name = n => Resetting(n)
    BY <1>2 DEF Resetting
  <1>7. \A u : Granting(n, u) => Granting(n, u)' \/ (h.do = "grant" /\ h.name = n /\ h.user = u)
    BY <1>2 DEF Granting
  <1>8. ASSUME h.do = "grant", h.name = n PROVE ~ Resetting(n)
    <2> SUFFICES ASSUME NEW s \in Requests, NEW c \in Commands(dbScript[s]),
                        c.do \in {"reset", "revoke"}, c.name = n
                 PROVE  FALSE
      BY DEF Resetting
    <2>1. IsToChange(r, n) /\ IsToChange(s, n)
      BY <1>2, <1>8 DEF IsToChange
    <2>2. s = r
      BY <1>1, <2>1 DEF PrivilegesOf, OneWorks
    <2>3. QED BY <1>8, <2>2 DEF DbRan
  <1>9. h.do = "grant" /\ h.name = n => h.user \in OfDatabase(n) /\ h.what = permision[h.user]
    BY <1>1, <1>2 DEF PrivilegesOf, GrantsWanted
  <1>10. \A s \in Requests : \A m : IsAbout(dbScript[s], m) => IsAbout(dbScript'[s], m)
    BY <1>2 DEF IsAbout
  <1>11. h.do # "flush" /\ h.name = n => dbScript'[r] # << >> /\ IsAbout(dbScript'[r], n)
    <2>1. PICK m \in DatabaseNames : IsAbout(dbScript[r], m)
      BY DEF GrantsInv, ScriptsAreWhole
    <2>2. h.do # "flush" => h.name = m
      BY <1>2, <2>1 DEF IsAbout
    <2>3. QED BY <1>10, <2>1, <2>2 DEF DbRan
  <1>12. h.do # "flush" => \A s \in Requests :
           dbScript[s] # << >> /\ IsAbout(dbScript[s], n) =>
             dbScript'[s] # << >> /\ IsAbout(dbScript'[s], n)
    BY <1>10 DEF DbRan
  <1>13. QED
    BY <1>1, <1>3, <1>4, <1>5, <1>6, <1>7, <1>8, <1>9, <1>11, <1>12

\* What the commands of databases do to the privileges.
LEMMA DbStep ==
  ASSUME MySQL!Assumption, GrantsInv, NEW r \in Requests,
         MySQL!Reset(r) \/ MySQL!Grant(r) \/ MySQL!Drop(r) \/ MySQL!Revoke(r) \/ MySQL!DbFlush(r)
  PROVE  GrantsInv'
  <1> DEFINE h == Head(dbScript[r])
  <1>1. DbRan(r, h)
    BY DbRunEffect DEF MySQL!Reset, MySQL!Grant, MySQL!Drop, MySQL!Revoke, MySQL!DbFlush
  <1>2. /\ created \subseteq DatabaseNames /\ there \subseteq DatabaseUsers
        /\ table \in [DatabaseNames -> [DatabaseUsers -> MySQL!Permisions \cup {None}]]
        /\ granted \in [DatabaseNames -> [DatabaseUsers -> MySQL!Permisions \cup {None}]]
        /\ MySQL!Nobody \in [DatabaseUsers -> MySQL!Permisions \cup {None}]
        /\ \A u \in DatabaseUsers : MySQL!Nobody[u] = None
    BY DEF GrantsInv, MySQL!TypeOK, MySQL!Nobody
  <1>3. \/ /\ h.do \in {"reset", "revoke"} /\ h.name \in DatabaseNames
           /\ table' = [table EXCEPT ![h.name] = MySQL!Nobody] /\ granted' = granted
        \/ /\ h.do = "grant" /\ h.name \in DatabaseNames /\ h.user \in DatabaseUsers
           /\ h.what \in MySQL!Permisions
           /\ table' = [table EXCEPT ![h.name][h.user] = h.what]
           /\ granted' = [granted EXCEPT ![h.name][h.user] = h.what]
        \/ h.do = "drop" /\ table' = table /\ granted' = granted
        \/ h.do = "flush" /\ table' = table /\ granted' = table
    <2>1. h \in MySQL!DbCommands
      BY <1>1 DEF DbRan
    <2>2. h.do \in {"reset", "drop", "revoke", "grant"} => h.name \in DatabaseNames
      BY <2>1 DEF MySQL!DbCommands
    <2>3. h.do = "grant" => h.user \in DatabaseUsers /\ h.what \in MySQL!Permisions
      BY <2>1 DEF MySQL!DbCommands
    <2>4. CASE MySQL!Reset(r)
      BY <2>2, <2>4 DEF MySQL!Reset, MySQL!DbRuns
    <2>5. CASE MySQL!Grant(r)
      BY <2>2, <2>3, <2>5 DEF MySQL!Grant, MySQL!DbRuns
    <2>6. CASE MySQL!Drop(r)
      BY <2>6 DEF MySQL!Drop, MySQL!DbRuns
    <2>7. CASE MySQL!Revoke(r)
      BY <2>2, <2>7 DEF MySQL!Revoke, MySQL!DbRuns
    <2>8. CASE MySQL!DbFlush(r)
      BY <2>8 DEF MySQL!DbFlush, MySQL!DbRuns
    <2>9. QED BY <2>4, <2>5, <2>6, <2>7, <2>8
  <1>4. created' \subseteq DatabaseNames /\ there' = there
    <2>1. h.do = "reset" => h.name \in DatabaseNames
      BY <1>1 DEF DbRan, MySQL!DbCommands
    <2>2. MySQL!Reset(r) => h.do = "reset" /\ created' = created \cup {h.name}
      BY DEF MySQL!Reset, MySQL!DbRuns
    <2>3. ~ MySQL!Reset(r) => created' \subseteq created
      BY DEF MySQL!Grant, MySQL!Drop, MySQL!Revoke, MySQL!DbFlush
    <2>4. there' = there
      BY DEF MySQL!Reset, MySQL!Grant, MySQL!Drop, MySQL!Revoke, MySQL!DbFlush
    <2>5. QED BY <1>2, <2>1, <2>2, <2>3, <2>4
  <1> HIDE DEF h
  <1>5. /\ table' \in [DatabaseNames -> [DatabaseUsers -> MySQL!Permisions \cup {None}]]
        /\ granted' \in [DatabaseNames -> [DatabaseUsers -> MySQL!Permisions \cup {None}]]
    <2>1. CASE h.do \in {"reset", "revoke"}
      <3>1. /\ h.name \in DatabaseNames
            /\ table' = [table EXCEPT ![h.name] = MySQL!Nobody] /\ granted' = granted
        BY <1>3, <2>1
      <3>2. QED BY <1>2, <3>1
    <2>2. CASE h.do = "grant"
      <3>1. /\ h.name \in DatabaseNames /\ h.user \in DatabaseUsers
            /\ h.what \in MySQL!Permisions
            /\ table' = [table EXCEPT ![h.name][h.user] = h.what]
            /\ granted' = [granted EXCEPT ![h.name][h.user] = h.what]
        BY <1>3, <2>2
      <3>2. table' \in [DatabaseNames -> [DatabaseUsers -> MySQL!Permisions \cup {None}]]
        BY <1>2, <3>1
      <3>3. granted' \in [DatabaseNames -> [DatabaseUsers -> MySQL!Permisions \cup {None}]]
        BY <1>2, <3>1
      <3>4. QED BY <3>2, <3>3
    <2>3. CASE h.do \in {"drop", "flush"}
      BY <1>2, <1>3, <2>3
    <2>4. QED
      BY <1>3, <2>1, <2>2, <2>3
  <1>6. MySQL!TypeOK'
    BY <1>1, <1>4, <1>5 DEF GrantsInv, MySQL!TypeOK, DbRan, MySQL!Permisions, MySQL!DbCommands,
       MySQL!UserCommands
  <1>7. UsersHaveRows'
    BY <1>1 DEF GrantsInv, UsersHaveRows, DbRan
  <1>8. ASSUME NEW n \in DatabaseNames \ dbExcused PROVE PrivilegesOf(n)'
    <2>1. /\ PrivilegesOf(n) /\ OneWorks(n)' /\ GrantsWanted(n)' /\ OfDatabase(n)' = OfDatabase(n)
          /\ \A u : Forgetting(u)' <=> Forgetting(u)
          /\ Resetting(n)' => Resetting(n)
      BY <1>1, RunKeeps
    <2>2. permision' = permision /\ OfDatabase(n) \subseteq DatabaseUsers
      BY <1>1 DEF DbRan, OfDatabase, GrantsInv, MySQL!TypeOK
    <2>3. KeepsUsers(n)'
      <3> SUFFICES ASSUME NEW u \in OfDatabase(n)
                   PROVE  /\ ~ Forgetting(u)
                          /\ Granting(n, u)' \/ (~ Resetting(n)' /\ table'[n][u] = permision[u])
        BY <2>1, <2>2 DEF KeepsUsers
      <3>1. /\ ~ Forgetting(u)
            /\ Granting(n, u) \/ (~ Resetting(n) /\ table[n][u] = permision[u])
        BY <2>1 DEF PrivilegesOf, KeepsUsers
      <3>2. CASE h.do = "grant" /\ h.name = n /\ h.user = u
        <4>1. ~ Resetting(n) /\ h.what = permision[u]
          BY <1>1, <3>2, RunKeeps
        <4>2. table'[n][u] = h.what
          BY <1>2, <1>3, <2>2, <3>2
        <4>3. QED BY <2>1, <3>1, <4>1, <4>2
      <3>3. CASE ~(h.do = "grant" /\ h.name = n /\ h.user = u)
        <4>1. Granting(n, u) => Granting(n, u)'
          BY <1>1, <3>3, RunKeeps
        <4>2. CASE h.do \in {"reset", "revoke"} /\ h.name = n
          <5>1. Resetting(n)
            BY <1>1, <4>2, RunKeeps
          <5>2. QED BY <3>1, <4>1, <5>1
        <4>3. CASE ~(h.do \in {"reset", "revoke"} /\ h.name = n)
          <5>1. table'[n][u] = table[n][u]
            BY <1>2, <1>3, <2>2, <3>3, <4>3
          <5>2. QED BY <2>1, <3>1, <4>1, <5>1
        <4>4. QED BY <4>2, <4>3
      <3>4. QED BY <3>2, <3>3
    <2>4. KeepsOthersOut(n)'
      <3> SUFFICES ASSUME NEW u \in DatabaseUsers \ OfDatabase(n)
                   PROVE  Resetting(n)' \/ Forgetting(u) \/ table'[n][u] = None
        BY <2>1 DEF KeepsOthersOut
      <3>1. Resetting(n) \/ Forgetting(u) \/ table[n][u] = None
        BY <2>1 DEF PrivilegesOf, KeepsOthersOut
      <3>2. CASE h.do \in {"reset", "revoke"} /\ h.name = n
        <4>1. table'[n][u] = None
          BY <1>2, <1>3, <3>2
        <4>2. QED BY <4>1
      <3>3. CASE ~(h.do \in {"reset", "revoke"} /\ h.name = n)
        <4>1. ~(h.do = "grant" /\ h.name = n /\ h.user = u)
          BY <1>1, RunKeeps
        <4>2. table'[n][u] = table[n][u]
          BY <1>2, <1>3, <3>3, <4>1
        <4>3. Resetting(n) => Resetting(n)'
          BY <1>1, <3>3, RunKeeps
        <4>4. QED BY <3>1, <4>2, <4>3
      <3>4. QED BY <3>2, <3>3
    <2>5. InMemory(n)'
      <3>1. CASE h.do = "flush"
        BY <1>3, <3>1 DEF InMemory
      <3>2. CASE h.do # "flush" /\ h.name = n
        BY <1>1, <3>2, RunKeeps DEF InMemory, IsAbout, Commands
      <3>3. CASE h.do # "flush" /\ h.name # n
        <4>1. table'[n] = table[n] /\ granted'[n] = granted[n]
          BY <1>2, <1>3, <3>3
        <4>2. \A s \in Requests : dbScript[s] # << >> /\ IsAbout(dbScript[s], n) =>
                dbScript'[s] # << >> /\ IsAbout(dbScript'[s], n)
          BY <1>1, <3>3, RunKeeps
        <4>3. InMemory(n)
          BY <2>1 DEF PrivilegesOf
        <4>4. QED BY <4>1, <4>2, <4>3 DEF InMemory, IsAbout, Commands
      <3>4. QED BY <3>1, <3>2, <3>3
    <2>6. QED BY <2>1, <2>3, <2>4, <2>5 DEF PrivilegesOf
  <1>9. dbExcused' = dbExcused /\ ScriptsAreWhole'
    BY <1>1 DEF DbRan
  <1>10. QED
    BY <1>6, <1>7, <1>8, <1>9 DEF GrantsInv

\* A script that ends before its time excuses the database it is about.
LEMMA GrantTooEarlyStep ==
  ASSUME MySQL!Assumption, GrantsInv, NEW r \in Requests, MySQL!GrantTooEarly(r)
  PROVE  GrantsInv'
  <1> DEFINE h == Head(dbScript[r])
  <1>1. /\ dbScript[r] # << >> /\ h.do = "grant"
        /\ dbScript' = [dbScript EXCEPT ![r] = << >>] /\ dbExcused' = dbExcused \cup {h.name}
        /\ UNCHANGED <<databases, permision, dbPhase, dbUserScript, created, there, table, granted>>
    BY DEF MySQL!GrantTooEarly, MySQL!server
  <1>2. /\ dbScript \in [Requests -> Seq(MySQL!DbCommands)]
        /\ h \in MySQL!DbCommands /\ h \in Commands(dbScript[r])
    <2>1. dbScript \in [Requests -> Seq(MySQL!DbCommands)]
      BY DEF GrantsInv, MySQL!TypeOK
    <2>2. dbScript[r] \in Seq(MySQL!DbCommands)
      BY <2>1
    <2>3. HasTail(dbScript[r]) /\ h \in MySQL!DbCommands
      BY <1>1, <2>2, TailOfScript
    <2>4. QED BY <2>1, <2>3 DEF HasTail
  <1>3. h.name \in DatabaseNames
    BY <1>1, <1>2 DEF MySQL!DbCommands
  <1> HIDE DEF h
  <1>4. /\ dbScript'[r] = << >> /\ \A s \in Requests \ {r} : dbScript'[s] = dbScript[s]
        /\ dbScript' \in [Requests -> Seq(MySQL!DbCommands)]
    <2>1. << >> \in Seq(MySQL!DbCommands)
      BY NoScript
    <2>2. QED BY <1>1, <1>2, <2>1
  <1>5. MySQL!TypeOK'
    BY <1>1, <1>3, <1>4 DEF GrantsInv, MySQL!TypeOK, MySQL!Permisions, MySQL!DbCommands,
       MySQL!UserCommands
  <1>6. ScriptsAreWhole'
    <2> SUFFICES ASSUME NEW s \in Requests
                 PROVE  /\ dbPhase[s] = "none" => dbScript'[s] = << >> /\ dbUserScript[s] = << >>
                        /\ OrderedScript(dbScript'[s]) /\ EndsFlushing(dbScript'[s])
                        /\ \E n \in DatabaseNames : IsAbout(dbScript'[s], n)
      BY <1>1 DEF ScriptsAreWhole, OrderedScript, EndsFlushing, IsAbout, Commands
    <2>1. CASE s = r
      BY <1>3, <1>4, <2>1, NoScript DEF GrantsInv, ScriptsAreWhole
    <2>2. CASE s # r
      BY <1>4, <2>2 DEF GrantsInv, ScriptsAreWhole
    <2>3. QED BY <2>1, <2>2
  <1>7. UsersHaveRows'
    BY <1>1 DEF GrantsInv, UsersHaveRows
  <1>8. ASSUME NEW n \in DatabaseNames \ dbExcused' PROVE PrivilegesOf(n)'
    <2>1. n # h.name /\ PrivilegesOf(n) /\ OfDatabase(n)' = OfDatabase(n)
      BY <1>1 DEF GrantsInv, OfDatabase
    <2>2. \A c \in Commands(dbScript[r]) : c.do = "flush" \/ c.name # n
      <3>1. PICK m \in DatabaseNames : IsAbout(dbScript[r], m)
        BY DEF GrantsInv, ScriptsAreWhole
      <3>2. h.name = m
        BY <1>1, <1>2, <3>1 DEF IsAbout
      <3>3. QED BY <2>1, <3>1, <3>2 DEF IsAbout
    <2>3. /\ Commands(dbScript'[r]) = {}
          /\ \A s \in Requests : \A c : c \in Commands(dbScript'[s]) => c \in Commands(dbScript[s])
          /\ \A s \in Requests : \A c : c \in Commands(dbScript[s]) /\ c.do # "flush" /\ c.name = n
               => c \in Commands(dbScript'[s])
      BY <1>4, <2>2, NoScript
    <2>4. /\ Resetting(n)' <=> Resetting(n)
          /\ \A u : Granting(n, u)' <=> Granting(n, u)
          /\ \A u : Forgetting(u)' <=> Forgetting(u)
          /\ \A s \in Requests : IsToChange(s, n)' => IsToChange(s, n)
      BY <1>1, <2>3 DEF Resetting, Granting, IsToChange, Forgetting
    <2>5. OneWorks(n)'
      BY <2>1, <2>4 DEF PrivilegesOf, OneWorks
    <2>6. GrantsWanted(n)'
      BY <1>1, <2>1, <2>3 DEF PrivilegesOf, GrantsWanted
    <2>7. KeepsUsers(n)' /\ KeepsOthersOut(n)'
      BY <1>1, <2>1, <2>4 DEF PrivilegesOf, KeepsUsers, KeepsOthersOut
    <2>8. InMemory(n)'
      <3>1. CASE granted[n] = table[n]
        BY <1>1, <3>1 DEF InMemory
      <3>2. ASSUME NEW s \in Requests, dbScript[s] # << >>, IsAbout(dbScript[s], n)
            PROVE  InMemory(n)'
        <4>1. s # r
          BY <1>1, <1>2, <2>1, <3>2 DEF IsAbout
        <4>2. QED BY <1>4, <3>2, <4>1 DEF InMemory, IsAbout, Commands
      <3>3. QED BY <2>1, <3>1, <3>2 DEF PrivilegesOf, InMemory
    <2>9. QED BY <2>5, <2>6, <2>7, <2>8 DEF PrivilegesOf
  <1>9. QED
    BY <1>5, <1>6, <1>7, <1>8 DEF GrantsInv

\* Commands of users: who is dropped has no privileges any more.
LEMMA UserStep ==
  ASSUME MySQL!Assumption, GrantsInv, NEW r \in Requests,
         MySQL!CreateUser(r) \/ MySQL!DropUser(r) \/ MySQL!UserFlush(r)
  PROVE  GrantsInv'
  <1> DEFINE script == dbUserScript[r]
             h == Head(script)
  <1>1. /\ script # << >> /\ dbUserScript' = [dbUserScript EXCEPT ![r] = Tail(script)]
        /\ UNCHANGED <<databases, permision, created, dbPhase, dbScript, dbExcused>>
    BY DEF MySQL!CreateUser, MySQL!DropUser, MySQL!UserFlush, MySQL!UserRuns
  <1>2. dbUserScript \in [Requests -> Seq(MySQL!UserCommands)] /\ script \in Seq(MySQL!UserCommands)
    BY DEF GrantsInv, MySQL!TypeOK
  <1>3. /\ Tail(script) \in Seq(MySQL!UserCommands) /\ h \in MySQL!UserCommands /\ HasTail(script)
    <2> HIDE DEF script
    <2>1. QED BY <1>1, <1>2, TailOfScript
  <1>4. h.do \in {"create", "drop"} => h.user \in DatabaseUsers
    BY <1>3 DEF MySQL!UserCommands
  <1>5. /\ table \in [DatabaseNames -> [DatabaseUsers -> MySQL!Permisions \cup {None}]]
        /\ granted \in [DatabaseNames -> [DatabaseUsers -> MySQL!Permisions \cup {None}]]
        /\ there \subseteq DatabaseUsers
    BY DEF GrantsInv, MySQL!TypeOK
  <1>6. \/ h.do = "create" /\ there' = there \cup {h.user} /\ table' = table /\ granted' = granted
        \/ /\ h.do = "drop" /\ there' \subseteq there
           /\ table' = [n \in DatabaseNames |-> [table[n] EXCEPT ![h.user] = None]]
           /\ granted' = [n \in DatabaseNames |-> [granted[n] EXCEPT ![h.user] = None]]
        \/ h.do = "flush" /\ there' = there /\ table' = table /\ granted' = table
    BY DEF MySQL!CreateUser, MySQL!DropUser, MySQL!UserFlush, MySQL!UserRuns
  <1>7. /\ dbUserScript'[r] = Tail(script)
        /\ \A s \in Requests \ {r} : dbUserScript'[s] = dbUserScript[s]
        /\ dbUserScript' \in [Requests -> Seq(MySQL!UserCommands)]
    BY <1>1, <1>2, <1>3
  <1>8. dbPhase[r] # "none"
    BY <1>1 DEF GrantsInv, ScriptsAreWhole
  <1>9. \A u : /\ Forgetting(u)' => Forgetting(u)
               /\ Forgetting(u) => Forgetting(u)' \/ (h.do = "drop" /\ h.user = u)
               /\ h.do = "drop" => Forgetting(h.user)
    BY <1>3, <1>7 DEF Forgetting, HasTail
  <1> HIDE DEF script, h
  <1>10. MySQL!TypeOK'
    <2>1. /\ table' \in [DatabaseNames -> [DatabaseUsers -> MySQL!Permisions \cup {None}]]
          /\ granted' \in [DatabaseNames -> [DatabaseUsers -> MySQL!Permisions \cup {None}]]
          /\ there' \subseteq DatabaseUsers
      BY <1>4, <1>5, <1>6
    <2>2. QED
      BY <1>1, <1>7, <2>1 DEF GrantsInv, MySQL!TypeOK, MySQL!Permisions, MySQL!DbCommands,
         MySQL!UserCommands
  <1>11. ScriptsAreWhole'
    <2> SUFFICES ASSUME NEW s \in Requests
                 PROVE  /\ dbPhase[s] = "none" => dbScript[s] = << >> /\ dbUserScript'[s] = << >>
                        /\ OrderedScript(dbScript[s]) /\ EndsFlushing(dbScript[s])
                        /\ \E n \in DatabaseNames : IsAbout(dbScript[s], n)
      BY <1>1 DEF ScriptsAreWhole, OrderedScript, EndsFlushing, IsAbout, Commands
    <2>1. QED BY <1>7, <1>8 DEF GrantsInv, ScriptsAreWhole
  <1>12. UsersHaveRows'
    BY <1>1 DEF GrantsInv, UsersHaveRows
  <1>13. ASSUME NEW n \in DatabaseNames \ dbExcused PROVE PrivilegesOf(n)'
    <2>1. /\ PrivilegesOf(n) /\ OfDatabase(n)' = OfDatabase(n)
          /\ OfDatabase(n) \subseteq DatabaseUsers
      BY <1>1 DEF GrantsInv, OfDatabase, MySQL!TypeOK
    <2>2. OneWorks(n)' /\ GrantsWanted(n)' /\ (Resetting(n)' <=> Resetting(n))
          /\ \A u : Granting(n, u)' <=> Granting(n, u)
      BY <1>1, <2>1 DEF PrivilegesOf, OneWorks, GrantsWanted, Resetting, Granting, IsToChange,
         Commands,
         OfDatabase
    <2>3. KeepsUsers(n)'
      <3> SUFFICES ASSUME NEW u \in OfDatabase(n)
                   PROVE  /\ ~ Forgetting(u)'
                          /\ Granting(n, u) \/ (~ Resetting(n) /\ table'[n][u] = permision[u])
        BY <1>1, <2>1, <2>2 DEF KeepsUsers
      <3>1. /\ ~ Forgetting(u)
            /\ Granting(n, u) \/ (~ Resetting(n) /\ table[n][u] = permision[u])
        BY <2>1 DEF PrivilegesOf, KeepsUsers
      <3>2. h.do = "drop" => h.user # u
        BY <1>9, <3>1
      <3>3. table'[n][u] = table[n][u]
        BY <1>5, <1>6, <2>1, <3>2
      <3>4. QED BY <1>9, <3>1, <3>3
    <2>4. KeepsOthersOut(n)'
      <3> SUFFICES ASSUME NEW u \in DatabaseUsers \ OfDatabase(n)
                   PROVE  Resetting(n) \/ Forgetting(u)' \/ table'[n][u] = None
        BY <2>1, <2>2 DEF KeepsOthersOut
      <3>1. Resetting(n) \/ Forgetting(u) \/ table[n][u] = None
        BY <2>1 DEF PrivilegesOf, KeepsOthersOut
      <3>2. CASE h.do = "drop" /\ h.user = u
        BY <1>5, <1>6, <3>2
      <3>3. CASE ~(h.do = "drop" /\ h.user = u)
        <4>1. table'[n][u] = table[n][u]
          BY <1>5, <1>6, <3>3
        <4>2. QED BY <1>9, <3>1, <3>3, <4>1
      <3>4. QED BY <3>2, <3>3
    <2>5. InMemory(n)'
      <3>1. CASE granted[n] = table[n]
        BY <1>5, <1>6, <3>1 DEF InMemory
      <3>2. CASE \E s \in Requests : dbScript[s] # << >> /\ IsAbout(dbScript[s], n)
        BY <1>1, <3>2 DEF InMemory, IsAbout, Commands
      <3>3. QED BY <2>1, <3>1, <3>2 DEF PrivilegesOf, InMemory
    <2>6. QED BY <2>1, <2>2, <2>3, <2>4, <2>5 DEF PrivilegesOf
  <1>14. QED
    BY <1>1, <1>10, <1>11, <1>12, <1>13 DEF GrantsInv

\* The end of a request, and what changes nothing.
LEMMA NothingToDo ==
  ASSUME GrantsInv,
         UNCHANGED <<databases, permision, created, there, table, granted, dbScript, dbUserScript,
                     dbExcused>>,
         dbPhase' = dbPhase \/ \E r \in Requests :
           dbScript[r] = << >> /\ dbUserScript[r] = << >>
              /\ dbPhase' = [dbPhase EXCEPT ![r] = "none"]
  PROVE  GrantsInv'
  <1>1. MySQL!TypeOK'
    BY DEF GrantsInv, MySQL!TypeOK, MySQL!Permisions, MySQL!DbCommands, MySQL!UserCommands
  <1>2. ScriptsAreWhole'
    <2>1. \A r \in Requests : dbPhase'[r] = "none" => dbScript[r] = << >> /\ dbUserScript[r] = << >>
      BY DEF GrantsInv, MySQL!TypeOK, ScriptsAreWhole
    <2>2. QED
      BY <2>1 DEF GrantsInv, ScriptsAreWhole, OrderedScript, EndsFlushing, IsAbout, Commands
  <1>3. UsersHaveRows'
    BY DEF GrantsInv, UsersHaveRows
  <1>4. ASSUME NEW n \in DatabaseNames \ dbExcused PROVE PrivilegesOf(n)'
    <2>1. PrivilegesOf(n)
      BY DEF GrantsInv
    <2>2. QED
      BY <2>1 DEF PrivilegesOf, OneWorks, GrantsWanted, KeepsUsers, KeepsOthersOut, InMemory,
         OfDatabase, IsToChange, Resetting, Granting, Forgetting, IsAbout, Commands
  <1>5. QED
    BY <1>1, <1>2, <1>3, <1>4 DEF GrantsInv

\* The invariant holds from the beginning and every step keeps it.
LEMMA GrantsInvariant ==
  ASSUME MySQL!Assumption, DatabaseNames # {}
  PROVE  MySQL!Spec => []GrantsInv
  <1>1. MySQL!Init => GrantsInv
    <2> SUFFICES ASSUME MySQL!Init PROVE GrantsInv
      OBVIOUS
    <2>1. << >> \in Seq(MySQL!DbCommands) /\ << >> \in Seq(MySQL!UserCommands)
      BY NoScript
    <2>2. MySQL!TypeOK
      BY <2>1 DEF MySQL!Init, MySQL!TypeOK, MySQL!Nobody
    <2>3. ScriptsAreWhole
      BY NoScript DEF MySQL!Init, ScriptsAreWhole
    <2>4. UsersHaveRows
      BY DEF MySQL!Init, UsersHaveRows
    <2>5. \A r \in Requests : Commands(dbScript[r]) = {} /\ Commands(dbUserScript[r]) = {}
      BY NoScript DEF MySQL!Init
    <2>6. ASSUME NEW n \in DatabaseNames PROVE PrivilegesOf(n)
      <3>1. OfDatabase(n) = {}
        BY DEF MySQL!Init, OfDatabase
      <3>2. OneWorks(n) /\ GrantsWanted(n)
        BY <2>5 DEF OneWorks, GrantsWanted, IsToChange
      <3>3. KeepsUsers(n) /\ KeepsOthersOut(n) /\ InMemory(n)
        BY <3>1 DEF MySQL!Init, MySQL!Nobody, KeepsUsers, KeepsOthersOut, InMemory
      <3>4. QED BY <3>2, <3>3 DEF PrivilegesOf
    <2>7. QED BY <2>2, <2>3, <2>4, <2>6 DEF GrantsInv
  <1>2. GrantsInv /\ [MySQL!Next]_(MySQL!vars) => GrantsInv'
    <2> SUFFICES ASSUME GrantsInv, [MySQL!Next]_(MySQL!vars) PROVE GrantsInv'
      OBVIOUS
    <2>1. CASE UNCHANGED MySQL!vars
      BY <2>1, NothingToDo DEF MySQL!vars
    <2>2. ASSUME NEW r \in Requests, MySQL!AddDatabase(r) PROVE GrantsInv'
      BY <2>2, AddDatabaseStep
    <2>3. ASSUME NEW r \in Requests, MySQL!ChangeUsers(r) PROVE GrantsInv'
      BY <2>3, ChangeUsersStep
    <2>4. ASSUME NEW r \in Requests, MySQL!RemoveDatabase(r) PROVE GrantsInv'
      BY <2>4, RemoveDatabaseStep
    <2>5. ASSUME NEW r \in Requests, MySQL!AddUser(r) \/ MySQL!ChangePermision(r) PROVE GrantsInv'
      BY <2>5, AddUserStep
    <2>6. ASSUME NEW r \in Requests, MySQL!RemoveUser(r) PROVE GrantsInv'
      BY <2>6, RemoveUserStep
    <2>7. ASSUME NEW r \in Requests,
                 MySQL!Reset(r) \/ MySQL!Grant(r) \/ MySQL!Drop(r) \/ MySQL!Revoke(r)
                   \/ MySQL!DbFlush(r)
          PROVE  GrantsInv'
      BY <2>7, DbStep
    <2>8. ASSUME NEW r \in Requests, MySQL!GrantTooEarly(r) PROVE GrantsInv'
      BY <2>8, GrantTooEarlyStep
    <2>9. ASSUME NEW r \in Requests,
                 MySQL!CreateUser(r) \/ MySQL!DropUser(r) \/ MySQL!UserFlush(r)
          PROVE  GrantsInv'
      BY <2>9, UserStep
    <2>10. ASSUME NEW r \in Requests, MySQL!Ends(r) PROVE GrantsInv'
      BY <2>10, NothingToDo DEF MySQL!Ends, MySQL!server
    <2>11. QED
      BY <2>1, <2>2, <2>3, <2>4, <2>5, <2>6, <2>7, <2>8, <2>9, <2>10 DEF MySQL!Next
  <1>3. QED
    BY <1>1, <1>2, PTL DEF MySQL!Spec

\* Once nothing is under way users have the privileges their rows say, on databases that
\* are not excused (the scripts of MySQLController and MySQLUserController, in any order
\* of two threads of any number of requests).
THEOREM PrivilegesAgreeWithRows ==
  ASSUME MySQL!Assumption
  PROVE  MySQL!Spec => []GrantsAgree
  <1>1. CASE DatabaseNames = {}
    <2>1. MySQL!GrantsAgree
      BY <1>1 DEF MySQL!GrantsAgree
    <2>2. QED BY <2>1, PTL DEF GrantsAgree
  <1>2. CASE DatabaseNames # {}
    <2>1. GrantsInv => MySQL!GrantsAgree
      <3> SUFFICES ASSUME GrantsInv, ~ MySQL!Busy, NEW n \in DatabaseNames \ dbExcused
                   PROVE  granted[n] = [u \in DatabaseUsers |->
                            IF databases[n] # None /\ u \in databases[n] THEN permision[u] ELSE None]
        BY DEF MySQL!GrantsAgree
      <3>1. \A r \in Requests : dbPhase[r] = "none"
        BY DEF MySQL!Busy, GrantsInv, MySQL!TypeOK
      <3>2. \A r \in Requests : dbScript[r] = << >> /\ dbUserScript[r] = << >>
        BY <3>1 DEF GrantsInv, ScriptsAreWhole
      <3>3. /\ ~ Resetting(n) /\ (\A u : ~ Granting(n, u)) /\ \A u : ~ Forgetting(u)
        BY <3>2, NoScript DEF Resetting, Granting, Forgetting
      <3>4. granted[n] = table[n]
        BY <3>2 DEF GrantsInv, PrivilegesOf, InMemory
      <3>5. \A u \in OfDatabase(n) : table[n][u] = permision[u]
        BY <3>3 DEF GrantsInv, PrivilegesOf, KeepsUsers
      <3>6. \A u \in DatabaseUsers \ OfDatabase(n) : table[n][u] = None
        BY <3>3 DEF GrantsInv, PrivilegesOf, KeepsOthersOut
      <3>7. table[n] \in [DatabaseUsers -> MySQL!Permisions \cup {None}]
        BY DEF GrantsInv, MySQL!TypeOK
      <3>8. QED BY <3>4, <3>5, <3>6, <3>7 DEF OfDatabase
    <2>2. QED
      BY <1>2, <2>1, GrantsInvariant, PTL DEF GrantsAgree
  <1>3. QED
    BY <1>1, <1>2

-----------------------------------------------------------------------------
(* The logins of system users *)

\* The rows there are, as a request sees them: its own until it commits.
RowsOf(r) == IF userPhase[r] = "open" THEN writes[r].rows ELSE active
EnabledOf(r) == IF userPhase[r] = "open" THEN writes[r].account ELSE account

\* Rows are written by one transaction at a time, over those it read; the account changes
\* with all its users; its main user is never removed; and its script is whole.
TransactionOf(r) ==
  /\ writes[r].rows \in [UnixUsers -> BOOLEAN \cup {None}] /\ writes[r].account \in BOOLEAN
  /\ writes[r].rows[Main] # None
  /\ \A u \in UnixUsers \ writes[r].users : writes[r].rows[u] = active[u]
  /\ writes[r].account = account \/ writes[r].users = Unix!Exists(active)
  /\ \A u \in writes[r].users : \E c \in Commands(userScript[r]) : c.user = u
OneTransaction ==
  /\ active[Main] # None /\ DOMAIN writes = Requests
  /\ \A r \in Requests : userPhase[r] = "open" => TransactionOf(r)
  /\ \A q, r \in Requests : userPhase[q] = "open" /\ userPhase[r] = "open" => q = r

\* A script is about the users of its request, and a deletion is alone in it.
ScriptOfUsers(r) ==
  /\ userPhase[r] = "none" => userScript[r] = << >>
  /\ userPhase[r] # "none" => writes[r].users \subseteq UnixUsers
  /\ \A c, d \in Commands(userScript[r]) :
       /\ c.user \in writes[r].users
       /\ c.do = "delete" => d.user = c.user

\* A command that is still to come is what the rows say of its user; that of the main user
\* has the groups of all others.
AsRows(c, u, r) ==
  /\ c.do = "delete" <=> RowsOf(r)[u] = None
  /\ c.do = "save" => (c.active = TRUE <=> RowsOf(r)[u] = TRUE /\ EnabledOf(r) = TRUE)
WorksOn(r, u) == userPhase[r] # "none" /\ u \in Unix!Concerns(writes[r].users)
OneWorksOn(u) == \A q, r \in Requests : WorksOn(q, u) /\ WorksOn(r, u) => q = r
OrderedAs(u) ==
  \A r \in Requests : \A c \in Commands(userScript[r]) :
    /\ c.user = u => AsRows(c, u, r)
    /\ c.user = Main /\ c.do = "save" /\ u # Main => (u \in c.groups <=> RowsOf(r)[u] # None)

\* What was done for a user is what its row says, that of a deletion in any case.
ToDo(u) == \E r \in Requests : \E c \in Commands(userScript[r]) : c.user = u
DoneFor(u) ==
  ~ ToDo(u) =>
    /\ active[u] = None => login[u] = None
    /\ u \notin skipped => (login[u] = TRUE <=> active[u] = TRUE /\ account = TRUE)

\* The main user, once enabled, is in the groups there are.
Reached(u) == u # Main /\ login[Main] = TRUE => (u \in reach <=> login[u] # None)

Agrees(u) == OneWorksOn(u) /\ OrderedAs(u) /\ DoneFor(u) /\ Reached(u)
UsersInv ==
  /\ Unix!TypeOK /\ OneTransaction /\ \A r \in Requests : ScriptOfUsers(r)
  /\ \A u \in UnixUsers \ userOverlaps : Agrees(u)

\* Any finite set has its members in some order, that begins with any of them.
LEMMA OrderExists ==
  ASSUME NEW S, IsFiniteSet(S)
  PROVE  \E s \in Unix!SetToSeqs(S) : Main \in S => Head(s) = Main
  <1> DEFINE n == Cardinality(S)
  <1>1. n \in Nat /\ ExistsBijection(1 .. n, S)
    BY FS_CardinalityType
  <1>2. Unix!Cardinality(S) = n
    BY DEF Unix!Cardinality, Cardinality
  <1>3. PICK f \in [1 .. n -> S] : /\ \A a, b \in 1 .. n : f[a] = f[b] => a = b
                                   /\ \A x \in S : \E a \in 1 .. n : f[a] = x
    BY <1>1, Fun_BijectionProperties DEF ExistsBijection
  <1> HIDE DEF n
  <1>4. \A g \in [1 .. n -> S] : (\A a, b \in 1 .. n : g[a] = g[b] => a = b) =>
           g \in Unix!SetToSeqs(S)
    BY <1>2 DEF Unix!SetToSeqs
  <1>5. CASE Main \notin S
    BY <1>3, <1>4, <1>5
  <1>6. CASE Main \in S
    <2>1. PICK m \in 1 .. n : f[m] = Main
      BY <1>3, <1>6
    <2> DEFINE g == [a \in 1 .. n |-> IF a = 1 THEN f[m] ELSE IF a = m THEN f[1] ELSE f[a]]
    <2>2. 1 \in 1 .. n
      BY <1>1, <2>1
    <2>3. g \in [1 .. n -> S] /\ \A a, b \in 1 .. n : g[a] = g[b] => a = b
      BY <1>3, <2>2
    <2>4. Head(g) = Main
      BY <2>1, <2>2
    <2> HIDE DEF g
    <2>5. QED BY <1>4, <2>3, <2>4
  <1>7. QED BY <1>5, <1>6

\* A script has a command for each of the users, and no other.
CommandsFor(s, who, newRows, enabled) ==
  /\ s \in Seq(Unix!Commands)
  /\ Commands(s) = {Unix!CommandFor(u, newRows, enabled) : u \in who}

\* The script that prepares users, in the order of their sets, has one command for each.
LEMMA GeneratedCommands ==
  ASSUME IsFiniteSet(UnixUsers), NEW who \in SUBSET UnixUsers, NEW enabled \in BOOLEAN,
         NEW newRows \in [UnixUsers -> BOOLEAN \cup {None}]
  PROVE  CommandsFor(Unix!Generated(who, newRows, enabled), who, newRows, enabled)
  <1> DEFINE n == Cardinality(who)
             order == CHOOSE s \in Unix!SetToSeqs(who) : Main \in who => Head(s) = Main
             s == [i \in 1 .. Len(order) |-> Unix!CommandFor(order[i], newRows, enabled)]
  <1>1. IsFiniteSet(who) /\ n \in Nat
    BY FS_Subset, FS_CardinalityType
  <1>2. Unix!Cardinality(who) = n
    BY DEF Unix!Cardinality, Cardinality
  <1>3. order \in Unix!SetToSeqs(who)
    BY <1>1, OrderExists
  <1> HIDE DEF order
  <1>4. order \in [1 .. n -> who] /\ \A i, j \in 1 .. n : i # j => order[i] # order[j]
    <2> HIDE DEF n
    <2>1. QED BY <1>2, <1>3 DEF Unix!SetToSeqs
  <1>5. order \in Injection(1 .. n, who)
    <2> HIDE DEF n
    <2>1. QED BY <1>4, Fun_IsInj
  <1>6. Cardinality(1 .. n) = n
    <2> HIDE DEF n
    <2>1. QED BY <1>1, FS_Interval
  <1>7. order \in Surjection(1 .. n, who)
    BY <1>1, <1>5, <1>6, FS_Injection
  <1> HIDE DEF n
  <1>8. \A u \in who : \E i \in 1 .. n : order[i] = u
    BY <1>7 DEF Surjection
  <1>9. Len(order) = n /\ DOMAIN order = 1 .. n
    BY <1>1, <1>4
  <1>10. \A u \in who : Unix!CommandFor(u, newRows, enabled) \in Unix!Commands
    BY DEF Unix!CommandFor, Unix!Save, Unix!get_groups, Unix!Exists, Unix!Commands
  <1>11. s \in [1 .. n -> Unix!Commands] /\ \A i \in 1 .. n : s[i] = Unix!CommandFor(order[i], newRows,
            enabled)
    BY <1>4, <1>9, <1>10
  <1>12. s = Unix!Generated(who, newRows, enabled)
    BY DEF Unix!Generated, order
  <1> HIDE DEF s
  <1>13. s \in Seq(Unix!Commands) /\ DOMAIN s = 1 .. n
    BY <1>1, <1>11
  <1>14. Commands(s) = {Unix!CommandFor(u, newRows, enabled) : u \in who}
    BY <1>4, <1>8, <1>11, <1>13 DEF Commands
  <1>15. QED
    BY <1>12, <1>13, <1>14 DEF CommandsFor

\* What a command says of its user.
SaysOf(c, u, newRows, enabled) ==
  /\ c.user = u /\ c.do \in {"save", "delete"}
  /\ c.do = "delete" <=> newRows[u] = None
  /\ c.do = "save" => /\ c.active = TRUE <=> newRows[u] = TRUE /\ enabled = TRUE
                      /\ c.groups = Unix!get_groups(u, newRows)

\* The command for a user says what its row says.
LEMMA CommandSays ==
  ASSUME NEW u \in UnixUsers, NEW enabled \in BOOLEAN,
         NEW newRows \in [UnixUsers -> BOOLEAN \cup {None}], None \notin BOOLEAN
  PROVE  SaysOf(Unix!CommandFor(u, newRows, enabled), u, newRows, enabled)
  BY DEF Unix!CommandFor, Unix!Save, SaysOf

\* A request generates its script, about users with whom nobody else is busy, unless they
\* are among the overlaps.
LEMMA RequestedStep ==
  ASSUME Unix!Assumption, UsersInv, NEW r \in Requests, NEW who \in SUBSET UnixUsers,
         NEW newRows \in [UnixUsers -> BOOLEAN \cup {None}], NEW enabled \in BOOLEAN,
         newRows[Main] # None, \A u \in UnixUsers \ who : newRows[u] = active[u],
         enabled = account \/ who = Unix!Exists(active),
         \A u \in who : newRows[u] = None => who = {u},
         Unix!Requested(r, who, newRows, enabled)
  PROVE  UsersInv'
  <1> DEFINE s == Unix!Generated(who, newRows, enabled)
  <1>1. /\ userPhase[r] = "none" /\ \A q \in Requests : userPhase[q] # "open"
        /\ writes' = [writes EXCEPT ![r] = [users |-> who, rows |-> newRows, account |-> enabled]]
        /\ userScript' = [userScript EXCEPT ![r] = s]
        /\ userPhase' = [userPhase EXCEPT ![r] = "open"]
        /\ UNCHANGED <<active, account, homes, login, reach, skipped>>
    BY DEF Unix!Requested, Unix!db, Unix!server
  <1>2. userOverlaps \subseteq userOverlaps' /\ userOverlaps' \subseteq UnixUsers
    BY DEF Unix!Requested, Unix!Concerns, UsersInv, Unix!TypeOK
  <1>3. \A u \in UnixUsers, q \in Requests \ {r} :
          u \in Unix!Concerns(who) /\ WorksOn(q, u) => u \in userOverlaps'
    BY DEF Unix!Requested, WorksOn
  <1>4. /\ s \in Seq(Unix!Commands)
        /\ \A c \in Commands(s) : \E u \in who : c = Unix!CommandFor(u, newRows, enabled)
        /\ \A u \in who : Unix!CommandFor(u, newRows, enabled) \in Commands(s)
    <2>1. CommandsFor(s, who, newRows, enabled)
      <3>1. IsFiniteSet(UnixUsers)
        BY DEF Unix!Assumption, Unix!IsFiniteSet, IsFiniteSet
      <3>2. QED BY <3>1, GeneratedCommands
    <2> HIDE DEF s
    <2>2. QED BY <2>1 DEF CommandsFor
  <1> HIDE DEF s
  <1>5. ASSUME NEW c \in Commands(s) PROVE c.user \in who /\ SaysOf(c, c.user, newRows, enabled)
    <2>1. PICK u \in who : c = Unix!CommandFor(u, newRows, enabled)
      BY <1>4
    <2>2. SaysOf(c, u, newRows, enabled)
      BY <2>1, CommandSays DEF Unix!Assumption
    <2>3. c.user = u
      BY <2>2 DEF SaysOf
    <2>4. QED BY <2>2, <2>3
  <1>6. \A u \in who : \E c \in Commands(s) : c.user = u
    <2> SUFFICES ASSUME NEW u \in who PROVE Unix!CommandFor(u, newRows, enabled).user = u
      BY <1>4
    <2>1. SaysOf(Unix!CommandFor(u, newRows, enabled), u, newRows, enabled)
      BY CommandSays DEF Unix!Assumption
    <2>2. QED BY <2>1 DEF SaysOf
  <1>7. /\ userScript \in [Requests -> Seq(Unix!Commands)] /\ DOMAIN writes = Requests
        /\ userPhase \in [Requests -> {"none", "open", "executes"}]
        /\ \A q \in Requests : ScriptOfUsers(q)
    BY DEF UsersInv, Unix!TypeOK, OneTransaction
  <1>8. /\ userScript' \in [Requests -> Seq(Unix!Commands)] /\ DOMAIN writes' = Requests
        /\ userPhase' \in [Requests -> {"none", "open", "executes"}]
        /\ userScript'[r] = s /\ userPhase'[r] = "open"
        /\ writes'[r].users = who /\ writes'[r].rows = newRows /\ writes'[r].account = enabled
        /\ \A q \in Requests \ {r} : /\ userScript'[q] = userScript[q]
                                     /\ userPhase'[q] = userPhase[q] /\ writes'[q] = writes[q]
    BY <1>1, <1>4, <1>7
  <1>9. Unix!TypeOK'
    BY <1>1, <1>2, <1>8 DEF UsersInv, Unix!TypeOK, Unix!Commands
  <1>10. OneTransaction'
    <2>1. TransactionOf(r)'
      BY <1>1, <1>6, <1>8 DEF TransactionOf, Unix!Exists
    <2>2. \A q \in Requests : userPhase'[q] = "open" => q = r
      BY <1>1, <1>8
    <2>3. active'[Main] # None
      BY <1>1 DEF UsersInv, OneTransaction
    <2>4. QED BY <1>8, <2>1, <2>2, <2>3 DEF OneTransaction
  <1>11. ASSUME NEW q \in Requests PROVE ScriptOfUsers(q)'
    <2>1. CASE q = r
      <3>1. \A c \in Commands(s) : c.user \in who /\ (c.do = "delete" => newRows[c.user] = None)
        BY <1>5 DEF SaysOf
      <3>2. \A c, d \in Commands(s) : c.user \in who /\ (c.do = "delete" => d.user = c.user)
        BY <3>1
      <3>3. userScript'[q] = s /\ userPhase'[q] = "open" /\ writes'[q].users = who
        BY <1>8, <2>1
      <3>4. QED BY <3>2, <3>3 DEF ScriptOfUsers
    <2>2. CASE q # r
      BY <1>7, <1>8, <2>2 DEF ScriptOfUsers
    <2>3. QED BY <2>1, <2>2
  <1>12. ASSUME NEW u \in UnixUsers \ userOverlaps' PROVE Agrees(u)'
    <2>1. Agrees(u)
      BY <1>2 DEF UsersInv
    <2>2. \A q \in Requests \ {r} : WorksOn(q, u)' <=> WorksOn(q, u)
      BY <1>8 DEF WorksOn, Unix!Concerns
    <2>3. WorksOn(r, u)' <=> u \in Unix!Concerns(who)
      BY <1>8 DEF WorksOn, Unix!Concerns
    <2>4. OneWorksOn(u)'
      BY <1>3, <2>1, <2>2, <2>3 DEF Agrees, OneWorksOn
    <2>5. /\ \A q \in Requests \ {r} : RowsOf(q)' = RowsOf(q) /\ EnabledOf(q)' = EnabledOf(q)
          /\ RowsOf(r)' = newRows /\ EnabledOf(r)' = enabled
      BY <1>1, <1>8 DEF RowsOf, EnabledOf
    <2>6. OrderedAs(u)'
      <3> SUFFICES ASSUME NEW q \in Requests, NEW c \in Commands(userScript'[q])
                   PROVE  /\ c.user = u => AsRows(c, u, q)'
                          /\ c.user = Main /\ c.do = "save" /\ u # Main =>
                               (u \in c.groups <=> RowsOf(q)'[u] # None)
        BY DEF OrderedAs
      <3>1. CASE q = r
        <4>1. c.user \in who /\ SaysOf(c, c.user, newRows, enabled)
          BY <1>5, <1>8, <3>1
        <4>2. c.user = u => AsRows(c, u, q)'
          BY <2>5, <3>1, <4>1 DEF AsRows, SaysOf
        <4>3. c.user = Main /\ c.do = "save" => c.groups = Unix!Exists(newRows) \ {Main}
          BY <4>1 DEF SaysOf, Unix!get_groups
        <4>4. QED BY <2>5, <3>1, <4>2, <4>3 DEF Unix!Exists
      <3>2. CASE q # r
        BY <1>8, <2>1, <2>5, <3>2 DEF Agrees, OrderedAs, AsRows
      <3>3. QED BY <3>1, <3>2
    <2>7. ToDo(u) => ToDo(u)'
      <3>1. Commands(userScript[r]) = {}
        BY <1>1, <1>7 DEF ScriptOfUsers, Commands
      <3>2. QED BY <1>8, <3>1 DEF ToDo
    <2>8. DoneFor(u)' /\ Reached(u)'
      BY <1>1, <2>1, <2>7 DEF Agrees, DoneFor, Reached
    <2>9. QED BY <2>4, <2>6, <2>8 DEF Agrees
  <1>13. QED
    BY <1>9, <1>10, <1>11, <1>12 DEF UsersInv

\* The requests there are.
LEMMA UsersRequestStep ==
  ASSUME Unix!Assumption, UsersInv, NEW r \in Requests,
         \/ \E u \in UnixUsers : Unix!PutUser(r, u) \/ Unix!RemoveUser(r, u)
         \/ Unix!SwitchAccount(r)
  PROVE  UsersInv'
  <1>1. /\ active \in [UnixUsers -> BOOLEAN \cup {None}] /\ account \in BOOLEAN
        /\ active[Main] # None /\ Main \in UnixUsers /\ None \notin BOOLEAN
    BY DEF UsersInv, Unix!TypeOK, OneTransaction, Unix!Assumption
  <1>2. ASSUME NEW u \in UnixUsers, Unix!PutUser(r, u) PROVE UsersInv'
    <2>1. PICK b \in BOOLEAN : Unix!Requested(r, {u}, [active EXCEPT ![u] = b], account)
      BY <1>2 DEF Unix!PutUser
    <2> DEFINE newRows == [active EXCEPT ![u] = b]
    <2>2. /\ newRows \in [UnixUsers -> BOOLEAN \cup {None}] /\ newRows[Main] # None
          /\ \A x \in UnixUsers \ {u} : newRows[x] = active[x]
      BY <1>1
    <2>3. Unix!Requested(r, {u}, newRows, account)
      BY <2>1
    <2> HIDE DEF newRows
    <2>4. QED BY <1>1, <2>2, <2>3, RequestedStep
  <1>3. ASSUME NEW u \in UnixUsers, Unix!RemoveUser(r, u) PROVE UsersInv'
    <2> DEFINE newRows == [active EXCEPT ![u] = None]
    <2>1. Unix!Requested(r, {u}, newRows, account) /\ u # Main
      BY <1>3 DEF Unix!RemoveUser
    <2>2. /\ newRows \in [UnixUsers -> BOOLEAN \cup {None}] /\ newRows[Main] # None
          /\ \A x \in UnixUsers \ {u} : newRows[x] = active[x]
      BY <1>1, <2>1
    <2> HIDE DEF newRows
    <2>3. QED BY <1>1, <2>1, <2>2, RequestedStep
  <1>4. CASE Unix!SwitchAccount(r)
    <2> DEFINE who == Unix!Exists(active)
               enabled == ~account
    <2>1. Unix!Requested(r, who, active, enabled)
      BY <1>4 DEF Unix!SwitchAccount
    <2>2. who \in SUBSET UnixUsers /\ \A u \in UnixUsers : u \in who <=> active[u] # None
      BY DEF Unix!Exists
    <2>3. enabled \in BOOLEAN
      OBVIOUS
    <2>4. who = Unix!Exists(active)
      OBVIOUS
    <2> HIDE DEF who, enabled
    <2>5. QED BY <1>1, <2>1, <2>2, <2>3, <2>4, RequestedStep
  <1>5. QED
    BY <1>2, <1>3, <1>4

\* A transaction commits: its rows are now those of all.
LEMMA UsersCommitStep ==
  ASSUME Unix!Assumption, UsersInv, NEW r \in Requests, Unix!Commit(r)
  PROVE  UsersInv'
  <1>1. /\ userPhase[r] = "open"
        /\ active' = writes[r].rows /\ account' = writes[r].account
        /\ userPhase' = [userPhase EXCEPT ![r] = "executes"]
        /\ UNCHANGED <<homes, login, reach, writes, userScript, userOverlaps, skipped>>
    BY DEF Unix!Commit, Unix!server
  <1>2. TransactionOf(r) /\ \A q \in Requests \ {r} : userPhase[q] # "open"
    BY <1>1 DEF UsersInv, OneTransaction
  <1>3. /\ userPhase \in [Requests -> {"none", "open", "executes"}] /\ Main \in UnixUsers
        /\ active[Main] # None /\ None \notin BOOLEAN /\ DOMAIN writes = Requests
        /\ active \in [UnixUsers -> BOOLEAN \cup {None}] /\ account \in BOOLEAN
    BY DEF UsersInv, Unix!TypeOK, OneTransaction, Unix!Assumption
  <1>4. /\ userPhase' \in [Requests -> {"none", "open", "executes"}]
        /\ userPhase'[r] = "executes" /\ \A q \in Requests : userPhase'[q] # "open"
        /\ \A q \in Requests \ {r} : userPhase'[q] = userPhase[q]
    BY <1>1, <1>2, <1>3
  <1>5. Unix!TypeOK'
    BY <1>1, <1>2, <1>4 DEF UsersInv, Unix!TypeOK, TransactionOf, Unix!Commands
  <1>6. OneTransaction'
    BY <1>1, <1>2, <1>3, <1>4 DEF OneTransaction, TransactionOf
  <1>7. ASSUME NEW q \in Requests PROVE ScriptOfUsers(q)'
    <2>1. ScriptOfUsers(q)
      BY DEF UsersInv
    <2>2. userPhase'[q] # "none" <=> userPhase[q] # "none"
      BY <1>1, <1>4
    <2>3. QED BY <1>1, <2>1, <2>2 DEF ScriptOfUsers
  <1>8. ASSUME NEW u \in UnixUsers \ userOverlaps PROVE Agrees(u)'
    <2>1. Agrees(u)
      BY DEF UsersInv
    <2>2. \A q \in Requests : WorksOn(q, u)' <=> WorksOn(q, u)
      BY <1>1, <1>4 DEF WorksOn
    <2>3. ~ WorksOn(r, u) => active'[u] = active[u] /\ account' = account
      BY <1>1, <1>2, <1>3 DEF WorksOn, TransactionOf, Unix!Concerns, Unix!Exists
    <2>4. RowsOf(r)' = RowsOf(r) /\ EnabledOf(r)' = EnabledOf(r)
      BY <1>1, <1>4 DEF RowsOf, EnabledOf
    <2>5. \A q \in Requests \ {r} :
            /\ RowsOf(q) = active /\ RowsOf(q)' = active'
            /\ EnabledOf(q) = account /\ EnabledOf(q)' = account'
      BY <1>2, <1>4 DEF RowsOf, EnabledOf
    <2>6. OrderedAs(u)'
      <3> SUFFICES ASSUME NEW q \in Requests, NEW c \in Commands(userScript[q])
                   PROVE  /\ c.user = u => AsRows(c, u, q)'
                          /\ c.user = Main /\ c.do = "save" /\ u # Main =>
                               (u \in c.groups <=> RowsOf(q)'[u] # None)
        BY <1>1 DEF OrderedAs
      <3>1. CASE q = r
        BY <2>1, <2>4, <3>1 DEF Agrees, OrderedAs, AsRows
      <3>2. CASE q # r
        <4>1. c.user = u \/ c.user = Main => WorksOn(q, u)
          BY DEF WorksOn, UsersInv, ScriptOfUsers, Unix!Concerns, Commands
        <4>2. c.user = u \/ c.user = Main => ~ WorksOn(r, u)
          BY <2>1, <3>2, <4>1 DEF Agrees, OneWorksOn
        <4>3. QED BY <2>1, <2>3, <2>5, <3>2, <4>2 DEF Agrees, OrderedAs, AsRows
      <3>3. QED BY <3>1, <3>2
    <2>7. ToDo(u)' <=> ToDo(u)
      BY <1>1 DEF ToDo
    <2>8. DoneFor(u)'
      <3>1. CASE ToDo(u)
        BY <2>7, <3>1 DEF DoneFor
      <3>2. CASE ~ ToDo(u)
        <4>1. u \notin writes[r].users
          BY <1>2, <3>2 DEF TransactionOf, ToDo
        <4>2. active'[u] = active[u] /\ (account' = account \/ active[u] = None)
          BY <1>1, <1>2, <4>1 DEF TransactionOf, Unix!Exists
        <4>3. QED BY <1>1, <1>3, <2>1, <3>2, <4>2 DEF Agrees, DoneFor
      <3>3. QED BY <3>1, <3>2
    <2>9. Reached(u)'
      BY <1>1, <2>1 DEF Agrees, Reached
    <2>10. OneWorksOn(u)'
      BY <2>1, <2>2 DEF Agrees, OneWorksOn
    <2>11. QED BY <2>6, <2>8, <2>9, <2>10 DEF Agrees
  <1>9. QED
    BY <1>1, <1>5, <1>6, <1>7, <1>8 DEF UsersInv

\* A command of a script was the head of it, and is gone.
UserRan(r, h) ==
  /\ UNCHANGED <<active, account, homes, userPhase, writes, userOverlaps>>
  /\ h = Head(userScript[r]) /\ h \in Unix!Commands /\ h \in Commands(userScript[r])
  /\ h.user \in UnixUsers /\ userPhase[r] = "executes"
  /\ userScript' \in [Requests -> Seq(Unix!Commands)]
  /\ \A q \in Requests \ {r} : userScript'[q] = userScript[q]
  /\ Commands(userScript'[r]) \subseteq Commands(userScript[r])
  /\ skipped' \subseteq UnixUsers

\* A command that succeeds leaves the rest of its script.
LEMMA GoesOnEffect ==
  ASSUME UsersInv, NEW r \in Requests, NEW do, Unix!Executes(r, do), Unix!GoesOn(r)
  PROVE  /\ UserRan(r, Unix!Command(r)) /\ Unix!Command(r).do = do
         /\ Commands(userScript[r]) \subseteq Commands(userScript'[r]) \cup {Unix!Command(r)}
         /\ skipped' = skipped \ {Unix!Command(r).user}
  <1> DEFINE h == Unix!Command(r)
  <1>1. userScript \in [Requests -> Seq(Unix!Commands)] /\ skipped \subseteq UnixUsers
    BY DEF UsersInv, Unix!TypeOK
  <1>2. h = Head(userScript[r]) /\ userScript[r] \in Seq(Unix!Commands) /\ userScript[r] # << >>
    BY <1>1 DEF Unix!Command, Unix!Executes
  <1>3. /\ Tail(userScript[r]) \in Seq(Unix!Commands) /\ h \in Unix!Commands
        /\ HasTail(userScript[r])
    BY <1>2, TailOfScript
  <1>4. /\ userScript' = [userScript EXCEPT ![r] = Tail(userScript[r])]
        /\ skipped' = skipped \ {h.user} /\ userPhase[r] = "executes" /\ h.do = do
        /\ UNCHANGED <<active, account, homes, userPhase, writes, userOverlaps>>
    BY DEF Unix!GoesOn, Unix!Executes, Unix!db
  <1>5. h.user \in UnixUsers
    BY <1>3 DEF Unix!Commands
  <1> HIDE DEF h
  <1>6. /\ userScript'[r] = Tail(userScript[r])
        /\ userScript' \in [Requests -> Seq(Unix!Commands)]
        /\ \A q \in Requests \ {r} : userScript'[q] = userScript[q]
    BY <1>1, <1>3, <1>4
  <1>7. QED
    BY <1>1, <1>2, <1>3, <1>4, <1>5, <1>6 DEF UserRan, HasTail, h

\* One that fails ends its script, and the users of the rest are skipped.
LEMMA ExitsEffect ==
  ASSUME UsersInv, NEW r \in Requests, NEW do, NEW undone \in SUBSET Unix!Left(r),
         Unix!Executes(r, do), Unix!Exits(r, undone)
  PROVE  /\ UserRan(r, Unix!Command(r)) /\ Unix!Command(r).do = do
         /\ userScript'[r] = << >> /\ skipped' = skipped \cup undone
         /\ UNCHANGED <<login, reach>>
         /\ Unix!Left(r) = {c.user : c \in Commands(userScript[r])}
  <1> DEFINE h == Unix!Command(r)
  <1>1. userScript \in [Requests -> Seq(Unix!Commands)] /\ skipped \subseteq UnixUsers
    BY DEF UsersInv, Unix!TypeOK
  <1>2. h = Head(userScript[r]) /\ userScript[r] \in Seq(Unix!Commands) /\ userScript[r] # << >>
    BY <1>1 DEF Unix!Command, Unix!Executes
  <1>3. h \in Unix!Commands /\ HasTail(userScript[r])
    BY <1>2, TailOfScript
  <1>4. /\ userScript' = [userScript EXCEPT ![r] = << >>]
        /\ skipped' = skipped \cup undone /\ userPhase[r] = "executes" /\ h.do = do
        /\ UNCHANGED <<active, account, homes, userPhase, writes, userOverlaps, login, reach>>
    BY DEF Unix!Exits, Unix!Executes, Unix!db, Unix!server
  <1>5. h.user \in UnixUsers
    BY <1>3 DEF Unix!Commands
  <1>6. Unix!Left(r) = {c.user : c \in Commands(userScript[r])}
    BY DEF Unix!Left, Unix!ToSet, Commands
  <1>7. \A c \in Commands(userScript[r]) : c.user \in UnixUsers
    <2>1. \A c \in Commands(userScript[r]) : c \in Unix!Commands
      BY <1>2 DEF Commands
    <2>2. QED BY <2>1 DEF Unix!Commands
  <1> HIDE DEF h
  <1>8. /\ userScript'[r] = << >> /\ Commands(userScript'[r]) = {}
        /\ userScript' \in [Requests -> Seq(Unix!Commands)]
        /\ \A q \in Requests \ {r} : userScript'[q] = userScript[q]
    BY <1>1, <1>4 DEF Commands
  <1>9. QED
    BY <1>1, <1>2, <1>3, <1>4, <1>5, <1>6, <1>7, <1>8 DEF UserRan, HasTail, h

\* What holds after a command, once what it did for its user is known.
LEMMA UserRanStep ==
  ASSUME Unix!Assumption, UsersInv, NEW r \in Requests, NEW h, UserRan(r, h),
         login' \in [UnixUsers -> BOOLEAN \cup {None}], reach' \subseteq UnixUsers,
         \A u \in UnixUsers \ userOverlaps : DoneFor(u)' /\ Reached(u)'
  PROVE  UsersInv'
  <1>1. Unix!TypeOK'
    BY DEF UserRan, UsersInv, Unix!TypeOK, Unix!Commands
  <1>2. OneTransaction'
    <2>1. \A q \in Requests : userPhase[q] = "open" => userScript'[q] = userScript[q]
      BY DEF UserRan
    <2>2. \A q \in Requests : TransactionOf(q) /\ userScript'[q] = userScript[q] => TransactionOf(q)'
      BY DEF UserRan, TransactionOf, Unix!Exists
    <2>3. QED BY <2>1, <2>2 DEF UserRan, UsersInv, OneTransaction
  <1>3. \A q \in Requests : Commands(userScript'[q]) \subseteq Commands(userScript[q])
    BY DEF UserRan
  <1>4. ASSUME NEW q \in Requests PROVE ScriptOfUsers(q)'
    <2>1. ScriptOfUsers(q)
      BY DEF UsersInv
    <2>2. userPhase[q] = "none" => userScript'[q] = userScript[q]
      BY DEF UserRan
    <2>3. userPhase' = userPhase /\ writes' = writes
      BY DEF UserRan
    <2>4. QED BY <1>3, <2>1, <2>2, <2>3 DEF ScriptOfUsers
  <1>5. ASSUME NEW u \in UnixUsers \ userOverlaps PROVE OneWorksOn(u)' /\ OrderedAs(u)'
    <2>1. OneWorksOn(u) /\ OrderedAs(u)
      BY DEF UsersInv, Agrees
    <2>2. \A q \in Requests : RowsOf(q)' = RowsOf(q) /\ EnabledOf(q)' = EnabledOf(q)
      BY DEF UserRan, RowsOf, EnabledOf
    <2>3. \A q \in Requests : WorksOn(q, u)' <=> WorksOn(q, u)
      BY DEF UserRan, WorksOn
    <2>4. QED BY <1>3, <2>1, <2>2, <2>3 DEF OneWorksOn, OrderedAs, AsRows
  <1>6. userOverlaps' = userOverlaps
    BY DEF UserRan
  <1>7. QED BY <1>1, <1>2, <1>4, <1>5, <1>6 DEF UsersInv, Agrees

\* What the command at the head of a script says, and that of those it is not about
\* nothing has changed.
LEMMA HeadOfUsers ==
  ASSUME Unix!Assumption, UsersInv, NEW r \in Requests, NEW h, UserRan(r, h),
         NEW u \in UnixUsers \ userOverlaps
  PROVE  /\ h.user = u => /\ h.do = "delete" <=> active[u] = None
                          /\ h.do = "save" =>
                               (h.active = TRUE <=> active[u] = TRUE /\ account = TRUE)
         /\ h.user = Main /\ h.do = "save" /\ u # Main => (u \in h.groups <=> active[u] # None)
         /\ \A c \in Commands(userScript[r]) : c.user = u => (c.do = "delete" <=> active[u] = None)
         /\ \A c \in Commands(userScript[r]) : c.do = "delete" => h.user = c.user
  <1>1. RowsOf(r) = active /\ EnabledOf(r) = account
    BY DEF RowsOf, EnabledOf, UserRan
  <1>2. QED
    BY <1>1 DEF UsersInv, Agrees, OrderedAs, AsRows, UserRan, ScriptOfUsers

\* So do the other commands of the script, and none is beside a deletion.
LEMMA OthersOfScript ==
  ASSUME Unix!Assumption, UsersInv, NEW r \in Requests, NEW h, UserRan(r, h),
         NEW u \in UnixUsers \ userOverlaps, NEW c \in Commands(userScript[r]), c.user = u
  PROVE  (c.do = "delete" <=> active[u] = None) /\ (c.do = "delete" => h.user = u)
  <1>1. RowsOf(r) = active
    BY DEF RowsOf, UserRan
  <1>2. OrderedAs(u) /\ ScriptOfUsers(r) /\ h \in Commands(userScript[r])
    BY DEF UsersInv, Agrees, UserRan
  <1>3. c.do = "delete" <=> active[u] = None
    BY <1>1, <1>2 DEF OrderedAs, AsRows
  <1>4. c.do = "delete" => h.user = u
    BY <1>2 DEF ScriptOfUsers
  <1>5. QED BY <1>3, <1>4

\* A command that ran did for its user what the row says, and nothing for others.
LEMMA GoesOnStep ==
  ASSUME Unix!Assumption, UsersInv, NEW r \in Requests, NEW do, Unix!Executes(r, do),
         Unix!GoesOn(r), NEW h, h = Unix!Command(r),
         login' \in [UnixUsers -> BOOLEAN \cup {None}], reach' \subseteq UnixUsers,
         \A u \in UnixUsers \ {h.user} : login'[u] = login[u],
         h.user \notin userOverlaps =>
           /\ active[h.user] = None => login'[h.user] = None
           /\ login'[h.user] = TRUE <=> active[h.user] = TRUE /\ account = TRUE,
         \A u \in UnixUsers \ userOverlaps : Reached(u)'
  PROVE  UsersInv'
  <1>1. /\ UserRan(r, h) /\ skipped' = skipped \ {h.user}
        /\ Commands(userScript[r]) \subseteq Commands(userScript'[r]) \cup {h}
    BY GoesOnEffect
  <1>2. ASSUME NEW u \in UnixUsers \ userOverlaps PROVE DoneFor(u)'
    <2>1. CASE u = h.user
      <3>1. active' = active /\ account' = account
        BY <1>1 DEF UserRan
      <3>2. QED BY <2>1, <3>1 DEF DoneFor
    <2>2. CASE u # h.user
      <3>1. DoneFor(u)
        BY DEF UsersInv, Agrees
      <3>2. ToDo(u) => ToDo(u)'
        BY <1>1, <2>2 DEF ToDo, UserRan
      <3>3. login'[u] = login[u] /\ active' = active /\ account' = account
        BY <1>1, <2>2 DEF UserRan
      <3>4. u \notin skipped' => u \notin skipped
        BY <1>1, <2>2
      <3>5. QED BY <3>1, <3>2, <3>3, <3>4 DEF DoneFor
    <2>3. QED BY <2>1, <2>2
  <1>3. QED
    BY <1>1, <1>2, UserRanStep

\* usermod --lock: the login of the user is disabled, if it exists.
LEMMA DisableLoginStep ==
  ASSUME Unix!Assumption, UsersInv, NEW r \in Requests, Unix!DisableLogin(r)
  PROVE  UsersInv'
  <1> DEFINE h == Unix!Command(r)
  <1>1. /\ Unix!Executes(r, "save") /\ Unix!GoesOn(r) /\ reach' = reach
        /\ h.active # TRUE
        /\ login' = [login EXCEPT ![h.user] = IF @ = None THEN None ELSE FALSE]
    BY DEF Unix!DisableLogin
  <1>2. UserRan(r, h) /\ h.do = "save" /\ h.user \in UnixUsers
    BY <1>1, GoesOnEffect DEF UserRan
  <1>3. /\ login \in [UnixUsers -> BOOLEAN \cup {None}] /\ None \notin BOOLEAN
        /\ reach \subseteq UnixUsers
    BY DEF UsersInv, Unix!TypeOK, Unix!Assumption
  <1>4. h = Unix!Command(r)
    OBVIOUS
  <1> HIDE DEF h
  <1>5. /\ login' \in [UnixUsers -> BOOLEAN \cup {None}]
        /\ login'[h.user] = IF login[h.user] = None THEN None ELSE FALSE
        /\ \A u \in UnixUsers \ {h.user} : login'[u] = login[u]
    BY <1>1, <1>2, <1>3
  <1>6. h.user \notin userOverlaps =>
          active[h.user] # None /\ ~ (active[h.user] = TRUE /\ account = TRUE)
    BY <1>1, <1>2, HeadOfUsers
  <1>7. \A u \in UnixUsers : login'[u] # TRUE \/ login'[u] = login[u]
    BY <1>3, <1>5
  <1>8. \A u \in UnixUsers : login'[u] = None <=> login[u] = None
    BY <1>3, <1>5
  <1>9. ASSUME NEW u \in UnixUsers \ userOverlaps PROVE Reached(u)'
    <2>1. Reached(u) /\ Main \in UnixUsers
      BY DEF UsersInv, Agrees, Unix!Assumption
    <2>2. QED BY <1>1, <1>7, <1>8, <2>1 DEF Reached
  <1>10. login'[h.user] # TRUE
    BY <1>3, <1>5
  <1>11. QED
    BY <1>1, <1>3, <1>4, <1>5, <1>6, <1>9, <1>10, GoesOnStep

\* useradd or usermod of an active user: it may log in, and is in its groups.
LEMMA EnableLoginStep ==
  ASSUME Unix!Assumption, UsersInv, NEW r \in Requests, Unix!EnableLogin(r)
  PROVE  UsersInv'
  <1> DEFINE h == Unix!Command(r)
  <1>1. /\ Unix!Executes(r, "save") /\ Unix!GoesOn(r)
        /\ h.active = TRUE /\ Unix!Known(h.groups)
        /\ login' = [login EXCEPT ![h.user] = TRUE]
        /\ reach' = IF h.user = Main THEN h.groups
                    ELSE reach \cup {u \in {h.user} : login[Main] # None}
    <2>1. h \in Unix!Commands /\ h.do = "save"
      BY GoesOnEffect DEF Unix!EnableLogin, UserRan
    <2>2. h.active \in BOOLEAN
      BY <2>1 DEF Unix!Commands
    <2>3. QED BY <2>2 DEF Unix!EnableLogin
  <1>2. /\ UserRan(r, h) /\ h.do = "save" /\ h.user \in UnixUsers /\ h \in Unix!Commands
    BY <1>1, GoesOnEffect DEF UserRan
  <1>3. h.groups \subseteq UnixUsers
    BY <1>2 DEF Unix!Commands
  <1>4. /\ login \in [UnixUsers -> BOOLEAN \cup {None}] /\ None \notin BOOLEAN
        /\ reach \subseteq UnixUsers /\ Main \in UnixUsers
    BY DEF UsersInv, Unix!TypeOK, Unix!Assumption
  <1>5. h = Unix!Command(r)
    OBVIOUS
  <1> HIDE DEF h
  <1>6. /\ login' \in [UnixUsers -> BOOLEAN \cup {None}] /\ login'[h.user] = TRUE
        /\ \A u \in UnixUsers \ {h.user} : login'[u] = login[u]
    BY <1>1, <1>2, <1>4
  <1>7. reach' \subseteq UnixUsers
    BY <1>1, <1>2, <1>3, <1>4
  <1>8. h.user \notin userOverlaps => active[h.user] = TRUE /\ account = TRUE
    BY <1>1, <1>2, HeadOfUsers
  <1>9. ASSUME NEW u \in UnixUsers \ userOverlaps PROVE Reached(u)'
    <2>1. Reached(u) /\ DoneFor(u) /\ OneWorksOn(u)
      BY DEF UsersInv, Agrees
    <2>2. CASE h.user = Main /\ u # Main
      <3>1. u \in reach' <=> active[u] # None
        BY <1>1, <1>2, <2>2, HeadOfUsers
      <3>2. login'[u] = login[u]
        BY <1>6, <2>2
      <3>3. u \in reach' => login[u] # None
        BY <1>1, <2>2 DEF Unix!Known
      <3>4. ASSUME active[u] = None PROVE ~ ToDo(u)
        <4> SUFFICES ASSUME NEW q \in Requests, NEW c \in Commands(userScript[q]), c.user = u
                     PROVE  FALSE
          BY DEF ToDo
        <4>1. WorksOn(q, u)
          BY DEF WorksOn, UsersInv, ScriptOfUsers, Unix!Concerns, Commands
        <4>2. WorksOn(r, u)
          BY <1>2, <2>2 DEF WorksOn, UserRan, UsersInv, ScriptOfUsers, Unix!Concerns
        <4>3. q = r
          BY <2>1, <4>1, <4>2 DEF OneWorksOn
        <4>4. c.do = "delete"
          BY <1>2, <3>4, <4>3, HeadOfUsers
        <4>5. h.user = u
          BY <1>2, <4>3, <4>4, HeadOfUsers
        <4>6. QED BY <2>2, <4>5
      <3>5. active[u] = None => login[u] = None
        BY <2>1, <3>4 DEF DoneFor
      <3>6. QED BY <3>1, <3>2, <3>3, <3>5 DEF Reached
    <2>3. CASE h.user # Main
      <3>1. login'[Main] = login[Main]
        BY <1>4, <1>6, <2>3
      <3>2. CASE u = h.user
        BY <1>1, <1>4, <1>6, <2>3, <3>1, <3>2 DEF Reached
      <3>3. CASE u # h.user
        <4>1. login'[u] = login[u] /\ (u \in reach' <=> u \in reach)
          BY <1>1, <1>6, <2>3, <3>3
        <4>2. QED BY <2>1, <3>1, <4>1 DEF Reached
      <3>4. QED BY <3>2, <3>3
    <2>4. CASE u = Main
      BY <2>4 DEF Reached
    <2>5. QED BY <2>2, <2>3, <2>4
  <1>10. QED
    BY <1>1, <1>4, <1>5, <1>6, <1>7, <1>8, <1>9, GoesOnStep

\* userdel: the user is gone, and from the groups too.
LEMMA DeleteStep ==
  ASSUME Unix!Assumption, UsersInv, NEW r \in Requests, Unix!Delete(r)
  PROVE  UsersInv'
  <1> DEFINE h == Unix!Command(r)
  <1>1. /\ Unix!Executes(r, "delete") /\ Unix!GoesOn(r)
        /\ login' = [login EXCEPT ![h.user] = None] /\ reach' = reach \ {h.user}
    BY DEF Unix!Delete
  <1>2. UserRan(r, h) /\ h.do = "delete" /\ h.user \in UnixUsers
    BY <1>1, GoesOnEffect DEF UserRan
  <1>3. /\ login \in [UnixUsers -> BOOLEAN \cup {None}] /\ None \notin BOOLEAN
        /\ reach \subseteq UnixUsers /\ Main \in UnixUsers
    BY DEF UsersInv, Unix!TypeOK, Unix!Assumption
  <1>4. h = Unix!Command(r)
    OBVIOUS
  <1> HIDE DEF h
  <1>5. /\ login' \in [UnixUsers -> BOOLEAN \cup {None}] /\ login'[h.user] = None
        /\ \A u \in UnixUsers \ {h.user} : login'[u] = login[u]
    BY <1>1, <1>2, <1>3
  <1>6. h.user \notin userOverlaps => active[h.user] = None
    BY <1>2, HeadOfUsers
  <1>7. ASSUME NEW u \in UnixUsers \ userOverlaps PROVE Reached(u)'
    <2>1. Reached(u)
      BY DEF UsersInv, Agrees
    <2>2. login'[Main] = TRUE => login[Main] = TRUE
      BY <1>3, <1>5
    <2>3. u \in reach' <=> u \in reach /\ u # h.user
      BY <1>1
    <2>4. QED BY <1>5, <2>1, <2>2, <2>3 DEF Reached
  <1>8. QED
    BY <1>1, <1>3, <1>4, <1>5, <1>6, <1>7, GoesOnStep

\* A script that exits early leaves users behind as they are, who are skipped.
LEMMA ExitsStep ==
  ASSUME Unix!Assumption, UsersInv, NEW r \in Requests, NEW do, Unix!Executes(r, do),
         NEW undone \in SUBSET Unix!Left(r), Unix!Exits(r, undone),
         \/ do = "save" /\ undone = Unix!Left(r)
         \/ do = "delete" /\ undone = Unix!Left(r) \ {Unix!Command(r).user}
                          /\ login[Unix!Command(r).user] = None
  PROVE  UsersInv'
  <1> DEFINE h == Unix!Command(r)
             left == Unix!Left(r)
  <1>1. /\ UserRan(r, h) /\ h.do = do /\ userScript'[r] = << >> /\ skipped' = skipped \cup undone
        /\ UNCHANGED <<login, reach>> /\ left = {c.user : c \in Commands(userScript[r])}
    BY ExitsEffect
  <1>2. \/ do = "save" /\ undone = left
        \/ do = "delete" /\ undone = left \ {h.user} /\ login[h.user] = None
    OBVIOUS
  <1> HIDE DEF h, left
  <1>3. UNCHANGED <<active, account>>
    BY <1>1 DEF UserRan
  <1>4. None \notin BOOLEAN /\ login \in [UnixUsers -> BOOLEAN \cup {None}]
           /\ reach \subseteq UnixUsers
    BY DEF UsersInv, Unix!TypeOK, Unix!Assumption
  <1>5. ASSUME NEW u \in UnixUsers \ userOverlaps PROVE DoneFor(u)' /\ Reached(u)'
    <2>1. DoneFor(u) /\ Reached(u)
      BY DEF UsersInv, Agrees
    <2>2. Reached(u)'
      BY <1>1, <2>1 DEF Reached
    <2>3. CASE u \notin left
      <3>1. ToDo(u) => ToDo(u)'
        BY <1>1, <2>3 DEF ToDo, UserRan
      <3>2. u \notin skipped' => u \notin skipped
        BY <1>1
      <3>3. QED BY <1>1, <1>3, <2>1, <2>2, <3>1, <3>2 DEF DoneFor
    <2>4. CASE u \in left
      <3>1. PICK c \in Commands(userScript[r]) : c.user = u
        BY <1>1, <2>4
      <3>2. (c.do = "delete" <=> active[u] = None) /\ (c.do = "delete" => h.user = u)
        BY <1>1, <3>1, OthersOfScript
      <3>3. c.do = "delete" => h.user = u
        BY <3>2
      <3>4. h.user = u => (h.do = "delete" <=> active[u] = None)
        BY <1>1, HeadOfUsers
      <3>5. CASE do = "save"
        <4>1. active[u] # None /\ u \in skipped'
          BY <1>1, <1>2, <2>4, <3>2, <3>3, <3>4, <3>5
        <4>2. QED BY <1>3, <2>2, <4>1 DEF DoneFor
      <3>6. CASE do = "delete"
        <4>1. h \in Commands(userScript[r])
          BY <1>1 DEF UserRan
        <4>2. h.user = u
          BY <1>1, <3>1, <3>6, <4>1 DEF UsersInv, ScriptOfUsers
        <4>3. active[u] = None /\ login'[u] = None
          BY <1>1, <1>2, <3>4, <3>6, <4>2
        <4>4. QED BY <1>3, <1>4, <2>2, <4>3 DEF DoneFor
      <3>7. QED BY <1>2, <3>5, <3>6
    <2>5. QED BY <2>3, <2>4
  <1>6. QED
    BY <1>1, <1>4, <1>5, UserRanStep

\* A request ends once its script is empty.
LEMMA UsersEndsStep ==
  ASSUME UsersInv, NEW r \in Requests, Unix!Ends(r)
  PROVE  UsersInv'
  <1>1. /\ userPhase[r] = "executes" /\ userScript[r] = << >>
        /\ userPhase' = [userPhase EXCEPT ![r] = "none"]
        /\ writes' = [writes EXCEPT ![r] = None]
        /\ UNCHANGED <<active, account, homes, login, reach, userScript, userOverlaps, skipped>>
    BY DEF Unix!Ends, Unix!db, Unix!server
  <1>2. /\ userPhase \in [Requests -> {"none", "open", "executes"}] /\ DOMAIN writes = Requests
    BY DEF UsersInv, Unix!TypeOK, OneTransaction
  <1>3. /\ userPhase' \in [Requests -> {"none", "open", "executes"}] /\ DOMAIN writes' = Requests
        /\ userPhase'[r] = "none" /\ Commands(userScript[r]) = {}
        /\ \A q \in Requests \ {r} : userPhase'[q] = userPhase[q] /\ writes'[q] = writes[q]
    BY <1>1, <1>2 DEF Commands
  <1>4. Unix!TypeOK'
    BY <1>1, <1>3 DEF UsersInv, Unix!TypeOK, Unix!Commands
  <1>5. ASSUME NEW q \in Requests PROVE ScriptOfUsers(q)'
    <2>1. ScriptOfUsers(q)
      BY DEF UsersInv
    <2>2. CASE q = r
      BY <1>1, <1>3, <2>2 DEF ScriptOfUsers
    <2>3. CASE q # r
      BY <1>1, <1>3, <2>1, <2>3 DEF ScriptOfUsers
    <2>4. QED BY <2>2, <2>3
  <1>6. OneTransaction'
    <2>1. \A q \in Requests : userPhase'[q] = "open" => q # r /\ userPhase[q] = "open"
      BY <1>3
    <2>2. \A q \in Requests : userPhase'[q] = "open" => TransactionOf(q)'
      BY <1>1, <1>3, <2>1 DEF UsersInv, OneTransaction, TransactionOf, Unix!Exists
    <2>3. QED BY <1>1, <1>3, <2>1, <2>2 DEF UsersInv, OneTransaction
  <1>7. ASSUME NEW u \in UnixUsers \ userOverlaps PROVE Agrees(u)'
    <2>1. Agrees(u)
      BY DEF UsersInv
    <2>2. \A q \in Requests : WorksOn(q, u)' => WorksOn(q, u)
      BY <1>3 DEF WorksOn, Unix!Concerns
    <2>3. \A q \in Requests : RowsOf(q)' = RowsOf(q) /\ EnabledOf(q)' = EnabledOf(q)
      BY <1>1, <1>3 DEF RowsOf, EnabledOf
    <2>4. OrderedAs(u)' /\ OneWorksOn(u)'
      BY <1>1, <2>1, <2>2, <2>3 DEF Agrees, OrderedAs, AsRows, OneWorksOn
    <2>5. DoneFor(u)' /\ Reached(u)'
      BY <1>1, <2>1 DEF Agrees, DoneFor, ToDo, Reached
    <2>6. QED BY <2>4, <2>5 DEF Agrees
  <1>8. QED
    BY <1>1, <1>4, <1>5, <1>6, <1>7 DEF UsersInv

\* Every step keeps the invariant.
LEMMA UsersInvariant ==
  ASSUME Unix!Assumption
  PROVE  Unix!Spec => []UsersInv
  <1>1. Unix!Init => UsersInv
    <2> SUFFICES ASSUME Unix!Init PROVE UsersInv
      OBVIOUS
    <2>1. Main \in UnixUsers /\ None \notin BOOLEAN
      BY DEF Unix!Assumption
    <2>2. PICK b \in BOOLEAN : active = [u \in UnixUsers |-> IF u = Main THEN b ELSE None]
      BY DEF Unix!Init
    <2>3. active[Main] = b /\ \A u \in UnixUsers : u # Main => active[u] = None
      BY <2>1, <2>2
    <2>4. /\ login[Main] = TRUE <=> b = TRUE
          /\ \A u \in UnixUsers : u # Main => login[u] = None
      BY <2>1, <2>3 DEF Unix!Init
    <2>5. active \in [UnixUsers -> BOOLEAN \cup {None}]
             /\ login \in [UnixUsers -> BOOLEAN \cup {None}]
      BY <2>2 DEF Unix!Init
    <2>6. /\ account = TRUE /\ homes = Away /\ reach = {} /\ userOverlaps = {} /\ skipped = {}
          /\ userPhase = [r \in Requests |-> "none"] /\ writes = [r \in Requests |-> None]
          /\ userScript = [r \in Requests |-> << >>]
      BY DEF Unix!Init
    <2>7. \A r \in Requests : userPhase[r] = "none" /\ userScript[r] = << >>
                              /\ Commands(userScript[r]) = {}
      BY <2>6 DEF Commands
    <2>8. Unix!TypeOK
      BY <2>5, <2>6 DEF Unix!TypeOK
    <2>9. OneTransaction /\ \A r \in Requests : ScriptOfUsers(r)
      BY <2>1, <2>3, <2>6, <2>7 DEF OneTransaction, ScriptOfUsers
    <2>10. ASSUME NEW u \in UnixUsers PROVE Agrees(u)
      <3>1. OneWorksOn(u) /\ OrderedAs(u)
        BY <2>7 DEF OneWorksOn, WorksOn, OrderedAs
      <3>2. DoneFor(u)
        BY <2>1, <2>3, <2>4, <2>6 DEF DoneFor
      <3>3. Reached(u)
        BY <2>4, <2>6 DEF Reached
      <3>4. QED BY <3>1, <3>2, <3>3 DEF Agrees
    <2>11. QED BY <2>8, <2>9, <2>10 DEF UsersInv
  <1>2. UsersInv /\ [Unix!Next]_(Unix!vars) => UsersInv'
    <2> SUFFICES ASSUME UsersInv, [Unix!Next]_(Unix!vars) PROVE UsersInv'
      OBVIOUS
    <2>1. CASE UNCHANGED Unix!vars
      <3>1. UNCHANGED <<active, account, homes, login, reach, userPhase, writes, userScript,
                        userOverlaps, skipped>>
        BY <2>1 DEF Unix!vars
      <3>2. Unix!TypeOK' /\ OneTransaction' /\ \A r \in Requests : ScriptOfUsers(r)'
        BY <3>1 DEF UsersInv, Unix!TypeOK, OneTransaction, TransactionOf, ScriptOfUsers,
           Unix!Exists, Unix!Commands
      <3>3. \A u \in UnixUsers \ userOverlaps : Agrees(u)'
        BY <3>1 DEF UsersInv, Agrees, OneWorksOn, WorksOn, OrderedAs, AsRows, RowsOf, EnabledOf,
           DoneFor, ToDo, Reached
      <3>4. QED BY <3>1, <3>2, <3>3 DEF UsersInv
    <2>2. ASSUME NEW r \in Requests,
                 \/ \E u \in UnixUsers : Unix!PutUser(r, u) \/ Unix!RemoveUser(r, u)
                 \/ Unix!SwitchAccount(r)
          PROVE  UsersInv'
      BY <2>2, UsersRequestStep
    <2>3. ASSUME NEW r \in Requests, Unix!Commit(r) PROVE UsersInv'
      BY <2>3, UsersCommitStep
    <2>4. ASSUME NEW r \in Requests, Unix!DisableLogin(r) PROVE UsersInv'
      BY <2>4, DisableLoginStep
    <2>5. ASSUME NEW r \in Requests, Unix!EnableLogin(r) PROVE UsersInv'
      BY <2>5, EnableLoginStep
    <2>6. ASSUME NEW r \in Requests, Unix!Delete(r) PROVE UsersInv'
      BY <2>6, DeleteStep
    <2>7. ASSUME NEW r \in Requests,
                 Unix!HomeIsMissing(r) \/ Unix!GroupIsMissing(r) \/ Unix!NothingToDelete(r)
          PROVE  UsersInv'
      <3>1. CASE Unix!HomeIsMissing(r) \/ Unix!GroupIsMissing(r)
        <4>1. Unix!Executes(r, "save") /\ Unix!Exits(r, Unix!Left(r))
          BY <3>1 DEF Unix!HomeIsMissing, Unix!GroupIsMissing
        <4>2. QED BY <4>1, ExitsStep
      <3>2. CASE Unix!NothingToDelete(r)
        <4>1. /\ Unix!Executes(r, "delete") /\ login[Unix!Command(r).user] = None
              /\ Unix!Exits(r, Unix!Left(r) \ {Unix!Command(r).user})
          BY <3>2 DEF Unix!NothingToDelete
        <4>2. QED BY <4>1, ExitsStep
      <3>3. QED BY <2>7, <3>1, <3>2
    <2>8. ASSUME NEW r \in Requests, Unix!Ends(r) PROVE UsersInv'
      BY <2>8, UsersEndsStep
    <2>9. ASSUME NEW u \in UnixUsers, Unix!MoveHome(u) PROVE UsersInv'
      <3>1. /\ u \in Away /\ homes' = (homes \ {u}) \cup ({u} \ homes)
            /\ UNCHANGED <<active, account, login, reach, userPhase, writes, userScript,
                           userOverlaps, skipped>>
        BY <2>9 DEF Unix!MoveHome, Unix!db, Unix!server
      <3>2. Unix!TypeOK' /\ OneTransaction' /\ \A r \in Requests : ScriptOfUsers(r)'
        BY <3>1 DEF UsersInv, Unix!TypeOK, OneTransaction, TransactionOf, ScriptOfUsers,
           Unix!Exists, Unix!Commands
      <3>3. \A x \in UnixUsers \ userOverlaps : Agrees(x)'
        BY <3>1 DEF UsersInv, Agrees, OneWorksOn, WorksOn, OrderedAs, AsRows, RowsOf, EnabledOf,
           DoneFor, ToDo, Reached
      <3>4. QED BY <3>1, <3>2, <3>3 DEF UsersInv
    <2>10. QED
      BY <2>1, <2>2, <2>3, <2>4, <2>5, <2>6, <2>7, <2>8, <2>9 DEF Unix!Next
  <1>3. QED
    BY <1>1, <1>2, PTL DEF Unix!Spec

\* Once nothing is under way who may log in is who is active, and the main user is in the
\* groups of all, but for users two requests were at work on at once and those whose
\* command was not executed.
THEOREM LoginsAgreeWithRows ==
  ASSUME Unix!Assumption
  PROVE  Unix!Spec => []UsersAgree
  <1>1. UsersInv => Unix!LoginsAgree /\ Unix!MainReachesAll
    <2> SUFFICES ASSUME UsersInv, Unix!Quiet
                 PROVE  \A u \in UnixUsers \ (userOverlaps \cup skipped) :
                          /\ login[u] = TRUE <=> active[u] = TRUE /\ account
                          /\ active[u] = None => login[u] = None
                          /\ u # Main /\ login[Main] = TRUE => (u \in reach <=> login[u] # None)
      BY DEF Unix!LoginsAgree, Unix!MainReachesAll
    <2>1. \A u : ~ ToDo(u)
      BY DEF Unix!Quiet, UsersInv, ScriptOfUsers, ToDo, Commands
    <2>2. account \in BOOLEAN
      BY DEF UsersInv, Unix!TypeOK
    <2>3. QED BY <2>1, <2>2 DEF UsersInv, Agrees, DoneFor, Reached
  <1>2. QED
    BY <1>1, UsersInvariant, PTL DEF UsersAgree

-----------------------------------------------------------------------------
(* The reloads of Apache *)

\* A script has the lock from when it takes the file until it gives it away.
HoldsLock(s) == pc[s] \in {"took", "last", "reloaded", "shared", "written", "marked"}
OneHolds ==
  /\ \A s, t \in Scripts : HoldsLock(s) /\ HoldsLock(t) => s = t
  /\ \A s \in Scripts : HoldsLock(s) => locked # None
  /\ locked # None => \E s \in Scripts : HoldsLock(s)

\* The lines a script that has the lock is going to leave to others.
KeptLines(s) ==
  CASE pc[s] \in {"took", "written", "marked"} -> locked
    [] pc[s] = "shared" -> others[s]
    [] OTHER -> {}
LineThere(l) == (file # None /\ l \in file) \/ \E s \in Scripts : HoldsLock(s) /\ l \in KeptLines(s)

\* Who began and is not yet counted has a line, and nobody else has.
HasItsLine(s) == pc[s] \in {"prepared", "saved"} \/ pc[s] = "took"
LinesTrue == \A s \in Scripts : LineThere(Web!Line(s, FALSE)) <=> HasItsLine(s)
InLock ==
  \A s \in Scripts : pc[s] = "took" =>
    Web!Line(s, FALSE) \in locked /\ (file # None => Web!Line(s, FALSE) \notin file)

\* There is no file, nor lines to be left in one, without somebody at work.
IsAttended(lines) == \E l \in lines : ~ l.reload
FilesAttended ==
  /\ file # None => IsAttended(file)
  /\ \A s \in Scripts : pc[s] \in {"took", "shared", "written", "marked"} => IsAttended(KeptLines(s))

\* What Apache did not read is going to make somebody reload it.
ToReload ==
  \/ \E s \in apache : pc[s] \in {"saved", "took", "last", "shared", "written"}
  \/ \E l \in Web!Lines : l.reload /\ LineThere(l)
  \/ \E s \in Scripts : pc[s] = "last" /\ \E l \in others[s] : l.reload
NoneIsStuck == \A s \in Scripts : pc[s] \notin {"deadlocked", "failed", "dead"}

WebClean ==
  /\ OneHolds /\ LinesTrue /\ InLock /\ FilesAttended /\ NoneIsStuck
  /\ loaded # disk => ToReload

WebInv == Web!TypeOK /\ (accidents = {} => WebClean)

\* The types of files, and of the scripts.
LEMMA WebTypes ==
  ASSUME Web!Assumption, Web!TypeOK, [Web!Next]_(Web!vars)
  PROVE  Web!TypeOK'
  <1>1. /\ \A f : f \in {None} \cup SUBSET Web!Lines => \A l \in Web!Lines :
             Web!Echo(f, l) \in {None} \cup SUBSET Web!Lines
        /\ \A s \in Scripts, b \in BOOLEAN : Web!Line(s, b) \in Web!Lines
    BY DEF Web!Echo, Web!Line, Web!Lines
  <1>2. CASE UNCHANGED Web!vars
    BY <1>2 DEF Web!TypeOK, Web!vars, Web!files, Web!script
  <1>3. ASSUME NEW s \in Scripts, Web!Prepare(s) PROVE Web!TypeOK'
    <2>1. file' \in {None} \cup SUBSET Web!Lines
      BY <1>1, <1>3 DEF Web!Prepare, Web!TypeOK
    <2>2. QED BY <1>3, <2>1 DEF Web!Prepare, Web!Goes, Web!TypeOK, Web!script
  <1>4. ASSUME NEW s \in Scripts, NEW content \in Contents \cup {None}, Web!Writes(s, content),
               apache' \subseteq apache \cup {s},
               accidents' \in SUBSET {"overwritten", "twin", "mark", "slow", "options", "death"}
        PROVE  Web!TypeOK'
    <2>1. BackendOf[s] \in Web!Backends
      BY DEF Web!Assumption
    <2>2. disk' \in [Web!Backends -> Contents \cup {None}]
      BY <1>4, <2>1 DEF Web!Writes, Web!TypeOK
    <2>3. QED BY <1>4, <2>2 DEF Web!Writes, Web!Goes, Web!TypeOK, Web!files
  <1>5. ASSUME NEW s \in Scripts,
               Web!SaveSite(s) \/ Web!DeleteSite(s) \/ Web!SaveFirewalled(s) \/ Web!SaveOptions(s)
        PROVE  Web!TypeOK'
    <2>1. PICK content \in Contents \cup {None} :
            /\ Web!Writes(s, content) /\ apache' \subseteq apache \cup {s}
            /\ accidents' = accidents \/ accidents' = accidents \cup {"options"}
      BY <1>5 DEF Web!SaveSite, Web!DeleteSite, Web!SaveFirewalled, Web!SaveOptions
    <2>2. accidents' \in SUBSET {"overwritten", "twin", "mark", "slow", "options", "death"}
      BY <2>1 DEF Web!TypeOK
    <2>3. QED BY <1>4, <2>1, <2>2
  <1>6. ASSUME NEW s \in Scripts, Web!Take(s) PROVE Web!TypeOK'
    BY <1>6 DEF Web!Take, Web!Goes, Web!TypeOK, Web!script, Web!Overwrites
  <1>7. ASSUME NEW s \in Scripts, Web!Wait(s) PROVE Web!TypeOK'
    <2>1. tries' \in [Scripts -> 0 .. MaxTries]
      BY <1>7 DEF Web!Wait, Web!TypeOK, Web!Assumption
    <2>2. QED BY <1>7, <2>1 DEF Web!Wait, Web!TypeOK, Web!files
  <1>8. ASSUME NEW s \in Scripts, Web!GiveUp(s) PROVE Web!TypeOK'
    BY <1>8 DEF Web!GiveUp, Web!Fails, Web!Goes, Web!TypeOK, Web!script, Web!files
  <1>9. ASSUME NEW s \in Scripts, Web!Look(s) PROVE Web!TypeOK'
    <2>1. Web!NotOwn(s) \subseteq Web!Lines
      BY DEF Web!NotOwn, Web!TypeOK
    <2>2. others' \in [Scripts -> SUBSET Web!Lines]
      BY <1>9, <2>1 DEF Web!Look, Web!TypeOK
    <2>3. accidents' \subseteq {"overwritten", "twin", "mark", "slow", "options", "death"}
      BY <1>9 DEF Web!Look, Web!TypeOK
    <2>4. QED BY <1>9, <2>2, <2>3 DEF Web!Look, Web!Goes, Web!TypeOK, Web!files
  <1>10. ASSUME NEW s \in Scripts, Web!Reload(s) \/ Web!Unlock(s) \/ Web!WriteBack(s)
         PROVE  Web!TypeOK'
    BY <1>10 DEF Web!Reload, Web!Unlock, Web!WriteBack, Web!Goes, Web!TypeOK, Web!files, Web!script
  <1>11. ASSUME NEW s \in Scripts, Web!Mark(s) PROVE Web!TypeOK'
    <2>1. locked' \in {None} \cup SUBSET Web!Lines
      BY <1>1, <1>11 DEF Web!Mark, Web!TypeOK
    <2>2. QED BY <1>11, <2>1 DEF Web!Mark, Web!Goes, Web!TypeOK, Web!script
  <1>12. ASSUME NEW s \in Scripts, Web!PutBack(s) PROVE Web!TypeOK'
    BY <1>12 DEF Web!PutBack, Web!Fails, Web!Goes, Web!TypeOK, Web!script, Web!files, Web!Overwrites
  <1>13. ASSUME NEW s \in Scripts, Web!Dies(s) PROVE Web!TypeOK'
    BY <1>13 DEF Web!Dies, Web!Fails, Web!Goes, Web!TypeOK, Web!script, Web!files
  <1>14. QED
    BY <1>2, <1>3, <1>5, <1>6, <1>7, <1>8, <1>9, <1>10, <1>11, <1>12, <1>13
    DEF Web!Next, Web!Commit

\* Who moves is at its place, and the others are where they were.
MovesTo(s, place) == pc'[s] = place /\ \A t \in Scripts \ {s} : pc'[t] = pc[t]

\* Who goes to a place is there, and nobody else moved.
LEMMA MovesOn ==
  ASSUME Web!TypeOK, NEW s \in Scripts, NEW place, Web!Goes(s, place)
  PROVE  MovesTo(s, place)
  BY DEF Web!TypeOK, Web!Goes, MovesTo

\* The lines there are, when somebody has the lock and when nobody has.
LEMMA LinesOfHolder ==
  ASSUME OneHolds, NEW s \in Scripts, HoldsLock(s), NEW l
  PROVE  LineThere(l) <=> (file # None /\ l \in file) \/ l \in KeptLines(s)
  BY DEF OneHolds, LineThere

\* While nobody has the lock the lines there are those of the file.
LEMMA LinesOfFile ==
  ASSUME OneHolds, locked = None, NEW l
  PROVE  LineThere(l) <=> file # None /\ l \in file
  BY DEF OneHolds, LineThere

\* prepare: a script adds its line to the file.
LEMMA PrepareStep ==
  ASSUME Web!Assumption, Web!TypeOK, WebClean, NEW s \in Scripts, Web!Prepare(s)
  PROVE  WebClean'
  <1> DEFINE x == Web!Line(s, FALSE)
  <1>1. /\ pc[s] = "new" /\ MovesTo(s, "prepared") /\ file' = Web!Echo(file, x)
        /\ UNCHANGED <<locked, apache, tries, others, disk, loaded>>
    BY MovesOn DEF Web!Prepare, Web!script
  <1>2. /\ file' # None /\ x \in file' /\ (file # None => file \subseteq file')
        /\ \A l : l \in file' <=> l = x \/ (file # None /\ l \in file)
        /\ ~ x.reload
    <2>1. file # None => file \subseteq Web!Lines
      BY DEF Web!TypeOK
    <2>2. x \in Web!Lines /\ ~ x.reload
      BY DEF Web!Line, Web!Lines
    <2> HIDE DEF x
    <2>3. file' \in SUBSET Web!Lines
      BY <1>1, <2>1, <2>2 DEF Web!Echo
    <2>4. file' # None
      BY <2>3 DEF Web!Assumption
    <2>5. QED BY <1>1, <2>2, <2>4 DEF Web!Echo
  <1>3. \A t \in Scripts : x = Web!Line(t, FALSE) => t = s
    BY DEF Web!Line
  <1> HIDE DEF x
  <1>4. \A t \in Scripts : (HoldsLock(t)' <=> HoldsLock(t))
           /\ (HoldsLock(t) => KeptLines(t)' = KeptLines(t))
    BY <1>1 DEF HoldsLock, KeptLines, MovesTo
  <1>5. \A l : LineThere(l)' <=> l = x \/ LineThere(l)
    BY <1>2, <1>4 DEF LineThere
  <1>6. OneHolds'
    BY <1>1, <1>4 DEF WebClean, OneHolds
  <1>7. LinesTrue'
    <2> SUFFICES ASSUME NEW t \in Scripts PROVE LineThere(Web!Line(t, FALSE))' <=> HasItsLine(t)'
      BY DEF LinesTrue
    <2>1. CASE t = s
      BY <1>1, <1>5, <2>1 DEF HasItsLine, MovesTo, x
    <2>2. CASE t # s
      BY <1>1, <1>3, <1>5, <2>2 DEF HasItsLine, MovesTo, WebClean, LinesTrue
    <2>3. QED BY <2>1, <2>2
  <1>8. InLock' /\ NoneIsStuck'
    <2>1. NoneIsStuck'
      BY <1>1 DEF WebClean, NoneIsStuck, MovesTo
    <2>2. \A t \in Scripts : pc'[t] = "took" => pc[t] = "took" /\ t # s
      BY <1>1 DEF MovesTo
    <2>3. \A t \in Scripts : t # s => Web!Line(t, FALSE) # x
      BY <1>3
    <2>4. ASSUME NEW t \in Scripts, pc'[t] = "took"
          PROVE  Web!Line(t, FALSE) \in locked /\ Web!Line(t, FALSE) \notin file'
      <3>1. /\ Web!Line(t, FALSE) \in locked /\ Web!Line(t, FALSE) # x
            /\ file # None => Web!Line(t, FALSE) \notin file
        BY <2>2, <2>3, <2>4 DEF WebClean, InLock
      <3>2. QED BY <1>2, <3>1
    <2>5. locked' = locked
      BY <1>1
    <2>6. QED BY <2>1, <2>4, <2>5 DEF InLock
  <1>9. FilesAttended'
    <2>1. \A t \in Scripts : pc'[t] \in {"took", "shared", "written", "marked"} =>
            pc[t] \in {"took", "shared", "written", "marked"} /\ HoldsLock(t)
      BY <1>1 DEF MovesTo, HoldsLock
    <2>2. QED BY <1>2, <1>4, <2>1 DEF WebClean, FilesAttended, IsAttended
  <1>10. loaded' # disk' => ToReload'
    <2>1. \A t \in Scripts : pc[t] \in {"saved", "took", "last", "shared", "written"} =>
             pc'[t] = pc[t]
      BY <1>1 DEF MovesTo
    <2>2. apache \subseteq Scripts
      BY DEF Web!TypeOK
    <2>3. ToReload => ToReload'
      BY <1>1, <1>5, <2>1, <2>2 DEF ToReload
    <2>4. QED BY <1>1, <2>3 DEF WebClean
  <1>11. QED BY <1>6, <1>7, <1>8, <1>9, <1>10 DEF WebClean

\* What is written is to be read, and who wrote it says so.
LEMMA WritesStep ==
  ASSUME Web!Assumption, Web!TypeOK, WebClean, accidents' = {}, NEW s \in Scripts,
         Web!SaveSite(s) \/ Web!DeleteSite(s) \/ Web!SaveFirewalled(s) \/ Web!SaveOptions(s)
  PROVE  WebClean'
  <1>1. PICK content \in Contents \cup {None} :
          /\ Web!Writes(s, content)
          /\ apache' = apache \cup {t \in {s} : Web!Differs(s, content)}
    <2>1. CASE Web!SaveSite(s) \/ Web!DeleteSite(s) \/ Web!SaveFirewalled(s)
      BY <2>1 DEF Web!SaveSite, Web!DeleteSite, Web!SaveFirewalled
    <2>2. CASE Web!SaveOptions(s)
      <3>1. PICK content \in Contents \cup {None} :
              /\ Web!Writes(s, content)
              /\ apache' = apache \cup {t \in {s} : content # None /\ Web!Differs(s, content)}
              /\ accidents' = IF content = None /\ Web!Differs(s, None)
                              THEN accidents \cup {"options"} ELSE accidents
        BY <2>2 DEF Web!SaveOptions
      <3>2. ~ (content = None /\ Web!Differs(s, None))
        BY <3>1
      <3>3. apache' = apache \cup {t \in {s} : Web!Differs(s, content)}
        BY <3>1, <3>2
      <3>4. QED BY <3>1, <3>3
    <2>3. QED BY <2>1, <2>2
  <1>2. /\ pc[s] = "prepared" /\ MovesTo(s, "saved")
        /\ disk' = [disk EXCEPT ![BackendOf[s]] = content]
        /\ UNCHANGED <<file, locked, tries, others, loaded>>
    BY <1>1, MovesOn DEF Web!Writes, Web!files
  <1>3. disk' = disk \/ s \in apache'
    <2>1. disk[BackendOf[s]] = content => disk' = disk
      BY <1>2 DEF Web!TypeOK
    <2>2. QED BY <1>1, <2>1 DEF Web!Differs
  <1>4. \A t \in Scripts : (HoldsLock(t)' <=> HoldsLock(t))
           /\ (HoldsLock(t) => KeptLines(t)' = KeptLines(t))
    BY <1>2 DEF HoldsLock, KeptLines, MovesTo
  <1>5. \A l : LineThere(l)' <=> LineThere(l)
    BY <1>2, <1>4 DEF LineThere
  <1>6. OneHolds'
    BY <1>2, <1>4 DEF WebClean, OneHolds
  <1>7. LinesTrue' /\ InLock' /\ NoneIsStuck'
    BY <1>2, <1>5 DEF WebClean, LinesTrue, InLock, NoneIsStuck, HasItsLine, MovesTo
  <1>8. FilesAttended'
    <2>1. \A t \in Scripts : pc'[t] \in {"took", "shared", "written", "marked"} =>
            pc[t] \in {"took", "shared", "written", "marked"} /\ HoldsLock(t)
      BY <1>2 DEF MovesTo, HoldsLock
    <2>2. QED BY <1>2, <1>4, <2>1 DEF WebClean, FilesAttended, IsAttended
  <1>9. loaded' # disk' => ToReload'
    <2>1. \A t \in Scripts : pc[t] \in {"saved", "took", "last", "shared", "written"} =>
             pc'[t] = pc[t]
      BY <1>2 DEF MovesTo
    <2>2. apache \subseteq Scripts /\ apache \subseteq apache'
      BY <1>1 DEF Web!TypeOK
    <2>3. ToReload => ToReload'
      BY <1>2, <1>5, <2>1, <2>2 DEF ToReload
    <2>4. s \in apache' => ToReload'
      BY <1>2 DEF ToReload, MovesTo
    <2>5. QED BY <1>2, <1>3, <2>3, <2>4 DEF WebClean
  <1>10. QED BY <1>6, <1>7, <1>8, <1>9 DEF WebClean

\* Nobody has the lock while another takes it, or its file is overwritten.
LEMMA TakeStep ==
  ASSUME Web!Assumption, Web!TypeOK, WebClean, accidents' = {}, NEW s \in Scripts, Web!Take(s)
  PROVE  WebClean'
  <1>1. /\ pc[s] = "saved" /\ MovesTo(s, "took") /\ file # None /\ locked' = file /\ file' = None
        /\ UNCHANGED <<apache, tries, others, disk, loaded>> /\ locked = None
    BY MovesOn DEF Web!Take, Web!script, Web!Overwrites
  <1>2. \A t \in Scripts : ~ HoldsLock(t)
    BY <1>1 DEF WebClean, OneHolds
  <1>3. \A t \in Scripts : (HoldsLock(t)' <=> t = s) /\ KeptLines(s)' = file
    BY <1>1, <1>2 DEF HoldsLock, KeptLines, MovesTo
  <1>4. \A l : LineThere(l)' <=> LineThere(l)
    BY <1>1, <1>2, <1>3 DEF LineThere
  <1>5. OneHolds'
    BY <1>1, <1>3 DEF OneHolds
  <1>6. LinesTrue' /\ NoneIsStuck'
    BY <1>1, <1>4 DEF WebClean, LinesTrue, NoneIsStuck, HasItsLine, MovesTo
  <1>7. InLock'
    <2>1. LineThere(Web!Line(s, FALSE))
      BY <1>1 DEF WebClean, LinesTrue, HasItsLine
    <2>2. Web!Line(s, FALSE) \in file
      BY <1>2, <2>1 DEF LineThere
    <2>3. \A t \in Scripts : pc'[t] = "took" => t = s
      BY <1>1, <1>2 DEF MovesTo, HoldsLock
    <2>4. QED BY <1>1, <2>2, <2>3 DEF InLock
  <1>8. FilesAttended'
    <2>1. \A t \in Scripts : pc'[t] \in {"took", "shared", "written", "marked"} => t = s
      BY <1>3 DEF HoldsLock
    <2>2. QED BY <1>1, <1>3, <2>1 DEF WebClean, FilesAttended
  <1>9. loaded' # disk' => ToReload'
    <2>1. \A t \in Scripts : pc[t] \in {"saved", "took", "last", "shared", "written"} =>
            pc'[t] \in {"saved", "took", "last", "shared", "written"}
      BY <1>1 DEF MovesTo
    <2>2. apache \subseteq Scripts /\ \A t \in Scripts : pc[t] # "last"
      BY <1>2 DEF Web!TypeOK, HoldsLock
    <2>3. ToReload => ToReload'
      BY <1>1, <1>4, <2>1, <2>2 DEF ToReload
    <2>4. QED BY <1>1, <2>3 DEF WebClean
  <1>10. QED BY <1>5, <1>6, <1>7, <1>8, <1>9 DEF WebClean

\* Nobody waits for a file in vain: its line is in one, or somebody has it.
LEMMA GiveUpFails ==
  ASSUME Web!Assumption, Web!TypeOK, WebClean, NEW s \in Scripts, Web!GiveUp(s)
  PROVE  accidents' # {}
  <1>1. pc[s] = "saved" /\ file = None
    BY DEF Web!GiveUp
  <1>2. LineThere(Web!Line(s, FALSE))
    BY <1>1 DEF WebClean, LinesTrue, HasItsLine
  <1>3. locked # None
    BY <1>1, <1>2 DEF WebClean, OneHolds, LineThere
  <1>4. QED BY <1>3 DEF Web!GiveUp, Web!Fails

\* Who looks finds no line of a twin, and leaves none of its own but itself.
LEMMA LookStep ==
  ASSUME Web!Assumption, Web!TypeOK, WebClean, accidents' = {}, NEW s \in Scripts, Web!Look(s)
  PROVE  WebClean'
  <1> DEFINE rest == Web!NotOwn(s)
             place == IF \A l \in rest : l.reload THEN "last" ELSE "shared"
             x == Web!Line(s, FALSE)
  <1>1. /\ pc[s] = "took" /\ MovesTo(s, place)
           /\ UNCHANGED <<file, locked, apache, tries, disk, loaded>>
        /\ others'[s] = rest /\ \A t \in Scripts \ {s} : others'[t] = others[t]
    <2>1. Web!Goes(s, place)
      BY DEF Web!Look
    <2> HIDE DEF place
    <2>2. MovesTo(s, place)
      BY <2>1, MovesOn
    <2>3. QED BY <2>2 DEF Web!Look, Web!files, Web!TypeOK
  <1>2. HoldsLock(s) /\ (\A t \in Scripts : HoldsLock(t) => t = s) /\ locked # None
           /\ KeptLines(s) = locked
    BY <1>1 DEF WebClean, OneHolds, HoldsLock, KeptLines
  <1>3. locked \subseteq Web!Lines
    BY <1>2 DEF Web!TypeOK
  <1>4. /\ \A l \in locked : l \in rest \/ (l.reload /\ s \in apache) \/ l = x
        /\ rest \subseteq locked /\ x \notin rest
    <2>1. \A l \in Web!Own(s) : l.reload \/ l.script = s
      BY <1>2 DEF Web!Look
    <2>2. s \in apache \/ \A l \in Web!Own(s) : ~ l.reload
      BY <1>2 DEF Web!Look
    <2>3. \A l \in locked : ~ l.reload /\ l.script = s => l = x
      BY <1>3 DEF Web!Line, Web!Lines
    <2>4. rest = locked \ Web!Own(s)
      BY <1>2 DEF Web!NotOwn
    <2>5. x \in locked => x \in Web!Own(s)
      BY DEF Web!Own, Web!Line
    <2>6. QED BY <2>1, <2>2, <2>3, <2>4, <2>5
  <1>5. place \in {"last", "shared"} /\ (place = "last" <=> \A l \in rest : l.reload)
    OBVIOUS
  <1>6. x.reload = FALSE /\ \A t \in Scripts : Web!Line(t, FALSE).reload = FALSE
                          /\ (Web!Line(t, FALSE) = x => t = s)
    BY DEF Web!Line
  <1> HIDE DEF rest, place, x
  <1>7. \A t \in Scripts : HoldsLock(t)' <=> t = s
    BY <1>1, <1>2, <1>5 DEF HoldsLock, MovesTo
  <1>8. KeptLines(s)' = IF place = "shared" THEN rest ELSE {}
    BY <1>1, <1>5 DEF KeptLines, MovesTo
  <1>9. OneHolds'
    BY <1>1, <1>2, <1>7 DEF OneHolds
  <1>10. \A l : /\ LineThere(l) <=> (file # None /\ l \in file) \/ l \in locked
                /\ LineThere(l)' <=> (file # None /\ l \in file) \/ (place = "shared" /\ l \in rest)
    BY <1>1, <1>2, <1>7, <1>8 DEF LineThere
  <1>11. LinesTrue'
    <2> SUFFICES ASSUME NEW t \in Scripts PROVE LineThere(Web!Line(t, FALSE))' <=> HasItsLine(t)'
      BY DEF LinesTrue
    <2>1. LineThere(Web!Line(t, FALSE)) <=> HasItsLine(t)
      BY DEF WebClean, LinesTrue
    <2>2. CASE t # s
      <3>1. HasItsLine(t)' <=> HasItsLine(t)
        BY <1>1, <2>2 DEF HasItsLine, MovesTo
      <3>2. Web!Line(t, FALSE) \in locked => Web!Line(t, FALSE) \in rest /\ place = "shared"
        BY <1>4, <1>5, <1>6, <2>2
      <3>3. QED BY <1>4, <1>10, <2>1, <3>1, <3>2
    <2>3. CASE t = s
      <3>1. ~ HasItsLine(t)'
        BY <1>1, <1>5, <2>3 DEF HasItsLine, MovesTo
      <3>2. ~ (file # None /\ x \in file)
        BY <1>1 DEF WebClean, InLock, x
      <3>3. QED BY <1>4, <1>10, <2>3, <3>1, <3>2 DEF x
    <2>4. QED BY <2>2, <2>3
  <1>12. InLock' /\ NoneIsStuck'
    <2>1. \A t \in Scripts : pc'[t] # "took"
      BY <1>1, <1>2, <1>5 DEF MovesTo, HoldsLock
    <2>2. QED BY <1>1, <1>5, <2>1 DEF WebClean, InLock, NoneIsStuck, MovesTo
  <1>13. FilesAttended'
    <2>1. \A t \in Scripts : pc'[t] \in {"took", "shared", "written", "marked"} =>
            t = s /\ place = "shared"
      BY <1>1, <1>5, <1>7 DEF HoldsLock, MovesTo
    <2>2. place = "shared" => IsAttended(KeptLines(s)')
      BY <1>5, <1>8 DEF IsAttended
    <2>3. QED BY <1>1, <2>1, <2>2 DEF WebClean, FilesAttended, IsAttended
  <1>14. loaded' # disk' => ToReload'
    <2>1. ASSUME NEW t \in apache, pc[t] \in {"saved", "took", "last", "shared", "written"}
          PROVE  ToReload'
      <3>1. t \in Scripts
        BY DEF Web!TypeOK
      <3>2. pc'[t] \in {"saved", "took", "last", "shared", "written"}
        BY <1>1, <1>5, <2>1, <3>1 DEF MovesTo
      <3>3. QED BY <1>1, <3>2 DEF ToReload
    <2>2. ASSUME NEW l \in Web!Lines, l.reload, LineThere(l) PROVE ToReload'
      <3>1. CASE file # None /\ l \in file
        BY <1>10, <2>2, <3>1 DEF ToReload
      <3>2. CASE l \in locked
        <4>1. l # x
          BY <1>6, <2>2
        <4>2. CASE s \in apache
          BY <1>1, <2>1, <4>2
        <4>3. CASE l \in rest /\ place = "shared"
          BY <1>10, <2>2, <4>3 DEF ToReload
        <4>4. CASE l \in rest /\ place = "last"
          BY <1>1, <2>2, <4>4 DEF ToReload, MovesTo
        <4>5. QED BY <1>4, <1>5, <3>2, <4>1, <4>2, <4>3, <4>4
      <3>3. QED BY <1>10, <2>2, <3>1, <3>2
    <2>3. \A t \in Scripts : pc[t] # "last"
      BY <1>1, <1>2 DEF HoldsLock
    <2>4. ToReload => ToReload'
      BY <2>1, <2>2, <2>3 DEF ToReload
    <2>5. QED BY <1>1, <2>4 DEF WebClean
  <1>15. QED BY <1>9, <1>11, <1>12, <1>13, <1>14 DEF WebClean

\* The last one leaves nothing to others, and reads all there is if anybody asked for it.
LEMMA LastSteps ==
  ASSUME Web!Assumption, Web!TypeOK, WebClean, NEW s \in Scripts,
         Web!Reload(s) \/ Web!Unlock(s)
  PROVE  WebClean'
  <1>1. HoldsLock(s) /\ (\A t \in Scripts : HoldsLock(t) => t = s) /\ locked # None
           /\ KeptLines(s) = {}
    BY DEF WebClean, OneHolds, HoldsLock, KeptLines, Web!Reload, Web!Unlock
  <1>2. PICK place \in {"reloaded", "ended"} :
          /\ MovesTo(s, place) /\ UNCHANGED <<file, apache, tries, others, disk>>
          /\ place = "reloaded" => /\ pc[s] = "last" /\ locked' = locked
                                   /\ loaded' = IF s \in apache \/ \E l \in others[s] : l.reload
                                                THEN disk ELSE loaded
          /\ place = "ended" => pc[s] = "reloaded" /\ locked' = None /\ loaded' = loaded
    BY <1>1, MovesOn DEF Web!Reload, Web!Unlock, Web!script, Web!files
  <1>3. \A t \in Scripts : HoldsLock(t)' <=> t = s /\ place = "reloaded"
    BY <1>1, <1>2 DEF HoldsLock, MovesTo
  <1>4. place = "reloaded" => KeptLines(s)' = {}
    BY <1>2 DEF KeptLines, MovesTo
  <1>5. \A l : LineThere(l)' <=> LineThere(l)
    BY <1>1, <1>2, <1>3, <1>4 DEF LineThere
  <1>6. OneHolds'
    BY <1>1, <1>2, <1>3 DEF OneHolds
  <1>7. \A t \in Scripts : pc[t] \in {"took", "shared", "written", "marked", "last"} => t = s
    BY <1>1 DEF HoldsLock
  <1>8. \A t \in Scripts : pc'[t] \notin {"took", "shared", "written", "marked", "last"}
    BY <1>2, <1>7 DEF MovesTo
  <1>9. LinesTrue' /\ InLock' /\ NoneIsStuck' /\ FilesAttended'
    <2>1. pc[s] \in {"last", "reloaded"}
      BY <1>2
    <2>2. \A t \in Scripts : HasItsLine(t)' <=> HasItsLine(t)
      BY <1>2, <2>1 DEF HasItsLine, MovesTo
    <2>3. LinesTrue' /\ InLock'
      BY <1>5, <1>8, <2>2 DEF WebClean, LinesTrue, InLock
    <2>4. NoneIsStuck' /\ FilesAttended'
      BY <1>2, <1>8 DEF WebClean, NoneIsStuck, FilesAttended, IsAttended, MovesTo
    <2>5. QED BY <2>3, <2>4
  <1>10. loaded' # disk' => ToReload'
    <2> SUFFICES ASSUME loaded' # disk' PROVE ToReload'
      OBVIOUS
    <2>1. ToReload
      BY <1>2 DEF WebClean
    <2>2. apache \subseteq Scripts
      BY DEF Web!TypeOK
    <2>3. s \in apache => pc[s] \notin {"saved", "took", "last", "shared", "written"}
      BY <1>2
    <2>4. ~ \E t \in Scripts : pc[t] = "last" /\ \E l \in others[t] : l.reload
      BY <1>2, <1>7
    <2>5. \A t \in Scripts : t # s => pc'[t] = pc[t]
      BY <1>2 DEF MovesTo
    <2>6. QED BY <1>2, <1>5, <2>1, <2>2, <2>3, <2>4, <2>5 DEF ToReload
  <1>11. QED BY <1>6, <1>9, <1>10 DEF WebClean

\* The lines of others are written back, with a mark.
LEMMA WriteSteps ==
  ASSUME Web!Assumption, Web!TypeOK, WebClean, NEW s \in Scripts,
         Web!WriteBack(s) \/ Web!Mark(s)
  PROVE  WebClean'
  <1>1. HoldsLock(s) /\ (\A t \in Scripts : HoldsLock(t) => t = s) /\ locked # None
    BY DEF WebClean, OneHolds, HoldsLock, Web!WriteBack, Web!Mark
  <1>2. PICK place \in {"written", "marked"} :
          /\ MovesTo(s, place) /\ UNCHANGED <<file, apache, tries, others, disk, loaded>>
          /\ place = "written" => pc[s] = "shared" /\ locked' = others[s]
          /\ place = "marked" =>
               /\ pc[s] = "written"
               /\ locked' = IF s \in apache THEN Web!Echo(locked, Web!Line(s, TRUE)) ELSE locked
    BY MovesOn DEF Web!WriteBack, Web!Mark, Web!script
  <1>3. /\ Web!Line(s, TRUE) \in Web!Lines /\ Web!Line(s, TRUE).reload
        /\ \A t \in Scripts : ~ Web!Line(t, FALSE).reload
    BY DEF Web!Line, Web!Lines
  <1>4. /\ locked' # None /\ KeptLines(s)' = locked' /\ KeptLines(s) \subseteq locked'
        /\ \A l \in locked' : l \in KeptLines(s) \/ (l = Web!Line(s, TRUE) /\ s \in apache)
        /\ place = "marked" /\ s \in apache => Web!Line(s, TRUE) \in locked'
    <2>1. CASE place = "written"
      <3>1. others[s] # None
        BY DEF Web!TypeOK, Web!Assumption
      <3>2. QED BY <1>2, <2>1, <3>1 DEF KeptLines, MovesTo
    <2>2. CASE place = "marked"
      <3>1. Web!Echo(locked, Web!Line(s, TRUE)) = locked \cup {Web!Line(s, TRUE)}
        BY <1>1 DEF Web!Echo
      <3>2. locked \cup {Web!Line(s, TRUE)} # None
        BY <1>1, <1>3 DEF Web!TypeOK, Web!Assumption
      <3>3. KeptLines(s) = locked /\ KeptLines(s)' = locked'
        BY <1>2, <2>2 DEF KeptLines, MovesTo
      <3>4. QED BY <1>1, <1>2, <2>2, <3>1, <3>2, <3>3
    <2>3. QED BY <2>1, <2>2
  <1>5. \A t \in Scripts : HoldsLock(t)' <=> t = s
    BY <1>1, <1>2 DEF HoldsLock, MovesTo
  <1>6. \A l : /\ LineThere(l) <=> (file # None /\ l \in file) \/ l \in KeptLines(s)
               /\ LineThere(l)' <=> (file # None /\ l \in file) \/ l \in locked'
    BY <1>1, <1>2, <1>4, <1>5 DEF LineThere
  <1>7. OneHolds'
    BY <1>4, <1>5 DEF OneHolds
  <1>8. LinesTrue'
    <2> SUFFICES ASSUME NEW t \in Scripts PROVE LineThere(Web!Line(t, FALSE))' <=> HasItsLine(t)'
      BY DEF LinesTrue
    <2>1. LineThere(Web!Line(t, FALSE))' <=> LineThere(Web!Line(t, FALSE))
      BY <1>3, <1>4, <1>6
    <2>2. HasItsLine(t)' <=> HasItsLine(t)
      BY <1>2 DEF HasItsLine, MovesTo
    <2>3. QED BY <2>1, <2>2 DEF WebClean, LinesTrue
  <1>9. InLock' /\ NoneIsStuck'
    <2>1. \A t \in Scripts : pc'[t] # "took"
      BY <1>2, <1>5 DEF MovesTo, HoldsLock
    <2>2. QED BY <1>2, <2>1 DEF WebClean, InLock, NoneIsStuck, MovesTo
  <1>10. FilesAttended'
    <2>1. \A t \in Scripts : pc'[t] \in {"took", "shared", "written", "marked"} => t = s
      BY <1>5 DEF HoldsLock
    <2>2. IsAttended(KeptLines(s))
      BY <1>2 DEF WebClean, FilesAttended
    <2>3. IsAttended(KeptLines(s)')
      BY <1>4, <2>2 DEF IsAttended
    <2>4. QED BY <1>2, <2>1, <2>3 DEF WebClean, FilesAttended, IsAttended
  <1>11. loaded' # disk' => ToReload'
    <2>1. ASSUME NEW t \in apache, pc[t] \in {"saved", "took", "last", "shared", "written"}
          PROVE  ToReload'
      <3>1. t \in Scripts
        BY DEF Web!TypeOK
      <3>2. CASE t # s
        BY <1>2, <2>1, <3>1, <3>2 DEF MovesTo, ToReload
      <3>3. CASE t = s /\ place = "written"
        BY <1>2, <3>3 DEF MovesTo, ToReload
      <3>4. CASE t = s /\ place = "marked"
        BY <1>3, <1>4, <1>6, <3>4 DEF ToReload
      <3>5. QED BY <3>2, <3>3, <3>4
    <2>2. \A l : LineThere(l) => LineThere(l)'
      BY <1>4, <1>6
    <2>3. \A t \in Scripts : pc[t] # "last"
      BY <1>1, <1>2 DEF HoldsLock
    <2>4. ToReload => ToReload'
      BY <2>1, <2>2, <2>3 DEF ToReload
    <2>5. QED BY <1>2, <2>4 DEF WebClean
  <1>12. QED BY <1>7, <1>8, <1>9, <1>10, <1>11 DEF WebClean

\* The file is put back, and there was none meanwhile, or it is overwritten.
LEMMA PutBackStep ==
  ASSUME Web!Assumption, Web!TypeOK, WebClean, accidents' = {}, NEW s \in Scripts, Web!PutBack(s)
  PROVE  WebClean'
  <1>1. /\ pc[s] = "marked" /\ HoldsLock(s) /\ (\A t \in Scripts : HoldsLock(t) => t = s)
        /\ locked # None /\ KeptLines(s) = locked
    BY DEF WebClean, OneHolds, HoldsLock, KeptLines, Web!PutBack
  <1>2. /\ MovesTo(s, "ended") /\ file' = locked /\ locked' = None /\ file = None
        /\ UNCHANGED <<apache, tries, others, disk, loaded>>
    BY <1>1, MovesOn DEF Web!PutBack, Web!Fails, Web!Overwrites, Web!script
  <1>3. \A t \in Scripts : ~ HoldsLock(t)'
    BY <1>1, <1>2 DEF HoldsLock, MovesTo
  <1>4. \A l : LineThere(l)' <=> LineThere(l)
    BY <1>1, <1>2, <1>3 DEF LineThere
  <1>5. OneHolds'
    BY <1>2, <1>3 DEF OneHolds
  <1>6. LinesTrue' /\ NoneIsStuck'
    BY <1>1, <1>2, <1>4 DEF WebClean, LinesTrue, NoneIsStuck, HasItsLine, MovesTo
  <1>7. InLock'
    BY <1>3 DEF InLock, HoldsLock
  <1>8. FilesAttended'
    <2>1. IsAttended(locked)
      BY <1>1 DEF WebClean, FilesAttended
    <2>2. \A t \in Scripts : pc'[t] \notin {"took", "shared", "written", "marked"}
      BY <1>3 DEF HoldsLock
    <2>3. QED BY <1>2, <2>1, <2>2 DEF FilesAttended, IsAttended
  <1>9. loaded' # disk' => ToReload'
    <2>1. apache \subseteq Scripts /\ \A t \in Scripts : t # s => pc'[t] = pc[t]
      BY <1>2 DEF Web!TypeOK, MovesTo
    <2>2. ToReload => ToReload'
      BY <1>1, <1>2, <1>4, <2>1 DEF ToReload
    <2>3. QED BY <1>2, <2>2 DEF WebClean
  <1>10. QED BY <1>5, <1>6, <1>7, <1>8, <1>9 DEF WebClean

\* Every step keeps the invariant.
LEMMA WebInvariant ==
  ASSUME Web!Assumption
  PROVE  Web!Spec => []WebInv
  <1>1. Web!Init => WebInv
    <2> SUFFICES ASSUME Web!Init PROVE WebInv
      OBVIOUS
    <2>1. Web!TypeOK
      <3>1. loaded \in [Web!Backends -> Contents \cup {None}]
        BY DEF Web!Init
      <3>2. tries \in [Scripts -> 0 .. MaxTries] /\ others \in [Scripts -> SUBSET Web!Lines]
        BY DEF Web!Init, Web!Assumption
      <3>3. QED BY <3>1, <3>2 DEF Web!Init, Web!TypeOK
    <2>2. \A s \in Scripts : pc[s] = "new"
      BY DEF Web!Init
    <2>3. \A s \in Scripts : ~ HoldsLock(s) /\ ~ HasItsLine(s)
      BY <2>2 DEF HoldsLock, HasItsLine
    <2>4. file = None /\ locked = None /\ loaded = disk
      BY DEF Web!Init
    <2>5. \A l : ~ LineThere(l)
      BY <2>3, <2>4 DEF LineThere
    <2>6. WebClean
      BY <2>2, <2>3, <2>4, <2>5 DEF WebClean, OneHolds, LinesTrue, InLock, FilesAttended, NoneIsStuck
    <2>7. QED BY <2>1, <2>6 DEF WebInv
  <1>2. WebInv /\ [Web!Next]_(Web!vars) => WebInv'
    <2> SUFFICES ASSUME WebInv, [Web!Next]_(Web!vars) PROVE WebInv'
      OBVIOUS
    <2>1. Web!TypeOK /\ Web!TypeOK'
      BY WebTypes DEF WebInv
    <2> SUFFICES ASSUME accidents' = {} PROVE WebClean'
      BY <2>1 DEF WebInv
    <2>2. CASE UNCHANGED Web!vars
      <3>1. /\ UNCHANGED <<file, locked, pc, apache, tries, others, disk, loaded, accidents>>
        BY <2>2 DEF Web!vars, Web!files, Web!script
      <3>2. WebClean
        BY <3>1 DEF WebInv
      <3>3. QED
        BY <3>1, <3>2 DEF WebClean, OneHolds, LinesTrue, InLock, FilesAttended, NoneIsStuck,
           ToReload,
           HoldsLock, KeptLines, LineThere, HasItsLine, IsAttended
    <2>3. CASE Web!Next
      <3>1. PICK s \in Scripts :
              \/ Web!Prepare(s) \/ Web!Commit(s) \/ Web!Dies(s)
              \/ Web!SaveSite(s) \/ Web!DeleteSite(s) \/ Web!SaveFirewalled(s) \/ Web!SaveOptions(s)
        BY <2>3 DEF Web!Next
      <3>2. accidents \subseteq accidents'
        BY <3>1 DEF Web!Prepare, Web!Commit, Web!Dies, Web!SaveSite, Web!DeleteSite,
           Web!SaveFirewalled, Web!SaveOptions, Web!Fails, Web!Take, Web!Wait, Web!GiveUp,
           Web!Look, Web!Reload, Web!Unlock, Web!WriteBack, Web!Mark, Web!PutBack
      <3>3. WebClean
        BY <3>2 DEF WebInv
      <3>4. CASE Web!Prepare(s)
        BY <2>1, <3>3, <3>4, PrepareStep
      <3>5. CASE Web!SaveSite(s) \/ Web!DeleteSite(s) \/ Web!SaveFirewalled(s) \/ Web!SaveOptions(s)
        BY <2>1, <3>3, <3>5, WritesStep
      <3>6. CASE Web!Take(s)
        BY <2>1, <3>3, <3>6, TakeStep
      <3>7. CASE Web!Wait(s)
        <4>1. UNCHANGED <<file, locked, pc, apache, others, disk, loaded>>
          BY <3>7 DEF Web!Wait, Web!files
        <4>2. QED
          BY <3>3, <4>1 DEF WebClean, OneHolds, LinesTrue, InLock, FilesAttended, NoneIsStuck,
             ToReload,
             HoldsLock, KeptLines, LineThere, HasItsLine, IsAttended
      <3>8. CASE Web!GiveUp(s)
        BY <2>1, <3>3, <3>8, GiveUpFails
      <3>9. CASE Web!Look(s)
        BY <2>1, <3>3, <3>9, LookStep
      <3>10. CASE Web!Reload(s) \/ Web!Unlock(s)
        BY <2>1, <3>3, <3>10, LastSteps
      <3>11. CASE Web!WriteBack(s) \/ Web!Mark(s)
        BY <2>1, <3>3, <3>11, WriteSteps
      <3>12. CASE Web!PutBack(s)
        BY <2>1, <3>3, <3>12, PutBackStep
      <3>13. CASE Web!Dies(s)
        BY <3>13 DEF Web!Dies, Web!Fails
      <3>14. QED
        BY <3>1, <3>4, <3>5, <3>6, <3>7, <3>8, <3>9, <3>10, <3>11, <3>12, <3>13 DEF Web!Commit
    <2>4. QED BY <2>2, <2>3
  <1>3. QED
    BY <1>1, <1>2, PTL DEF Web!Spec

\* Once no script is at work Apache serves what is configured, for any number of scripts
\* of the three backends that share the two files, unless one of six accidents occurred.
THEOREM ApacheServesWhatIsConfigured ==
  ASSUME Web!Assumption
  PROVE  Web!Spec => []ServedAsConfigured
  <1>1. WebInv => Web!ServedAsConfigured
    <2> SUFFICES ASSUME WebInv, \A s \in Scripts : ~ Web!AtWork(s), accidents = {}
                 PROVE  loaded = disk
      BY DEF Web!ServedAsConfigured
    <2>1. WebClean
      BY DEF WebInv
    <2>2. \A s \in Scripts : pc[s] \in {"new", "ended"}
      BY <2>1 DEF Web!AtWork, WebClean, NoneIsStuck
    <2>3. \A s \in Scripts : ~ HoldsLock(s) /\ ~ HasItsLine(s)
      BY <2>2 DEF HoldsLock, HasItsLine
    <2>4. \A s \in Scripts : ~ LineThere(Web!Line(s, FALSE))
      BY <2>1, <2>3 DEF WebClean, LinesTrue
    <2>5. file = None
      <3> SUFFICES ASSUME file # None PROVE FALSE
        OBVIOUS
      <3>1. PICK l \in file : ~ l.reload
        BY <2>1 DEF WebClean, FilesAttended, IsAttended
      <3>2. l \in Web!Lines
        BY <3>1 DEF WebInv, Web!TypeOK
      <3>3. l.script \in Scripts /\ l = Web!Line(l.script, FALSE)
        BY <3>1, <3>2 DEF Web!Lines, Web!Line
      <3>4. QED BY <2>4, <3>1, <3>3 DEF LineThere
    <2>6. \A l : ~ LineThere(l)
      BY <2>3, <2>5 DEF LineThere
    <2>7. apache \subseteq Scripts
      BY DEF WebInv, Web!TypeOK
    <2>8. ~ ToReload
      BY <2>2, <2>6, <2>7 DEF ToReload
    <2>9. QED BY <2>1, <2>8 DEF WebClean
  <1>2. QED
    BY <1>1, WebInvariant, PTL DEF ServedAsConfigured

-----------------------------------------------------------------------------
(* The zones of domains *)

\* The domains a zone may have, and the request at work on it.
Region(z) == {z} \cup Names!Subdomains(z)
Works(r) == zonePhase[r] # "none"
ZoneOf(r) == zoneChange[r].command.zone
SavesZone(r) == zoneChange[r].command.do = "save"

\* A request at work has its change; scripts are executed after the commit.
WorkIsWhole ==
  /\ \A r \in Requests : Works(r) => zoneChange[r] # None
  /\ \A r \in masterToDo \cup slaveToDo : Works(r)
  /\ \A r \in Requests : zonePhase[r] = "open" => r \in masterToDo /\ r \in slaveToDo

\* Requests are at work on zones that are not below each other, and nothing is above.
Separate ==
  /\ \A r, q \in Requests : Works(r) /\ Works(q) /\ r # q => ~ Names!Related(ZoneOf(q), ZoneOf(r))
  /\ \A r \in Requests : Works(r) => \A a \in Ancestors[ZoneOf(r)] : records[a] = None

\* A domain is in the zone of its highest ancestor.
IsHighest(held, d, p) ==
  IF p = None THEN \A a \in Ancestors[d] : held[a] = None
  ELSE p \in Ancestors[d] /\ held[p] # None /\ \A a \in Ancestors[p] : held[a] = None
TopsRight ==
  \A d \in DomainNames : IF records[d] = None THEN tops[d] = None ELSE IsHighest(records, d, tops[d])

\* The rows of a zone and of its subdomains, with a file that says them, or with none.
IsZone(z, held) ==
  /\ held.records[z] # None /\ held.top[z] = None
  /\ \A x \in Names!Subdomains(z) : held.top[x] = (IF held.records[x] = None THEN None ELSE z)
Says(f, z, versions) ==
  \A x \in DomainNames : f.says[x] = (IF x \in Region(z) THEN versions[x] ELSE None)
Intended(z, new, command) ==
  IF command.do = "save" THEN IsZone(z, new) /\ Says(command.file, z, new.records)
  ELSE \A x \in Region(z) : new.records[x] = None /\ new.top[x] = None

\* What a request has written, or is to write: rows of its region.
ChangesRegion ==
  \A r \in Requests : Works(r) =>
    LET c == zoneChange[r] IN
    /\ Intended(ZoneOf(r), c.new, c.command)
    /\ zonePhase[r] = "open" =>
         /\ \A x \in Region(ZoneOf(r)) : records[x] = c.old.records[x] /\ tops[x] = c.old.top[x]
         /\ \A x \in DomainNames \ Region(ZoneOf(r)) :
              c.new.records[x] = c.old.records[x] /\ c.new.top[x] = c.old.top[x]
    /\ zonePhase[r] = "executes" =>
         /\ \A x \in Region(ZoneOf(r)) : records[x] = c.new.records[x] /\ tops[x] = c.new.top[x]
         /\ SavesZone(r) => serial[ZoneOf(r)] = c.command.file.serial

\* Where no script is to come the master has the zones of the top domains, with what
\* the rows say, and the slave has them too.
IsTop(d) == records[d] # None /\ tops[d] = None
ToMaster(d) == \E r \in masterToDo : d \in Region(ZoneOf(r))
ToSlave(d) == \E r \in slaveToDo : d \in Region(ZoneOf(r))
AtWorkOnZone(d) == \E r \in Requests : Works(r) /\ d \in Region(ZoneOf(r))
Configured ==
  /\ \A d \in DomainNames : zones[d] # None <=> d \in conf
  /\ \A d \in DomainNames : ~ ToMaster(d) =>
       /\ d \in conf <=> IsTop(d)
       /\ d \in conf => Says(zones[d], d, records) /\ zones[d].serial = serial[d]
  /\ \A d \in DomainNames : ~ ToSlave(d) => (d \in slave <=> IsTop(d))

\* A zone that is to be deleted has no other below it.
NoneBelow ==
  /\ \A r \in masterToDo : ~ SavesZone(r) => conf \cap Names!Subdomains(ZoneOf(r)) = {}
  /\ \A r \in slaveToDo : ~ SavesZone(r) => slave \cap Names!Subdomains(ZoneOf(r)) = {}

\* The master serves what it has, where no request is at work.
ServedRest ==
  \A d \in DomainNames : ~ AtWorkOnZone(d) => served[d] = (IF d \in conf THEN zones[d] ELSE None)

\* A copy the slave may not ask about is of a zone that was deleted.
CopiesKept == \A d \in DomainNames \ deleted : copies[d] # None => d \in slave

\* Files of a zone are the older, the further they are from the database.
NewerOrSame(f, g) == f # None /\ g # None => f = g \/ Names!Later(f.serial, g.serial)
Newer(f, g) == g # None => Names!Later(f.serial, g.serial)
SerialsGrow ==
  /\ \A d \in DomainNames : NewerOrSame(zones[d], served[d])
  /\ \A d \in DomainNames \ deleted :
       NewerOrSame(served[d], copies[d]) /\ NewerOrSame(zones[d], copies[d])
  /\ \A r \in masterToDo : SavesZone(r) =>
       LET z == ZoneOf(r)
           f == zoneChange[r].command.file IN
       /\ Newer(f, zones[z]) /\ Newer(f, served[z])
       /\ z \notin deleted => Newer(f, copies[z])

ZonesAligned ==
  /\ Separate /\ TopsRight /\ ChangesRegion /\ Configured /\ NoneBelow
  /\ ServedRest /\ CopiesKept /\ SerialsGrow
ZonesInv == Names!TypeOK /\ WorkIsWhole /\ (zoneOverlaps = {} => ZonesAligned)

\* Regions of zones that are not below each other have no domain in common.
LEMMA RegionsApart ==
  ASSUME Names!Assumption, NEW y \in DomainNames, NEW z \in DomainNames, ~ Names!Related(y, z)
  PROVE  Region(y) \cap Region(z) = {}
  BY DEF Names!Assumption, Names!Related, Region, Names!Subdomains

\* A region has the regions of its domains.
LEMMA RegionsNest ==
  ASSUME Names!Assumption, NEW z \in DomainNames, NEW x \in Region(z)
  PROVE  x \in DomainNames /\ Region(x) \subseteq Region(z)
  BY DEF Names!Assumption, Region, Names!Subdomains

\* Serial numbers are ordered, and a refreshed one comes after the one it was.
LEMMA LaterIsOrder ==
  ASSUME NEW a \in Names!Serials, NEW b \in Names!Serials, NEW c \in Names!Serials,
         Names!Assumption, Names!Later(a, b), Names!Later(b, c)
  PROVE  Names!Later(a, c)
  <1>1. /\ a.day \in Int /\ b.day \in Int /\ c.day \in Int
        /\ a.number \in Int /\ b.number \in Int /\ c.number \in Int
    BY DEF Names!Serials, Names!Assumption
  <1>2. QED
    BY <1>1 DEF Names!Later

\* A refreshed serial is later than the one it replaces, by date or by count.
LEMMA RefreshedIsLater ==
  ASSUME Names!Assumption, zoneToday \in 0 .. MaxZoneDay, NEW s \in Names!Serials,
         ~ Names!Exhausted(s)
  PROVE  Names!refresh_serial(s) \in Names!Serials /\ Names!Later(Names!refresh_serial(s), s)
  <1>1. CASE Names!Later(Names!generate_zone_serial, s)
    BY <1>1 DEF Names!refresh_serial, Names!Serials, Names!Assumption, Names!generate_zone_serial
  <1>2. CASE ~ Names!Later(Names!generate_zone_serial, s)
    <2>1. s.number + 1 < MaxNumber /\ s.number \in 0 .. MaxNumber /\ s.day \in 0 .. MaxZoneDay
      BY <1>2 DEF Names!Exhausted, Names!Serials, Names!Assumption
    <2>2. Names!refresh_serial(s) = [day |-> s.day, number |-> s.number + 1]
      BY <1>2 DEF Names!refresh_serial, Names!Serials
    <2>3. s.number + 1 \in 0 .. MaxNumber
      BY <2>1 DEF Names!Assumption
    <2>4. QED
      BY <2>1, <2>2, <2>3 DEF Names!Serials, Names!Later
  <1>3. QED
    BY <1>1, <1>2

\* The highest ancestor there is: some domain has none above it, and only one.
LEMMA HighestExists ==
  ASSUME Names!Assumption, NEW d \in DomainNames, NEW S \in SUBSET Ancestors[d], S # {}
  PROVE  \E a \in S : S \cap Ancestors[a] = {}
  <1> DEFINE Order == {ss \in Nat \X Nat : ss[1] < ss[2]}
             Depths == {Cardinality(Ancestors[a]) : a \in S}
  <1>1. \A a \in DomainNames : IsFiniteSet(Ancestors[a]) /\ Ancestors[a] \subseteq DomainNames
    <2>1. IsFiniteSet(DomainNames)
      BY DEF Names!Assumption, Names!IsFiniteSet, IsFiniteSet
    <2>2. QED BY <2>1, FS_Subset DEF Names!Assumption
  <1>2. S \subseteq DomainNames
    BY <1>1
  <1>3. Depths \in SUBSET Nat /\ Depths # {}
    BY <1>1, <1>2, FS_CardinalityType
  <1>4. PICK n \in Depths : \A m \in Depths : ~ (<<m, n>> \in Order)
    <2>1. IsWellFoundedOn(Order, Nat)
      BY NatLessThanWellFounded DEF OpToRel
    <2> HIDE DEF Order, Depths
    <2>2. QED BY <1>3, <2>1, WFMin, Zenon
  <1>5. PICK a \in S : n = Cardinality(Ancestors[a])
    BY <1>4
  <1>6. S \cap Ancestors[a] = {}
    <2> SUFFICES ASSUME NEW b \in S, b \in Ancestors[a] PROVE FALSE
      OBVIOUS
    <2>1. Ancestors[b] \subseteq Ancestors[a] /\ b \notin Ancestors[b]
      BY <1>2 DEF Names!Assumption
    <2>2. Cardinality(Ancestors[b]) < Cardinality(Ancestors[a])
      BY <1>1, <1>2, <2>1, FS_Subset, FS_CardinalityType
    <2>3. Cardinality(Ancestors[a]) \in Nat /\ Cardinality(Ancestors[b]) \in Nat
      BY <1>1, <1>2, FS_CardinalityType
    <2>4. QED
      BY <1>4, <1>5, <2>2, <2>3
  <1>7. QED
    BY <1>6

\* get_parent finds the highest of the ancestors that there are.
LEMMA ParentIsHighest ==
  ASSUME Names!Assumption, NEW d \in DomainNames
  PROVE  IsHighest(records, d, Names!get_parent(d))
  <1> DEFINE known == {a \in Ancestors[d] : records[a] # None}
  <1>1. CASE known = {}
    BY <1>1 DEF Names!get_parent, IsHighest
  <1>2. CASE known # {}
    <2>1. \E a \in known : known \cap Ancestors[a] = {}
      BY <1>2, HighestExists
    <2>2. Names!get_parent(d) = CHOOSE a \in known : known \cap Ancestors[a] = {}
      BY <1>2 DEF Names!get_parent
    <2>3. Names!get_parent(d) \in known /\ known \cap Ancestors[Names!get_parent(d)] = {}
      BY <2>1, <2>2
    <2>4. Names!get_parent(d) \in DomainNames /\ None \notin DomainNames
      BY <2>3 DEF Names!Assumption
    <2>5. Ancestors[Names!get_parent(d)] \subseteq Ancestors[d]
      BY <2>3 DEF Names!Assumption
    <2>6. QED
      BY <2>3, <2>4, <2>5 DEF IsHighest
  <1>3. QED
    BY <1>1, <1>2

\* There is one highest ancestor: ancestors of a domain are ancestors of each other.
LEMMA HighestIsOne ==
  ASSUME Names!Assumption, NEW newRows, NEW d \in DomainNames, NEW p, NEW q,
         IsHighest(newRows, d, p), IsHighest(newRows, d, q)
  PROVE  p = q
  BY DEF Names!Assumption, IsHighest

\* What a request may begin with: typed rows and tops, that differ from those there are
\* in the zone of its command, and a command that says them.
TypedRequest(newRows, newTops, command) ==
  /\ newRows \in [DomainNames -> Versions \cup {None}]
  /\ newTops \in [DomainNames -> DomainNames \cup {None}]
  /\ command \in Names!Commands
ProperRequest(newRows, newTops, command) ==
  LET z == command.zone IN
  /\ \A a \in Ancestors[z] : records[a] = None
  /\ \A x \in DomainNames \ Region(z) : newRows[x] = records[x] /\ newTops[x] = tops[x]
  /\ Intended(z, [records |-> newRows, top |-> newTops], command)
  /\ command.do = "save" => command.file.serial = Names!refresh_serial(Names!serial_of(z))
  /\ command.do = "delete" => records[z] # None

\* The command that saves a zone.
LEMMA SaveOfZone ==
  ASSUME Names!Assumption, Names!TypeOK, NEW z \in DomainNames,
         NEW newRows \in [DomainNames -> Versions \cup {None}],
         NEW newTops \in [DomainNames -> DomainNames \cup {None}],
         ~ Names!Exhausted(Names!serial_of(z))
  PROVE  LET c == Names!Save(z, newRows, newTops) IN
         /\ c \in Names!Commands /\ c.do = "save" /\ c.zone = z
         /\ c.file.serial = Names!refresh_serial(Names!serial_of(z))
         /\ c.file.says = Names!render_zone(z, newRows, newTops)
  <1>1. Names!serial_of(z) \in Names!Serials
    BY DEF Names!TypeOK, Names!serial_of, Names!generate_zone_serial, Names!Serials, Names!Assumption
  <1>2. Names!refresh_serial(Names!serial_of(z)) \in Names!Serials
    BY <1>1, RefreshedIsLater DEF Names!TypeOK
  <1>3. Names!render_zone(z, newRows, newTops) \in [DomainNames -> Versions \cup {None}]
    BY DEF Names!render_zone
  <1>4. [serial |-> Names!refresh_serial(Names!serial_of(z)),
         says |-> Names!render_zone(z, newRows, newTops)] \in Names!Zones
    BY <1>2, <1>3 DEF Names!Zones
  <1>5. QED
    BY <1>4 DEF Names!Save, Names!Commands

\* A rendered zone has the rows of its region, as they are to be written.
LEMMA RenderedAsWritten ==
  ASSUME Names!Assumption, NEW z \in DomainNames, NEW newRows, NEW newTops, NEW f,
         f.says = Names!render_zone(z, newRows, newTops),
         IsZone(z, [records |-> newRows, top |-> newTops]),
         \A x \in DomainNames \ Region(z) : newTops[x] # z
  PROVE  Says(f, z, newRows)
  <1> SUFFICES ASSUME NEW x \in DomainNames
               PROVE  f.says[x] = (IF x \in Region(z) THEN newRows[x] ELSE None)
    BY DEF Says
  <1>1. f.says[x] = IF Names!Origin(x, newTops) = z THEN newRows[x] ELSE None
    BY DEF Names!render_zone
  <1>2. z # None
    BY DEF Names!Assumption
  <1>3. newTops[z] = None /\ \A y \in Names!Subdomains(z) : newTops[y] = IF newRows[y] = None THEN None ELSE z
    BY DEF IsZone
  <1>4. CASE x \in Region(z)
    BY <1>1, <1>2, <1>3, <1>4 DEF Region, Names!Origin
  <1>5. CASE x \notin Region(z)
    BY <1>1, <1>5 DEF Region, Names!Origin
  <1>6. QED
    BY <1>4, <1>5

\* A domain there is, is in its zone: either it is highest, or below the one that is.
LEMMA ZoneOfDomain ==
  ASSUME Names!Assumption, Names!TypeOK, TopsRight, NEW d \in DomainNames, records[d] # None,
         NEW z, z = Names!Origin(d, tops)
  PROVE  /\ z \in DomainNames /\ d \in Region(z)
         /\ \A a \in Ancestors[z] : records[a] = None
         /\ IsZone(z, [records |-> records, top |-> tops])
         /\ \A x \in DomainNames \ Region(z) : tops[x] # z
  <1>1. None \notin DomainNames /\ tops[d] \in DomainNames \cup {None}
    BY DEF Names!Assumption, Names!TypeOK
  <1>2. IsHighest(records, d, tops[d])
    BY DEF TopsRight
  <1>3. z \in DomainNames /\ d \in Region(z) /\ records[z] # None
    BY <1>1, <1>2 DEF IsHighest, Names!Origin, Region, Names!Subdomains, Names!Assumption
  <1>4. \A a \in Ancestors[z] : records[a] = None
    BY <1>1, <1>2 DEF IsHighest, Names!Origin
  <1>5. tops[z] = None
    <2>1. IsHighest(records, z, tops[z])
      BY <1>3 DEF TopsRight
    <2>2. QED BY <1>4, <2>1 DEF IsHighest
  <1>6. ASSUME NEW x \in Names!Subdomains(z)
        PROVE  tops[x] = IF records[x] = None THEN None ELSE z
    <2>1. CASE records[x] = None
      BY <2>1 DEF TopsRight, Names!Subdomains
    <2>2. CASE records[x] # None
      <3>1. x \in DomainNames /\ IsHighest(records, x, tops[x])
        BY <2>2 DEF TopsRight, Names!Subdomains
      <3>2. IsHighest(records, x, z)
        BY <1>1, <1>3, <1>4 DEF IsHighest, Names!Subdomains
      <3>3. QED BY <2>2, <3>1, <3>2, HighestIsOne
    <2>3. QED BY <2>1, <2>2
  <1>7. ASSUME NEW x \in DomainNames \ Region(z) PROVE tops[x] # z
    BY <1>1, <1>3 DEF TopsRight, IsHighest, Region, Names!Subdomains
  <1>8. QED
    BY <1>3, <1>4, <1>5, <1>6, <1>7 DEF IsZone

\* Each request begins with proper rows: of the zone whose domain it creates, changes or
\* deletes.
LEMMA CreateIsProper ==
  ASSUME Names!Assumption, Names!TypeOK, NEW r \in Requests, NEW d \in DomainNames,
         Names!Create(r, d)
  PROVE  \E newRows, newTops, command :
           /\ Names!Requested(r, newRows, newTops, command) /\ TypedRequest(newRows, newTops, command)
           /\ TopsRight => ProperRequest(newRows, newTops, command)
  <1> DEFINE parent == Names!get_parent(d)
             under == IF parent = None THEN {x \in Names!Subdomains(d) : records[x] # None} ELSE {}
             newTops == [x \in DomainNames |-> IF x = d THEN parent
                                               ELSE IF x \in under THEN d ELSE tops[x]]
             z == Names!Origin(d, newTops)
  <1>1. PICK v \in Versions :
          Names!Requested(r, [records EXCEPT ![d] = v], newTops,
                          Names!Save(z, [records EXCEPT ![d] = v], newTops))
    BY DEF Names!Create
  <1> DEFINE newRows == [records EXCEPT ![d] = v]
             c == Names!Save(z, newRows, newTops)
  <1>2. Names!Requested(r, newRows, newTops, c)
    BY <1>1
  <1>3. IsHighest(records, d, parent) /\ None \notin DomainNames /\ None \notin Versions
    BY ParentIsHighest DEF Names!Assumption
  <1>4. parent \in DomainNames \cup {None} /\ d \notin Ancestors[d]
           /\ Ancestors[d] \subseteq DomainNames
    BY <1>3 DEF IsHighest, Names!Assumption
  <1>5. /\ records \in [DomainNames -> Versions \cup {None}]
        /\ tops \in [DomainNames -> DomainNames \cup {None}]
    BY DEF Names!TypeOK
  <1> HIDE DEF parent
  <1>6. /\ newRows \in [DomainNames -> Versions \cup {None}]
        /\ newTops \in [DomainNames -> DomainNames \cup {None}]
    BY <1>4, <1>5
  <1>7. z = (IF parent = None THEN d ELSE parent) /\ z \in DomainNames
    BY <1>4 DEF Names!Origin
  <1>8. newRows[d] # None /\ \A x \in DomainNames \ {d} : newRows[x] = records[x]
    BY <1>3, <1>5
  <1>9. newTops[d] = parent /\ \A x \in DomainNames \ {d} :
          newTops[x] = IF x \in under THEN d ELSE tops[x]
    OBVIOUS
  <1>10. records[d] = None
    BY DEF Names!Create
  <1>11. c.do = "save" /\ c.zone = z
    BY DEF Names!Save
  <1>12. ~ Names!Exhausted(Names!serial_of(z))
    <2> HIDE DEF c, z, newRows, newTops
    <2>1. QED BY <1>2, <1>11 DEF Names!Requested
  <1> HIDE DEF z, newRows, newTops
  <1>13. /\ c \in Names!Commands
         /\ c.file.serial = Names!refresh_serial(Names!serial_of(z))
         /\ c.file.says = Names!render_zone(z, newRows, newTops)
    BY <1>6, <1>7, <1>12, SaveOfZone
  <1> HIDE DEF c
  <1>14. TypedRequest(newRows, newTops, c)
    BY <1>6, <1>13 DEF TypedRequest
  <1>15. ASSUME TopsRight PROVE ProperRequest(newRows, newTops, c)
    <2>1. CASE parent = None
      <3>1. z = d /\ \A a \in Ancestors[z] : records[a] = None
        BY <1>3, <1>7, <2>1 DEF IsHighest
      <3>2. IsZone(z, [records |-> newRows, top |-> newTops])
        <4>1. ASSUME NEW x \in Names!Subdomains(d)
              PROVE  newTops[x] = IF newRows[x] = None THEN None ELSE d
          <5>1. x \in DomainNames \ {d}
            BY <1>4 DEF Names!Subdomains
          <5>2. newRows[x] = records[x] /\ newTops[x] = IF x \in under THEN d ELSE tops[x]
            BY <1>8, <1>9, <5>1
          <5>3. records[x] = None => tops[x] = None
            BY <1>15, <5>1 DEF TopsRight
          <5>4. QED BY <2>1, <5>2, <5>3
        <4>2. QED BY <1>8, <1>9, <2>1, <3>1, <4>1 DEF IsZone
      <3>3. \A x \in DomainNames \ Region(z) : newRows[x] = records[x] /\ newTops[x] = tops[x]
        BY <1>8, <1>9, <3>1 DEF Region
      <3>4. \A x \in DomainNames \ Region(z) : newTops[x] # z
        BY <1>3, <1>10, <1>15, <3>1, <3>3 DEF TopsRight, IsHighest
      <3>5. Says(c.file, z, newRows)
        BY <1>7, <1>13, <3>2, <3>4, RenderedAsWritten
      <3>6. QED
        BY <1>11, <1>13, <3>1, <3>2, <3>3, <3>5 DEF ProperRequest, Intended
    <2>2. CASE parent # None
      <3>1. /\ z = parent /\ z \in Ancestors[d] /\ records[z] # None
            /\ \A a \in Ancestors[z] : records[a] = None
        BY <1>3, <1>7, <2>2 DEF IsHighest
      <3>2. IsHighest(records, z, None)
        BY <3>1 DEF IsHighest
      <3>3. tops[z] = None
        BY <1>7, <1>15, <3>1, <3>2, HighestIsOne DEF TopsRight
      <3>4. /\ IsZone(z, [records |-> records, top |-> tops])
            /\ \A x \in DomainNames \ Region(z) : tops[x] # z
        BY <1>7, <1>15, <3>1, <3>3, ZoneOfDomain DEF Names!Origin
      <3>5. d \in Names!Subdomains(z) /\ z # d
        BY <1>4, <3>1 DEF Names!Subdomains
      <3>6. \A x \in DomainNames \ {d} : newTops[x] = tops[x]
        BY <1>9, <2>2
      <3>7. IsZone(z, [records |-> newRows, top |-> newTops])
        <4>1. newRows[z] # None /\ newTops[z] = None
          BY <1>7, <1>8, <3>1, <3>3, <3>5, <3>6
        <4>2. ASSUME NEW x \in Names!Subdomains(z)
              PROVE  newTops[x] = IF newRows[x] = None THEN None ELSE z
          <5>1. CASE x = d
            BY <1>8, <1>9, <3>1, <5>1
          <5>2. CASE x # d
            <6>1. x \in DomainNames \ {d}
              BY <5>2 DEF Names!Subdomains
            <6>2. QED BY <1>8, <3>4, <3>6, <6>1 DEF IsZone
          <5>3. QED BY <5>1, <5>2
        <4>3. QED BY <4>1, <4>2 DEF IsZone
      <3>8. \A x \in DomainNames \ Region(z) : newRows[x] = records[x] /\ newTops[x] = tops[x]
        BY <1>8, <3>5, <3>6 DEF Region
      <3>9. Says(c.file, z, newRows)
        BY <1>7, <1>13, <3>4, <3>7, <3>8, RenderedAsWritten
      <3>10. QED
        BY <1>11, <1>13, <3>1, <3>7, <3>8, <3>9 DEF ProperRequest, Intended
    <2>3. QED BY <2>1, <2>2
  <1>16. QED
    BY <1>2, <1>14, <1>15

\* So does a change of records, which saves the zone the domain is in.
LEMMA ChangeIsProper ==
  ASSUME Names!Assumption, Names!TypeOK, NEW r \in Requests, NEW d \in DomainNames,
         Names!ChangeRecords(r, d)
  PROVE  \E newRows, newTops, command :
           /\ Names!Requested(r, newRows, newTops, command) /\ TypedRequest(newRows, newTops, command)
           /\ TopsRight => ProperRequest(newRows, newTops, command)
  <1> DEFINE z == Names!Origin(d, tops)
  <1>1. PICK v \in Versions :
          Names!Requested(r, [records EXCEPT ![d] = v], tops,
                          Names!Save(z, [records EXCEPT ![d] = v], tops))
    BY DEF Names!ChangeRecords
  <1> DEFINE newRows == [records EXCEPT ![d] = v]
             c == Names!Save(z, newRows, tops)
  <1>2. Names!Requested(r, newRows, tops, c)
    BY <1>1
  <1>3. records[d] # None /\ None \notin Versions
    BY DEF Names!ChangeRecords, Names!Assumption
  <1>4. /\ records \in [DomainNames -> Versions \cup {None}]
        /\ tops \in [DomainNames -> DomainNames \cup {None}]
    BY DEF Names!TypeOK
  <1>5. newRows \in [DomainNames -> Versions \cup {None}]
    BY <1>4
  <1>6. newRows[d] # None /\ \A x \in DomainNames \ {d} : newRows[x] = records[x]
    BY <1>3, <1>4
  <1>7. z \in DomainNames
    BY <1>4 DEF Names!Origin
  <1>8. c.do = "save" /\ c.zone = z
    BY DEF Names!Save
  <1>9. ~ Names!Exhausted(Names!serial_of(z))
    <2> HIDE DEF c, z, newRows
    <2>1. QED BY <1>2, <1>8 DEF Names!Requested
  <1> HIDE DEF newRows
  <1>10. /\ c \in Names!Commands
         /\ c.file.serial = Names!refresh_serial(Names!serial_of(z))
         /\ c.file.says = Names!render_zone(z, newRows, tops)
    <2> HIDE DEF z
    <2>1. QED BY <1>4, <1>5, <1>7, <1>9, SaveOfZone
  <1> HIDE DEF c
  <1>11. TypedRequest(newRows, tops, c)
    BY <1>4, <1>5, <1>10 DEF TypedRequest
  <1>12. ASSUME TopsRight PROVE ProperRequest(newRows, tops, c)
    <2>1. /\ d \in Region(z)
          /\ \A a \in Ancestors[z] : records[a] = None
          /\ IsZone(z, [records |-> records, top |-> tops])
          /\ \A x \in DomainNames \ Region(z) : tops[x] # z
      BY <1>3, <1>12, ZoneOfDomain
    <2> HIDE DEF z
    <2>2. \A x \in DomainNames : newRows[x] = None <=> records[x] = None
      BY <1>3, <1>6
    <2>3. IsZone(z, [records |-> newRows, top |-> tops])
      BY <1>7, <2>1, <2>2 DEF IsZone, Names!Subdomains
    <2>4. Says(c.file, z, newRows)
      BY <1>7, <1>10, <2>1, <2>3, RenderedAsWritten
    <2>5. \A x \in DomainNames \ Region(z) : newRows[x] = records[x]
      BY <1>6, <2>1
    <2>6. QED
      BY <1>8, <1>10, <2>1, <2>3, <2>4, <2>5 DEF ProperRequest, Intended
  <1>13. QED
    BY <1>2, <1>11, <1>12

\* So does a deletion, of a zone with all that is in it, or of a domain in a zone.
LEMMA DeleteIsProper ==
  ASSUME Names!Assumption, Names!TypeOK, NEW r \in Requests, NEW d \in DomainNames,
         Names!Delete(r, d)
  PROVE  \E newRows, newTops, command :
           /\ Names!Requested(r, newRows, newTops, command) /\ TypedRequest(newRows, newTops, command)
           /\ TopsRight => ProperRequest(newRows, newTops, command)
  <1> DEFINE going == {x \in DomainNames : x = d \/ tops[x] = d}
             newRows == [x \in DomainNames |-> IF x \in going THEN None ELSE records[x]]
             newTops == [x \in DomainNames |-> IF x \in going THEN None ELSE tops[x]]
             z == Names!Origin(d, tops)
             c == IF tops[d] = None THEN [do |-> "delete", zone |-> d]
                  ELSE Names!Save(tops[d], newRows, newTops)
  <1>1. Names!Requested(r, newRows, newTops, c) /\ records[d] # None
    BY DEF Names!Delete
  <1>2. /\ records \in [DomainNames -> Versions \cup {None}]
        /\ tops \in [DomainNames -> DomainNames \cup {None}]
        /\ None \notin DomainNames
    BY DEF Names!TypeOK, Names!Assumption
  <1>3. /\ newRows \in [DomainNames -> Versions \cup {None}]
        /\ newTops \in [DomainNames -> DomainNames \cup {None}]
    BY <1>2
  <1>4. \A x \in DomainNames : /\ newRows[x] = IF x \in going THEN None ELSE records[x]
                               /\ newTops[x] = IF x \in going THEN None ELSE tops[x]
    OBVIOUS
  <1>5. \A x \in DomainNames : x \in going <=> x = d \/ tops[x] = d
    OBVIOUS
  <1>6. TopsRight => /\ z \in DomainNames /\ d \in Region(z)
                     /\ \A a \in Ancestors[z] : records[a] = None
                     /\ IsZone(z, [records |-> records, top |-> tops])
                     /\ \A x \in DomainNames \ Region(z) : tops[x] # z
    BY <1>1, ZoneOfDomain
  <1> HIDE DEF going, newRows, newTops
  <1>7. CASE tops[d] = None
    <2>1. c = [do |-> "delete", zone |-> d] /\ z = d
      BY <1>7 DEF Names!Origin
    <2>2. c \in Names!Commands /\ c.do = "delete" /\ c.zone = d
      BY <2>1 DEF Names!Commands
    <2> HIDE DEF c, z
    <2>3. TypedRequest(newRows, newTops, c)
      BY <1>3, <2>2 DEF TypedRequest
    <2>4. ASSUME TopsRight PROVE ProperRequest(newRows, newTops, c)
      <3>1. \A x \in Region(d) : newRows[x] = None /\ newTops[x] = None
        <4> SUFFICES ASSUME NEW x \in Region(d) PROVE newRows[x] = None /\ newTops[x] = None
          OBVIOUS
        <4>1. CASE x = d
          BY <1>4, <1>5, <4>1
        <4>2. CASE x \in Names!Subdomains(d)
          <5>1. x \in DomainNames /\ tops[x] = IF records[x] = None THEN None ELSE d
            BY <1>6, <2>1, <2>4, <4>2 DEF IsZone, Names!Subdomains
          <5>2. QED BY <1>4, <1>5, <5>1
        <4>3. QED BY <4>1, <4>2 DEF Region
      <3>2. \A x \in DomainNames \ Region(d) : newRows[x] = records[x] /\ newTops[x] = tops[x]
        BY <1>4, <1>5, <1>6, <2>1, <2>4
      <3>3. QED
        BY <1>1, <1>6, <2>1, <2>2, <2>4, <3>1, <3>2 DEF ProperRequest, Intended
    <2>5. QED
      BY <1>1, <2>3, <2>4
  <1>8. CASE tops[d] # None
    <2>1. c = Names!Save(z, newRows, newTops) /\ z = tops[d] /\ z \in DomainNames
      BY <1>2, <1>8 DEF Names!Origin
    <2> HIDE DEF c, z
    <2>2. c.do = "save" /\ c.zone = z
      BY <2>1 DEF Names!Save
    <2>3. ~ Names!Exhausted(Names!serial_of(z))
      BY <1>1, <2>2 DEF Names!Requested
    <2>4. /\ c \in Names!Commands
          /\ c.file.serial = Names!refresh_serial(Names!serial_of(z))
          /\ c.file.says = Names!render_zone(z, newRows, newTops)
      BY <1>3, <2>1, <2>3, SaveOfZone
    <2>5. TypedRequest(newRows, newTops, c)
      BY <1>3, <2>4 DEF TypedRequest
    <2>6. ASSUME TopsRight PROVE ProperRequest(newRows, newTops, c)
      <3>1. \A x \in DomainNames : tops[x] # d
        BY <1>1, <1>2, <1>8, <2>6 DEF TopsRight, IsHighest, Names!Assumption
      <3>2. \A x \in DomainNames : x \in going <=> x = d
        BY <1>5, <3>1
      <3>3. z # d
        BY <2>1, <3>1
      <3>4. IsZone(z, [records |-> newRows, top |-> newTops])
        BY <1>4, <1>6, <2>1, <2>6, <3>2, <3>3 DEF IsZone, Names!Subdomains
      <3>5. \A x \in DomainNames \ Region(z) : newRows[x] = records[x] /\ newTops[x] = tops[x]
        BY <1>4, <1>6, <2>6, <3>2
      <3>6. Says(c.file, z, newRows)
        BY <1>6, <2>1, <2>4, <2>6, <3>4, <3>5, RenderedAsWritten
      <3>7. QED
        BY <1>6, <2>2, <2>4, <2>6, <3>4, <3>5, <3>6 DEF ProperRequest, Intended
    <2>7. QED
      BY <1>1, <2>5, <2>6
  <1>9. QED
    BY <1>7, <1>8

\* A request begins.
LEMMA RequestKeepsTypes ==
  ASSUME Names!Assumption, Names!TypeOK, WorkIsWhole, NEW r \in Requests, NEW newRows, NEW newTops,
         NEW command, TypedRequest(newRows, newTops, command),
         Names!Requested(r, newRows, newTops, command)
  PROVE  Names!TypeOK' /\ WorkIsWhole'
  <1> DEFINE old == [records |-> records, top |-> tops]
             new == [records |-> newRows, top |-> newTops]
  <1>1. old \in Names!RowsOfDomains /\ new \in Names!RowsOfDomains
    BY DEF Names!TypeOK, TypedRequest, Names!RowsOfDomains
  <1>2. [old |-> old, new |-> new, command |-> command] \in Names!Changes
    BY <1>1 DEF TypedRequest, Names!Changes
  <1>3. /\ zoneChange' = [zoneChange EXCEPT ![r] = [old |-> old, new |-> new, command |-> command]]
        /\ zonePhase' = [zonePhase EXCEPT ![r] = "open"]
        /\ masterToDo' = masterToDo \cup {r} /\ slaveToDo' = slaveToDo \cup {r}
        /\ zoneOverlaps' = DomainNames \/ zoneOverlaps' = zoneOverlaps
        /\ UNCHANGED <<zoneToday, records, tops, serial, conf, zones, served, copies, slave,
           deleted>>
    BY DEF Names!Requested, Names!db, Names!master
  <1> HIDE DEF old, new
  <1>4. Names!TypeOK'
    BY <1>2, <1>3 DEF Names!TypeOK
  <1>5. [old |-> old, new |-> new, command |-> command] # None
    BY <1>2 DEF Names!Assumption
  <1>6. WorkIsWhole'
    BY <1>3, <1>5 DEF WorkIsWhole, Works, Names!TypeOK
  <1>7. QED
    BY <1>4, <1>6

\* A request that begins, and overlaps with no other, keeps zones aligned.
LEMMA RequestKeepsZones ==
  ASSUME Names!Assumption, Names!TypeOK, WorkIsWhole, ZonesAligned, zoneOverlaps' = {},
         NEW r \in Requests, NEW newRows, NEW newTops, NEW command,
         TypedRequest(newRows, newTops, command), ProperRequest(newRows, newTops, command),
         Names!Requested(r, newRows, newTops, command)
  PROVE  ZonesAligned'
  <1> DEFINE z == command.zone
             c == [old |-> [records |-> records, top |-> tops],
                   new |-> [records |-> newRows, top |-> newTops], command |-> command]
  <1>1. /\ zoneChange' = [zoneChange EXCEPT ![r] = c]
        /\ zonePhase' = [zonePhase EXCEPT ![r] = "open"]
        /\ masterToDo' = masterToDo \cup {r} /\ slaveToDo' = slaveToDo \cup {r}
        /\ UNCHANGED <<zoneToday, records, tops, serial, conf, zones, served, copies, slave,
           deleted>>
        /\ ~ Works(r)
    BY DEF Names!Requested, Names!db, Names!master, Works
  <1>2. z \in DomainNames /\ command.do \in {"save", "delete"}
    BY DEF TypedRequest, Names!Commands
  <1>3. \A q \in Requests : Works(q) => ~ Names!Related(ZoneOf(q), z)
    BY <1>1, <1>2 DEF Names!Requested, Works, ZoneOf
  <1>4. c.command = command /\ c.old.records = records /\ c.old.top = tops
        /\ c.new = [records |-> newRows, top |-> newTops]
    OBVIOUS
  <1>5. zoneChange'[r] = c /\ zonePhase'[r] = "open"
    BY <1>1 DEF Names!TypeOK
  <1>6. \A q \in Requests \ {r} : zoneChange'[q] = zoneChange[q] /\ zonePhase'[q] = zonePhase[q]
    BY <1>1 DEF Names!TypeOK
  <1> HIDE DEF c
  <1>7. \A q \in Requests : Works(q)' <=> Works(q) \/ q = r
    BY <1>5, <1>6 DEF Works
  <1>8. \A q \in Requests \ {r} : ZoneOf(q)' = ZoneOf(q) /\ SavesZone(q)' = SavesZone(q)
    BY <1>6 DEF ZoneOf, SavesZone
  <1>9. ZoneOf(r)' = z /\ (SavesZone(r)' <=> command.do = "save")
    BY <1>4, <1>5 DEF ZoneOf, SavesZone
  <1>10. \A q \in Requests : Works(q) => ZoneOf(q) \in DomainNames
    BY DEF WorkIsWhole, Names!TypeOK, ZoneOf, Names!Changes, Names!Commands
  <1>11. \A q \in Requests : Works(q) => q # r /\ Region(ZoneOf(q)) \cap Region(z) = {}
    BY <1>1, <1>2, <1>3, <1>10, RegionsApart
  <1>12. \A q \in masterToDo \cup slaveToDo : q \in Requests /\ Works(q) /\ q # r
    BY <1>1 DEF WorkIsWhole, Names!TypeOK
  <1>13. \A d \in DomainNames : /\ ToMaster(d) => ToMaster(d)'
                                /\ ToSlave(d) => ToSlave(d)'
                                /\ AtWorkOnZone(d) => AtWorkOnZone(d)'
    BY <1>1, <1>7, <1>8, <1>11, <1>12 DEF ToMaster, ToSlave, AtWorkOnZone
  <1>14. \A d \in Region(z) : d \in DomainNames /\ ~ ToMaster(d) /\ ~ ToSlave(d) /\ ~ AtWorkOnZone(d)
    BY <1>2, <1>11, <1>12, RegionsNest DEF ToMaster, ToSlave, AtWorkOnZone
  <1>15. \A a \in Ancestors[z] : records[a] = None
    BY DEF ProperRequest
  <1>16. Separate'
    BY <1>1, <1>3, <1>7, <1>8, <1>9, <1>15 DEF Separate, ZonesAligned, Names!Related
  <1>17. TopsRight'
    BY <1>1 DEF TopsRight, ZonesAligned, IsHighest
  <1>18. ChangesRegion'
    <2> SUFFICES ASSUME NEW q \in Requests, Works(q)'
                 PROVE  LET e == zoneChange'[q] IN
                        /\ Intended(ZoneOf(q)', e.new, e.command)
                        /\ zonePhase'[q] = "open" =>
                             /\ \A x \in Region(ZoneOf(q)') :
                                  records'[x] = e.old.records[x] /\ tops'[x] = e.old.top[x]
                             /\ \A x \in DomainNames \ Region(ZoneOf(q)') :
                                  e.new.records[x] = e.old.records[x] /\ e.new.top[x] = e.old.top[x]
                        /\ zonePhase'[q] = "executes" =>
                             /\ \A x \in Region(ZoneOf(q)') :
                                  records'[x] = e.new.records[x] /\ tops'[x] = e.new.top[x]
                             /\ SavesZone(q)' => serial'[ZoneOf(q)'] = e.command.file.serial
      BY DEF ChangesRegion
    <2>1. CASE q = r
      BY <1>1, <1>4, <1>5, <1>9, <2>1 DEF ProperRequest
    <2>2. CASE q # r
      BY <1>1, <1>6, <1>7, <1>8, <2>2 DEF ChangesRegion, ZonesAligned
    <2>3. QED BY <2>1, <2>2
  <1>19. Configured'
    BY <1>1, <1>13 DEF Configured, ZonesAligned, IsTop, Says
  <1>20. command.do # "save" => \A x \in Names!Subdomains(z) : ~ IsTop(x)
    <2> SUFFICES ASSUME command.do # "save", NEW x \in Names!Subdomains(z), records[x] # None,
                        tops[x] = None
                 PROVE  FALSE
      BY DEF IsTop
    <2>1. records[z] # None
      BY <1>2 DEF ProperRequest
    <2>2. x \in DomainNames /\ z \in Ancestors[x] /\ IsHighest(records, x, None)
      BY DEF TopsRight, ZonesAligned, Names!Subdomains
    <2>3. QED BY <2>1, <2>2 DEF IsHighest
  <1>21. NoneBelow'
    <2>1. \A x \in Names!Subdomains(z) : x \in Region(z)
      BY DEF Region
    <2>2. command.do # "save" => conf \cap Names!Subdomains(z) = {}
             /\ slave \cap Names!Subdomains(z) = {}
      BY <1>14, <1>20, <2>1 DEF Configured, ZonesAligned
    <2>3. QED BY <1>1, <1>8, <1>9, <1>12, <2>2 DEF NoneBelow, ZonesAligned
  <1>22. ServedRest'
    BY <1>1, <1>13 DEF ServedRest, ZonesAligned
  <1>23. CopiesKept'
    BY <1>1 DEF CopiesKept, ZonesAligned
  <1>24. command.do = "save" => /\ Newer(command.file, zones[z]) /\ Newer(command.file, served[z])
                                /\ z \notin deleted => Newer(command.file, copies[z])
    <2> SUFFICES ASSUME command.do = "save"
                 PROVE  /\ Newer(command.file, zones[z]) /\ Newer(command.file, served[z])
                        /\ z \notin deleted => Newer(command.file, copies[z])
      OBVIOUS
    <2>1. z \in Region(z) /\ ~ ToMaster(z) /\ ~ ToSlave(z) /\ ~ AtWorkOnZone(z)
      BY <1>14 DEF Region
    <2>2. served[z] = IF z \in conf THEN zones[z] ELSE None
      BY <1>2, <2>1 DEF ServedRest, ZonesAligned
    <2>3. CASE records[z] = None
      <3>1. z \notin conf /\ z \notin slave
        BY <1>2, <2>1, <2>3 DEF Configured, ZonesAligned, IsTop
      <3>2. zones[z] = None /\ served[z] = None /\ (z \notin deleted => copies[z] = None)
        BY <1>2, <2>2, <3>1 DEF Configured, CopiesKept, ZonesAligned
      <3>3. QED BY <3>2 DEF Newer
    <2>4. CASE records[z] # None
      <3>1. tops[z] = None
        BY <1>2, <1>15, <2>4 DEF TopsRight, ZonesAligned, IsHighest
      <3>2. z \in conf /\ zones[z] # None /\ zones[z].serial = serial[z] /\ served[z] = zones[z]
        BY <1>2, <2>1, <2>2, <2>4, <3>1 DEF Configured, ZonesAligned, IsTop
      <3>3. Names!serial_of(z) = serial[z] /\ serial[z] \in Names!Serials
        BY <1>2, <2>4 DEF Names!serial_of, Names!TypeOK
      <3>4. ~ Names!Exhausted(serial[z])
        BY <3>3 DEF Names!Requested
      <3>5. command.file.serial = Names!refresh_serial(serial[z])
        BY <3>3 DEF ProperRequest
      <3>6. Names!Later(command.file.serial, zones[z].serial)
               /\ command.file.serial \in Names!Serials
        BY <3>2, <3>3, <3>4, <3>5, RefreshedIsLater DEF Names!TypeOK
      <3>7. ASSUME z \notin deleted, copies[z] # None
            PROVE  Names!Later(command.file.serial, copies[z].serial)
        <4>1. copies[z] = zones[z] \/ Names!Later(zones[z].serial, copies[z].serial)
          BY <1>2, <3>2, <3>7 DEF SerialsGrow, NewerOrSame, ZonesAligned
        <4>2. zones[z].serial \in Names!Serials /\ copies[z].serial \in Names!Serials
          BY <1>2, <3>2, <3>7 DEF Names!TypeOK, Names!Zones
        <4>3. QED BY <3>6, <4>1, <4>2, LaterIsOrder
      <3>8. QED BY <3>2, <3>6, <3>7 DEF Newer
    <2>5. QED BY <2>3, <2>4
  <1>25. SerialsGrow'
    <2>1. \A q \in masterToDo : zoneChange'[q] = zoneChange[q] /\ SavesZone(q)' = SavesZone(q)
                                /\ ZoneOf(q)' = ZoneOf(q)
      BY <1>6, <1>8, <1>12
    <2>2. \A q \in masterToDo : SavesZone(q) =>
            /\ Newer(zoneChange[q].command.file, zones[ZoneOf(q)])
            /\ Newer(zoneChange[q].command.file, served[ZoneOf(q)])
            /\ ZoneOf(q) \notin deleted => Newer(zoneChange[q].command.file, copies[ZoneOf(q)])
      BY DEF SerialsGrow, ZonesAligned
    <2>3. \A q \in masterToDo' : SavesZone(q)' =>
            /\ Newer(zoneChange'[q].command.file, zones'[ZoneOf(q)'])
            /\ Newer(zoneChange'[q].command.file, served'[ZoneOf(q)'])
            /\ ZoneOf(q)' \notin deleted' => Newer(zoneChange'[q].command.file, copies'[ZoneOf(q)'])
      <3> SUFFICES ASSUME NEW q \in masterToDo', SavesZone(q)'
                   PROVE  /\ Newer(zoneChange'[q].command.file, zones'[ZoneOf(q)'])
                          /\ Newer(zoneChange'[q].command.file, served'[ZoneOf(q)'])
                          /\ ZoneOf(q)' \notin deleted' =>
                               Newer(zoneChange'[q].command.file, copies'[ZoneOf(q)'])
        OBVIOUS
      <3>1. CASE q \in masterToDo
        BY <1>1, <2>1, <2>2, <3>1
      <3>2. CASE q = r
        BY <1>1, <1>4, <1>5, <1>9, <1>24, <3>2
      <3>3. QED BY <1>1, <3>1, <3>2
    <2>4. QED BY <1>1, <2>3 DEF SerialsGrow, ZonesAligned, NewerOrSame, Newer
  <1>26. QED
    BY <1>16, <1>17, <1>18, <1>19, <1>21, <1>22, <1>23, <1>25 DEF ZonesAligned

\* A request commits: its region is now as it wrote it, and the rest as before.
LEMMA CommitWrites ==
  ASSUME Names!Assumption, Names!TypeOK, WorkIsWhole, NEW r \in Requests, Names!Commit(r)
  PROVE  /\ Names!TypeOK' /\ WorkIsWhole'
         /\ ChangesRegion => LET c == zoneChange[r] IN
              /\ ZoneOf(r) \in DomainNames
              /\ \A x \in Region(ZoneOf(r)) : x \in DomainNames =>
                   records'[x] = c.new.records[x] /\ tops'[x] = c.new.top[x]
              /\ \A x \in DomainNames \ Region(ZoneOf(r)) :
                   /\ records'[x] = records[x] /\ tops'[x] = tops[x]
                   /\ records[x] # None => serial'[x] = serial[x]
              /\ SavesZone(r) => serial'[ZoneOf(r)] = c.command.file.serial
  <1> DEFINE c == zoneChange[r]
  <1>1. Works(r) /\ zonePhase[r] = "open" /\ c \in Names!Changes
    BY DEF Names!Commit, WorkIsWhole, Works, Names!TypeOK
  <1>2. /\ records' = [d \in DomainNames |-> IF c.old.records[d] = c.new.records[d] THEN records[d]
                                             ELSE c.new.records[d]]
        /\ tops' = [d \in DomainNames |-> IF c.old.top[d] = c.new.top[d] THEN tops[d]
                                          ELSE c.new.top[d]]
        /\ serial' = [d \in DomainNames |->
             IF c.command.do = "save" /\ d = c.command.zone THEN c.command.file.serial
             ELSE IF c.old.records[d] = None /\ c.new.records[d] # None
             THEN Names!generate_zone_serial
             ELSE IF records'[d] = None THEN Names!NoSerial ELSE serial[d]]
        /\ zonePhase' = [zonePhase EXCEPT ![r] = "executes"]
        /\ UNCHANGED <<zoneToday, conf, zones, served, slave, copies, zoneChange, masterToDo,
           slaveToDo,
                       deleted, zoneOverlaps>>
    BY DEF Names!Commit, Names!Merge, Names!master
  <1>3. /\ c.command \in Names!Commands /\ c.old \in Names!RowsOfDomains
           /\ c.new \in Names!RowsOfDomains
    BY <1>1 DEF Names!Changes
  <1>4. c.command.do = "save" => c.command.file.serial \in Names!Serials
    BY <1>3 DEF Names!Commands, Names!Zones
  <1>5. Names!NoSerial \in Names!Serials /\ Names!generate_zone_serial \in Names!Serials
    BY DEF Names!TypeOK, Names!NoSerial, Names!generate_zone_serial, Names!Serials, Names!Assumption
  <1>6. c.command.zone \in DomainNames /\ ZoneOf(r) = c.command.zone
        /\ (SavesZone(r) <=> c.command.do = "save")
    BY <1>3 DEF Names!Commands, ZoneOf, SavesZone
  <1> HIDE DEF c
  <1>7. /\ records' \in [DomainNames -> Versions \cup {None}]
        /\ tops' \in [DomainNames -> DomainNames \cup {None}]
        /\ serial' \in [DomainNames -> Names!Serials]
    BY <1>2, <1>3, <1>4, <1>5 DEF Names!TypeOK, Names!RowsOfDomains
  <1>8. Names!TypeOK' /\ WorkIsWhole'
    BY <1>1, <1>2, <1>7 DEF Names!TypeOK, WorkIsWhole, Works
  <1>9. ASSUME ChangesRegion
        PROVE  /\ \A x \in Region(ZoneOf(r)) : x \in DomainNames =>
                    records'[x] = c.new.records[x] /\ tops'[x] = c.new.top[x]
               /\ \A x \in DomainNames \ Region(ZoneOf(r)) :
                    /\ records'[x] = records[x] /\ tops'[x] = tops[x]
                    /\ records[x] # None => serial'[x] = serial[x]
               /\ SavesZone(r) => serial'[ZoneOf(r)] = c.command.file.serial
    <2>1. /\ \A x \in Region(ZoneOf(r)) : records[x] = c.old.records[x] /\ tops[x] = c.old.top[x]
          /\ \A x \in DomainNames \ Region(ZoneOf(r)) :
               c.new.records[x] = c.old.records[x] /\ c.new.top[x] = c.old.top[x]
      BY <1>1, <1>9 DEF ChangesRegion, c
    <2>2. \A x \in DomainNames \ Region(ZoneOf(r)) : x # c.command.zone
      BY <1>6 DEF Region
    <2>3. QED BY <1>2, <1>6, <2>1, <2>2
  <1>10. QED
    BY <1>6, <1>8, <1>9 DEF c

\* A commit keeps zones aligned: it writes rows of its region, which no other changes.
LEMMA CommitKeepsZones ==
  ASSUME Names!Assumption, Names!TypeOK, WorkIsWhole, ZonesAligned, NEW r \in Requests,
         Names!Commit(r)
  PROVE  ZonesAligned'
  <1> DEFINE z == ZoneOf(r)
             c == zoneChange[r]
  <1>1. /\ z \in DomainNames
        /\ \A x \in Region(z) : x \in DomainNames
        /\ \A x \in Region(z) : records'[x] = c.new.records[x] /\ tops'[x] = c.new.top[x]
        /\ \A x \in DomainNames \ Region(z) :
             /\ records'[x] = records[x] /\ tops'[x] = tops[x]
             /\ records[x] # None => serial'[x] = serial[x]
        /\ SavesZone(r) => serial'[z] = c.command.file.serial
    BY CommitWrites, RegionsNest DEF ZonesAligned
  <1>2. /\ zonePhase[r] = "open" /\ Works(r)
        /\ zonePhase' = [zonePhase EXCEPT ![r] = "executes"]
        /\ UNCHANGED <<conf, zones, served, slave, copies, zoneChange, masterToDo, slaveToDo,
           deleted>>
    BY DEF Names!Commit, Names!master, Works
  <1>3. zonePhase'[r] = "executes" /\ \A q \in Requests \ {r} : zonePhase'[q] = zonePhase[q]
    BY <1>2 DEF Names!TypeOK
  <1>4. \A q \in Requests : /\ Works(q)' <=> Works(q)
                            /\ ZoneOf(q)' = ZoneOf(q) /\ SavesZone(q)' = SavesZone(q)
    BY <1>2, <1>3 DEF Works, ZoneOf, SavesZone
  <1>5. \A q \in Requests : Works(q) => ZoneOf(q) \in DomainNames
    BY DEF WorkIsWhole, Names!TypeOK, ZoneOf, Names!Changes, Names!Commands
  <1>6. \A q \in Requests : Works(q) /\ q # r => /\ ~ Names!Related(ZoneOf(q), z)
                                                 /\ Region(ZoneOf(q)) \cap Region(z) = {}
    BY <1>1, <1>2, <1>5, RegionsApart DEF Separate, ZonesAligned
  <1>7. r \in masterToDo /\ r \in slaveToDo
    BY <1>2 DEF WorkIsWhole
  <1>8. Intended(z, c.new, c.command)
    BY <1>2 DEF ChangesRegion, ZonesAligned
  <1>9. \A a \in Ancestors[z] : a \in DomainNames /\ a \notin Region(z) /\ records[a] = None
    BY <1>1, <1>2 DEF Separate, ZonesAligned, Region, Names!Subdomains, Names!Assumption
  <1>10. \A a \in Ancestors[z] : records'[a] = None
    BY <1>1, <1>9
  <1> HIDE DEF z, c
  <1>11. Separate'
    <2> SUFFICES ASSUME NEW q \in Requests, Works(q), NEW a \in Ancestors[ZoneOf(q)]
                 PROVE  records'[a] = None
      BY <1>4 DEF Separate, ZonesAligned, Names!Related
    <2>1. CASE q = r
      BY <1>10, <2>1 DEF z
    <2>2. CASE q # r
      <3>1. a \in DomainNames /\ records[a] = None
        BY <1>5 DEF Separate, ZonesAligned, Names!Assumption
      <3>2. a \notin Region(z)
        BY <1>1, <1>5, <1>6, <2>2, <3>1
           DEF Region, Names!Subdomains, Names!Related, Names!Assumption
      <3>3. QED BY <1>1, <3>1, <3>2
    <2>3. QED BY <2>1, <2>2
  <1>12. TopsRight'
    <2> SUFFICES ASSUME NEW d \in DomainNames
                 PROVE  IF records'[d] = None THEN tops'[d] = None ELSE IsHighest(records', d,
                    tops'[d])
      BY DEF TopsRight, IsHighest
    <2>1. CASE d \notin Region(z)
      <3>1. \A a \in Ancestors[d] : a \in DomainNames /\ a \notin Region(z)
        BY <1>1, <2>1 DEF Region, Names!Subdomains, Names!Assumption
      <3>2. \A a \in Ancestors[d] : records'[a] = records[a]
        BY <1>1, <3>1
      <3>3. \A a \in Ancestors[d] : Ancestors[a] \subseteq Ancestors[d]
        BY DEF Names!Assumption
      <3>4. QED BY <1>1, <2>1, <3>2, <3>3 DEF TopsRight, ZonesAligned, IsHighest
    <2>2. CASE d = z
      <3>1. d \in Region(z) /\ IsHighest(records', d, None)
        BY <1>10, <2>2 DEF IsHighest, Region
      <3>2. tops'[d] = None
        BY <1>1, <1>8, <2>2, <3>1 DEF Intended, IsZone
      <3>3. QED BY <3>1, <3>2
    <2>3. CASE d \in Names!Subdomains(z)
      <3>1. d \in Region(z) /\ z \in Region(z) /\ z \in Ancestors[d] /\ z # None
        BY <1>1, <2>3 DEF Region, Names!Subdomains, Names!Assumption
      <3>2. CASE c.command.do = "save"
        <4>1. records'[z] # None /\ tops'[d] = IF records'[d] = None THEN None ELSE z
          BY <1>1, <1>8, <2>3, <3>1, <3>2 DEF Intended, IsZone
        <4>2. IsHighest(records', d, z)
          BY <1>10, <3>1, <4>1 DEF IsHighest
        <4>3. QED BY <4>1, <4>2
      <3>3. CASE c.command.do # "save"
        BY <1>1, <1>8, <3>1, <3>3 DEF Intended
      <3>4. QED BY <3>2, <3>3
    <2>4. QED BY <2>1, <2>2, <2>3 DEF Region
  <1>13. ChangesRegion'
    <2> SUFFICES ASSUME NEW q \in Requests, Works(q)
                 PROVE  LET e == zoneChange[q] IN
                        /\ Intended(ZoneOf(q), e.new, e.command)
                        /\ zonePhase'[q] = "open" =>
                             /\ \A x \in Region(ZoneOf(q)) :
                                  records'[x] = e.old.records[x] /\ tops'[x] = e.old.top[x]
                             /\ \A x \in DomainNames \ Region(ZoneOf(q)) :
                                  e.new.records[x] = e.old.records[x] /\ e.new.top[x] = e.old.top[x]
                        /\ zonePhase'[q] = "executes" =>
                             /\ \A x \in Region(ZoneOf(q)) :
                                  records'[x] = e.new.records[x] /\ tops'[x] = e.new.top[x]
                             /\ SavesZone(q) => serial'[ZoneOf(q)] = e.command.file.serial
      BY <1>2, <1>4 DEF ChangesRegion
    <2>1. CASE q = r
      BY <1>1, <1>3, <1>8, <2>1 DEF z, c
    <2>2. CASE q # r
      <3>1. \A x \in Region(ZoneOf(q)) : x \in DomainNames \ Region(z)
        BY <1>5, <1>6, <2>2, RegionsNest
      <3>2. \A x \in Region(ZoneOf(q)) : records'[x] = records[x] /\ tops'[x] = tops[x]
        BY <1>1, <3>1
      <3>3. zonePhase[q] = "executes" /\ SavesZone(q) => serial'[ZoneOf(q)] = serial[ZoneOf(q)]
        <4> SUFFICES ASSUME zonePhase[q] = "executes", SavesZone(q)
                     PROVE  serial'[ZoneOf(q)] = serial[ZoneOf(q)]
          OBVIOUS
        <4>1. ZoneOf(q) \in Region(ZoneOf(q))
          BY DEF Region
        <4>2. records[ZoneOf(q)] # None
          BY <4>1 DEF ChangesRegion, ZonesAligned, Intended, IsZone, SavesZone
        <4>3. QED BY <1>1, <3>1, <4>1, <4>2
      <3>4. zonePhase'[q] = zonePhase[q]
        BY <1>3, <2>2
      <3>5. QED BY <3>2, <3>3, <3>4 DEF ChangesRegion, ZonesAligned
    <2>3. QED BY <2>1, <2>2
  <1>14. \A d \in DomainNames : /\ ToMaster(d)' <=> ToMaster(d)
                                /\ ToSlave(d)' <=> ToSlave(d)
                                /\ AtWorkOnZone(d)' <=> AtWorkOnZone(d)
    BY <1>2, <1>4 DEF ToMaster, ToSlave, AtWorkOnZone, Names!TypeOK
  <1>15. \A d \in DomainNames : (~ ToMaster(d) \/ ~ ToSlave(d)) => d \notin Region(z)
    BY <1>7 DEF ToMaster, ToSlave, z
  <1>16. Configured'
    <2>1. ASSUME NEW d \in DomainNames, d \notin Region(z)
          PROVE  /\ IsTop(d)' <=> IsTop(d)
                 /\ IsTop(d) => serial'[d] = serial[d]
                 /\ \A x \in Region(d) : x \in DomainNames =>
                    records'[x] = records[x] \/ x \in Region(z)
      BY <1>1, <2>1 DEF IsTop
    <2>2. ASSUME NEW d \in DomainNames, ~ ToMaster(d), d \in conf
          PROVE  Says(zones[d], d, records')
      <3>1. d \notin Region(z) /\ IsTop(d)
        BY <1>15, <2>2 DEF Configured, ZonesAligned
      <3>2. d \notin Ancestors[z]
        BY <1>9, <3>1 DEF IsTop
      <3>3. \A x \in Region(d) : x \notin Region(z)
        BY <1>1, <3>1, <3>2 DEF Region, Names!Subdomains, Names!Assumption
      <3>4. \A x \in DomainNames : x \in Region(d) => records'[x] = records[x]
        BY <1>1, <3>3
      <3>5. Says(zones[d], d, records)
        BY <2>2 DEF Configured, ZonesAligned
      <3>6. QED BY <3>4, <3>5 DEF Says
    <2>3. QED BY <1>2, <1>14, <1>15, <2>1, <2>2 DEF Configured, ZonesAligned
  <1>17. NoneBelow' /\ ServedRest' /\ CopiesKept'
    BY <1>2, <1>4, <1>14 DEF NoneBelow, ServedRest, CopiesKept, ZonesAligned, Names!TypeOK
  <1>18. SerialsGrow'
    BY <1>2, <1>4 DEF SerialsGrow, ZonesAligned, NewerOrSame, Newer, Names!TypeOK
  <1>19. QED
    BY <1>11, <1>12, <1>13, <1>16, <1>17, <1>18 DEF ZonesAligned

\* Scripts, the end of requests, transfers and midnight write no rows.
KeepsRows ==
  /\ UNCHANGED <<records, tops, serial, zoneOverlaps>>
  /\ \A q \in Requests : Works(q)' => Works(q) /\ zoneChange'[q] = zoneChange[q]
                                      /\ zonePhase'[q] = zonePhase[q]

\* Where rows and requests stay so do the parts of the invariant about them.
LEMMA RowsStay ==
  ASSUME KeepsRows, ZonesAligned
  PROVE  Separate' /\ TopsRight' /\ ChangesRegion'
  <1>1. \A q \in Requests : Works(q)' => ZoneOf(q)' = ZoneOf(q) /\ SavesZone(q)' = SavesZone(q)
    BY DEF KeepsRows, ZoneOf, SavesZone
  <1>2. Separate'
    BY <1>1 DEF KeepsRows, Separate, ZonesAligned, Names!Related
  <1>3. TopsRight'
    BY DEF KeepsRows, TopsRight, ZonesAligned, IsHighest
  <1>4. ChangesRegion'
    BY <1>1 DEF KeepsRows, ChangesRegion, ZonesAligned
  <1>5. QED
    BY <1>2, <1>3, <1>4

\* What is known of the zones of those whose scripts are to come.
LEMMA ZonesOfScripts ==
  ASSUME Names!Assumption, Names!TypeOK, WorkIsWhole, ZonesAligned
  PROVE  /\ \A r \in Requests : Works(r) =>
              /\ ZoneOf(r) \in DomainNames /\ ZoneOf(r) \in Region(ZoneOf(r))
              /\ Names!Subdomains(ZoneOf(r)) \subseteq Region(ZoneOf(r))
              /\ ZoneOf(r) \notin Names!Subdomains(ZoneOf(r))
              /\ Region(ZoneOf(r)) \subseteq DomainNames
              /\ zoneChange[r] \in Names!Changes
         /\ \A r, q \in Requests : Works(r) /\ Works(q) /\ q # r =>
              Region(ZoneOf(q)) \cap Region(ZoneOf(r)) = {}
         /\ \A r \in masterToDo \cup slaveToDo : r \in Requests /\ Works(r)
  <1>1. \A r \in Requests : Works(r) => zoneChange[r] \in Names!Changes
    BY DEF WorkIsWhole, Names!TypeOK
  <1>2. \A r \in Requests : Works(r) => ZoneOf(r) \in DomainNames
    BY <1>1 DEF ZoneOf, Names!Changes, Names!Commands
  <1>3. \A r, q \in Requests : Works(r) /\ Works(q) /\ q # r =>
          Region(ZoneOf(q)) \cap Region(ZoneOf(r)) = {}
    BY <1>2, RegionsApart DEF Separate, ZonesAligned
  <1>4. \A r \in Requests : Works(r) => Region(ZoneOf(r)) \subseteq DomainNames
    BY <1>2, RegionsNest
  <1>5. \A z \in DomainNames : z \in Region(z) /\ Names!Subdomains(z) \subseteq Region(z)
                               /\ z \notin Names!Subdomains(z)
    BY DEF Region, Names!Subdomains, Names!Assumption
  <1>6. \A r \in masterToDo \cup slaveToDo : r \in Requests /\ Works(r)
    BY DEF WorkIsWhole, Names!TypeOK
  <1>7. QED
    BY <1>1, <1>2, <1>3, <1>4, <1>5, <1>6

\* The script of a request runs on the master.
MasterRuns(r) == Names!MasterSave(r) \/ Names!MasterDelete(r)

\* What the script on the master leaves alone.
LEMMA MasterRunsTypes ==
  ASSUME Names!Assumption, Names!TypeOK, WorkIsWhole, NEW r \in Requests, MasterRuns(r)
  PROVE  /\ Names!TypeOK' /\ WorkIsWhole' /\ KeepsRows
         /\ zonePhase[r] = "executes" /\ r \in masterToDo /\ masterToDo' = masterToDo \ {r}
         /\ UNCHANGED <<records, tops, serial, served, slave, copies, zoneChange, slaveToDo, deleted,
                        zonePhase>>
  <1>1. /\ UNCHANGED <<zoneToday, records, tops, serial, served, slave, copies, zonePhase,
           zoneChange,
                       slaveToDo, deleted, zoneOverlaps>>
        /\ zonePhase[r] = "executes" /\ r \in masterToDo /\ masterToDo' = masterToDo \ {r}
    BY DEF MasterRuns, Names!MasterSave, Names!MasterDelete, Names!db
  <1>2. zoneChange[r] \in Names!Changes
    BY <1>1 DEF WorkIsWhole, Works, Names!TypeOK
  <1>3. zoneChange[r].command \in Names!Commands
    BY <1>2 DEF Names!Changes
  <1>4. zoneChange[r].command.do = "save" => zoneChange[r].command.file \in Names!Zones
    BY <1>3 DEF Names!Commands
  <1>5. zoneChange[r].command.zone \in DomainNames
    BY <1>3 DEF Names!Commands
  <1>6. conf' \subseteq DomainNames /\ zones' \in [DomainNames -> Names!Zones \cup {None}]
    <2>1. CASE Names!MasterSave(r)
      BY <1>4, <1>5, <2>1 DEF Names!MasterSave, Names!TypeOK
    <2>2. CASE Names!MasterDelete(r)
      BY <1>5, <2>2 DEF Names!MasterDelete, Names!TypeOK
    <2>3. QED BY <2>1, <2>2 DEF MasterRuns
  <1>7. Names!TypeOK'
    BY <1>1, <1>6 DEF Names!TypeOK
  <1>8. WorkIsWhole' /\ KeepsRows
    BY <1>1 DEF WorkIsWhole, KeepsRows, Works
  <1>9. QED
    BY <1>1, <1>7, <1>8

\* What it leaves: of its region only the zone it saves, if any.
LEMMA MasterWrites ==
  ASSUME Names!Assumption, Names!TypeOK, WorkIsWhole, ZonesAligned, NEW r \in Requests,
         MasterRuns(r)
  PROVE  /\ \A d \in DomainNames \ Region(ZoneOf(r)) : (d \in conf' <=> d \in conf)
            /\ zones'[d] = zones[d]
         /\ \A d \in Names!Subdomains(ZoneOf(r)) : d \notin conf' /\ zones'[d] = None
         /\ SavesZone(r) => ZoneOf(r) \in conf' /\ zones'[ZoneOf(r)] = zoneChange[r].command.file
         /\ ~ SavesZone(r) => ZoneOf(r) \notin conf' /\ zones'[ZoneOf(r)] = None
  <1> DEFINE z == ZoneOf(r)
  <1>1. Works(r) /\ r \in masterToDo
    BY MasterRunsTypes DEF Works
  <1>2. /\ z \in DomainNames /\ z \in Region(z) /\ Names!Subdomains(z) \subseteq Region(z)
        /\ z \notin Names!Subdomains(z) /\ Region(z) \subseteq DomainNames
    BY <1>1, ZonesOfScripts
  <1>3. zoneChange[r].command.zone = z /\ (SavesZone(r) <=> zoneChange[r].command.do = "save")
    BY DEF ZoneOf, SavesZone
  <1> HIDE DEF z
  <1>4. CASE Names!MasterSave(r)
    <2>1. /\ zones' = [d \in DomainNames |-> IF d = z THEN zoneChange[r].command.file
                                             ELSE IF d \in Names!Subdomains(z) THEN None ELSE zones[d]]
          /\ conf' = (conf \cup {z}) \ Names!Subdomains(z)
          /\ SavesZone(r)
      BY <1>3, <1>4 DEF Names!MasterSave
    <2>2. QED BY <1>2, <2>1 DEF z
  <1>5. CASE Names!MasterDelete(r)
    <2>1. zones' = [zones EXCEPT ![z] = None] /\ conf' = conf \ {z} /\ ~ SavesZone(r)
      BY <1>3, <1>5 DEF Names!MasterDelete
    <2>2. conf \cap Names!Subdomains(z) = {}
      BY <1>1, <2>1 DEF NoneBelow, ZonesAligned, z
    <2>3. \A d \in Names!Subdomains(z) : d \in DomainNames /\ d \notin conf /\ zones[d] = None
      BY <1>2, <2>2 DEF Configured, ZonesAligned
    <2>4. QED BY <1>2, <2>1, <2>3 DEF Names!TypeOK, z
  <1>6. QED
    BY <1>4, <1>5 DEF MasterRuns

\* The script on the master configures the zone as its request has written it.
LEMMA MasterKeepsZones ==
  ASSUME Names!Assumption, Names!TypeOK, WorkIsWhole, ZonesAligned, NEW r \in Requests,
         MasterRuns(r)
  PROVE  ZonesAligned'
  <1> DEFINE z == ZoneOf(r)
             f == zoneChange[r].command.file
  <1>1. /\ KeepsRows /\ zonePhase[r] = "executes" /\ Works(r)
        /\ r \in masterToDo /\ masterToDo' = masterToDo \ {r}
        /\ UNCHANGED <<records, tops, serial, served, slave, copies, zoneChange, slaveToDo, deleted,
           zonePhase>>
    BY MasterRunsTypes DEF Works
  <1>2. Separate' /\ TopsRight' /\ ChangesRegion'
    BY <1>1, RowsStay
  <1>3. /\ z \in DomainNames /\ z \in Region(z) /\ Names!Subdomains(z) \subseteq Region(z)
        /\ Region(z) \subseteq DomainNames
    BY <1>1, ZonesOfScripts
  <1>4. \A q \in masterToDo \cup slaveToDo : q \in Requests /\ Works(q)
    BY ZonesOfScripts
  <1>5. \A q \in Requests : Works(q) /\ q # r => Region(ZoneOf(q)) \cap Region(z) = {}
    BY <1>1, ZonesOfScripts
  <1>6. \A q \in Requests : /\ ZoneOf(q)' = ZoneOf(q) /\ SavesZone(q)' = SavesZone(q)
                            /\ Works(q)' = Works(q)
    BY <1>1 DEF ZoneOf, SavesZone, Works
  <1>7. /\ \A d \in DomainNames \ Region(z) : (d \in conf' <=> d \in conf) /\ zones'[d] = zones[d]
        /\ \A d \in Names!Subdomains(z) : d \notin conf' /\ zones'[d] = None
        /\ SavesZone(r) => z \in conf' /\ zones'[z] = f
        /\ ~ SavesZone(r) => z \notin conf' /\ zones'[z] = None
    BY MasterWrites
  <1>8. /\ Intended(z, zoneChange[r].new, zoneChange[r].command)
        /\ \A x \in Region(z) : records[x] = zoneChange[r].new.records[x]
           /\ tops[x] = zoneChange[r].new.top[x]
        /\ SavesZone(r) => serial[z] = f.serial
    BY <1>1 DEF ChangesRegion, ZonesAligned
  <1>9. SavesZone(r) => f \in Names!Zones /\ f # None
    <2>1. zoneChange[r] \in Names!Changes
      BY <1>1, ZonesOfScripts
    <2>2. zoneChange[r].command \in Names!Commands
      BY <2>1 DEF Names!Changes
    <2>3. QED BY <2>2 DEF Names!Commands, SavesZone, Names!Assumption
  <1>10. SavesZone(r) <=> zoneChange[r].command.do = "save"
    BY DEF SavesZone
  <1>11. z # None
    BY <1>3 DEF Names!Assumption
  <1>12. \A q \in masterToDo \cup slaveToDo : q # r => ZoneOf(q) \notin Region(z)
    BY <1>4, <1>5, ZonesOfScripts
  <1>13. \A x \in Region(z) : x = z \/ x \in Names!Subdomains(z)
    BY DEF Region
  <1> HIDE DEF z, f
  <1>14. \A d \in DomainNames : /\ d \notin Region(z) => (ToMaster(d)' <=> ToMaster(d))
                                /\ ToSlave(d)' <=> ToSlave(d)
                                /\ AtWorkOnZone(d)' <=> AtWorkOnZone(d)
    BY <1>1, <1>4, <1>6 DEF ToMaster, ToSlave, AtWorkOnZone, z
  <1>15. Configured'
    <2>1. \A d \in DomainNames : zones'[d] # None <=> d \in conf'
      BY <1>7, <1>9, <1>13 DEF Configured, ZonesAligned
    <2>2. ASSUME NEW d \in DomainNames, ~ ToMaster(d)', d \notin Region(z)
          PROVE  /\ d \in conf' <=> IsTop(d)
                 /\ d \in conf' => Says(zones'[d], d, records) /\ zones'[d].serial = serial[d]
      BY <1>7, <1>14, <2>2 DEF Configured, ZonesAligned
    <2>3. ASSUME NEW d \in Names!Subdomains(z)
          PROVE  d \notin conf' /\ ~ IsTop(d)
      BY <1>3, <1>7, <1>8, <1>11, <2>3 DEF Intended, IsZone, IsTop
    <2>4. (z \in conf' <=> IsTop(z))
      BY <1>3, <1>7, <1>8, <1>10 DEF Intended, IsZone, IsTop
    <2>5. z \in conf' => Says(zones'[z], z, records) /\ zones'[z].serial = serial[z]
      <3> SUFFICES ASSUME SavesZone(r) PROVE Says(f, z, records) /\ f.serial = serial[z]
        BY <1>7
      <3>1. Says(f, z, zoneChange[r].new.records)
        BY <1>8, <1>10 DEF Intended, f
      <3>2. QED BY <1>8, <3>1 DEF Says
    <2>6. ASSUME NEW d \in DomainNames, ~ ToMaster(d)'
          PROVE  /\ d \in conf' <=> IsTop(d)
                 /\ d \in conf' => Says(zones'[d], d, records) /\ zones'[d].serial = serial[d]
      BY <1>13, <2>2, <2>3, <2>4, <2>5, <2>6
    <2>7. \A d \in DomainNames : ~ ToSlave(d)' => (d \in slave' <=> IsTop(d))
      BY <1>1, <1>14 DEF Configured, ZonesAligned
    <2>8. QED BY <1>1, <2>1, <2>6, <2>7 DEF Configured, IsTop, Says
  <1>16. NoneBelow'
    <2>1. ASSUME NEW q \in masterToDo', ~ SavesZone(q)
          PROVE  conf' \cap Names!Subdomains(ZoneOf(q)) = {}
      <3>1. q \in masterToDo /\ q # r /\ q \in Requests /\ Works(q)
        BY <1>1, <1>4, <2>1
      <3>2. conf \cap Names!Subdomains(ZoneOf(q)) = {}
        BY <2>1, <3>1 DEF NoneBelow, ZonesAligned
      <3>3. \A x \in Names!Subdomains(ZoneOf(q)) : x \in DomainNames \ Region(z)
        BY <1>5, <3>1, ZonesOfScripts
      <3>4. QED BY <1>7, <3>2, <3>3
    <2>2. QED BY <1>1, <1>4, <1>6, <2>1 DEF NoneBelow, ZonesAligned
  <1>17. ServedRest'
    <2>1. \A d \in Region(z) : AtWorkOnZone(d)
      BY <1>1 DEF AtWorkOnZone, z
    <2>2. QED BY <1>1, <1>3, <1>7, <1>14, <2>1 DEF ServedRest, ZonesAligned
  <1>18. CopiesKept'
    BY <1>1 DEF CopiesKept, ZonesAligned
  <1>19. SerialsGrow'
    <2>1. SavesZone(r) => Newer(f, served[z]) /\ (z \notin deleted => Newer(f, copies[z]))
      BY <1>1 DEF SerialsGrow, ZonesAligned, z, f
    <2>2. ASSUME NEW d \in DomainNames
          PROVE  NewerOrSame(zones'[d], served[d])
             /\ (d \notin deleted => NewerOrSame(zones'[d], copies[d]))
      BY <1>7, <1>13, <2>1 DEF SerialsGrow, ZonesAligned, NewerOrSame, Newer
    <2>3. ASSUME NEW q \in masterToDo', SavesZone(q)
          PROVE  Newer(zoneChange[q].command.file, zones'[ZoneOf(q)])
      <3>1. q \in masterToDo /\ q # r /\ ZoneOf(q) \in DomainNames \ Region(z)
        BY <1>1, <1>4, <1>12, ZonesOfScripts
      <3>2. QED BY <1>7, <2>3, <3>1 DEF SerialsGrow, ZonesAligned
    <2>4. QED BY <1>1, <1>4, <1>6, <2>2, <2>3 DEF SerialsGrow, ZonesAligned
  <1>20. QED
    BY <1>2, <1>15, <1>16, <1>17, <1>18, <1>19 DEF ZonesAligned

\* The script of a request runs on the slave.
LEMMA SlaveRunsTypes ==
  ASSUME Names!Assumption, Names!TypeOK, WorkIsWhole, NEW r \in Requests, Names!SlaveRuns(r)
  PROVE  Names!TypeOK' /\ WorkIsWhole' /\ KeepsRows
  <1>1. /\ UNCHANGED <<zoneToday, records, tops, serial, conf, zones, served, copies, zonePhase,
                       zoneChange, masterToDo, zoneOverlaps>>
        /\ slaveToDo' = slaveToDo \ {r} /\ zonePhase[r] = "executes"
        /\ deleted' = deleted \cup {d \in slave \ slave' : copies[d] # None}
    BY DEF Names!SlaveRuns, Names!db, Names!master
  <1>2. zoneChange[r] \in Names!Changes
    BY <1>1 DEF WorkIsWhole, Works, Names!TypeOK
  <1>3. zoneChange[r].command \in Names!Commands
    BY <1>2 DEF Names!Changes
  <1>4. zoneChange[r].command.zone \in DomainNames
    BY <1>3 DEF Names!Commands
  <1>5. slave' \subseteq DomainNames
    BY <1>4 DEF Names!SlaveRuns, Names!TypeOK
  <1>6. Names!TypeOK'
    BY <1>1, <1>5 DEF Names!TypeOK
  <1>7. WorkIsWhole' /\ KeepsRows
    BY <1>1 DEF WorkIsWhole, KeepsRows, Works
  <1>8. QED
    BY <1>6, <1>7

\* The script on the slave keeps zones aligned: it lists what the master has.
LEMMA SlaveKeepsZones ==
  ASSUME Names!Assumption, Names!TypeOK, WorkIsWhole, ZonesAligned, NEW r \in Requests,
         Names!SlaveRuns(r)
  PROVE  ZonesAligned'
  <1> DEFINE z == ZoneOf(r)
  <1>1. /\ UNCHANGED <<records, tops, serial, conf, zones, served, copies, zonePhase, zoneChange,
                       masterToDo>>
        /\ slaveToDo' = slaveToDo \ {r} /\ zonePhase[r] = "executes" /\ Works(r) /\ r \in slaveToDo
        /\ deleted' = deleted \cup {d \in slave \ slave' : copies[d] # None}
        /\ slave' = IF SavesZone(r) THEN (slave \cup {z}) \ Names!Subdomains(z) ELSE slave \ {z}
    BY DEF Names!SlaveRuns, Names!db, Names!master, Works, SavesZone, ZoneOf
  <1>2. Separate' /\ TopsRight' /\ ChangesRegion'
    BY SlaveRunsTypes, RowsStay
  <1>3. /\ z \in DomainNames /\ z \in Region(z) /\ Names!Subdomains(z) \subseteq Region(z)
        /\ z \notin Names!Subdomains(z) /\ Region(z) \subseteq DomainNames
    BY <1>1, ZonesOfScripts
  <1>4. \A q \in masterToDo \cup slaveToDo : q \in Requests /\ Works(q)
    BY ZonesOfScripts
  <1>5. \A q \in Requests : Works(q) /\ q # r => Region(ZoneOf(q)) \cap Region(z) = {}
    BY <1>1, ZonesOfScripts
  <1>6. \A q \in Requests : /\ ZoneOf(q)' = ZoneOf(q) /\ SavesZone(q)' = SavesZone(q)
                            /\ Works(q)' = Works(q)
    BY <1>1 DEF ZoneOf, SavesZone, Works
  <1>7. /\ Intended(z, zoneChange[r].new, zoneChange[r].command)
        /\ \A x \in Region(z) : records[x] = zoneChange[r].new.records[x]
           /\ tops[x] = zoneChange[r].new.top[x]
    BY <1>1 DEF ChangesRegion, ZonesAligned
  <1>8. SavesZone(r) <=> zoneChange[r].command.do = "save"
    BY DEF SavesZone
  <1>9. z # None
    BY <1>3 DEF Names!Assumption
  <1>10. \A x \in Region(z) : x = z \/ x \in Names!Subdomains(z)
    BY DEF Region
  <1>11. ~ SavesZone(r) => slave \cap Names!Subdomains(z) = {}
    BY <1>1 DEF NoneBelow, ZonesAligned, z
  <1> HIDE DEF z
  <1>12. \A d \in DomainNames : /\ d \notin Region(z) => (ToSlave(d)' <=> ToSlave(d))
                                /\ ToMaster(d)' <=> ToMaster(d)
                                /\ AtWorkOnZone(d)' <=> AtWorkOnZone(d)
    BY <1>1, <1>4, <1>6 DEF ToMaster, ToSlave, AtWorkOnZone, z
  <1>13. \A d \in DomainNames \ Region(z) : d \in slave' <=> d \in slave
    BY <1>1, <1>3
  <1>14. \A d \in Region(z) : d \in slave' <=> IsTop(d)
    <2>1. z \in slave' <=> IsTop(z)
      BY <1>1, <1>3, <1>7, <1>8 DEF Intended, IsZone, IsTop
    <2>2. ASSUME NEW d \in Names!Subdomains(z) PROVE d \notin slave' /\ ~ IsTop(d)
      <3>1. d \notin slave'
        BY <1>1, <1>11, <2>2
      <3>2. d \in Region(z)
        BY <1>3
      <3>3. ~ IsTop(d)
        BY <1>7, <1>9, <3>2 DEF Intended, IsZone, IsTop
      <3>4. QED BY <3>1, <3>3
    <2>3. QED BY <1>10, <2>1, <2>2
  <1>15. Configured'
    <2>1. \A d \in DomainNames : ~ ToSlave(d)' => (d \in slave' <=> IsTop(d))
      BY <1>12, <1>13, <1>14 DEF Configured, ZonesAligned
    <2>2. QED BY <1>1, <1>12, <2>1 DEF Configured, ZonesAligned, IsTop, Says
  <1>16. NoneBelow'
    <2>1. ASSUME NEW q \in slaveToDo', ~ SavesZone(q)
          PROVE  slave' \cap Names!Subdomains(ZoneOf(q)) = {}
      <3>1. q \in slaveToDo /\ q # r /\ q \in Requests /\ Works(q)
        BY <1>1, <1>4, <2>1
      <3>2. slave \cap Names!Subdomains(ZoneOf(q)) = {}
        BY <2>1, <3>1 DEF NoneBelow, ZonesAligned
      <3>3. \A x \in Names!Subdomains(ZoneOf(q)) : x \in DomainNames \ Region(z)
        BY <1>5, <3>1, ZonesOfScripts
      <3>4. QED BY <1>13, <3>2, <3>3
    <2>2. QED BY <1>1, <1>4, <1>6, <2>1 DEF NoneBelow, ZonesAligned
  <1>17. ServedRest'
    BY <1>1, <1>12 DEF ServedRest, ZonesAligned
  <1>18. CopiesKept'
    BY <1>1 DEF CopiesKept, ZonesAligned
  <1>19. SerialsGrow'
    BY <1>1, <1>4, <1>6 DEF SerialsGrow, ZonesAligned
  <1>20. QED
    BY <1>2, <1>15, <1>16, <1>17, <1>18, <1>19 DEF ZonesAligned

\* The master restarts, and the request ends.
LEMMA RestartKeepsZones ==
  ASSUME Names!Assumption, Names!TypeOK, WorkIsWhole, NEW r \in Requests, Names!Restart(r)
  PROVE  Names!TypeOK' /\ WorkIsWhole' /\ KeepsRows /\ (ZonesAligned => ZonesAligned')
  <1>1. /\ served' = [d \in DomainNames |-> IF d \in conf THEN zones[d] ELSE None]
        /\ zonePhase' = [zonePhase EXCEPT ![r] = "none"]
        /\ zoneChange' = [zoneChange EXCEPT ![r] = None]
        /\ r \notin masterToDo /\ r \notin slaveToDo
        /\ UNCHANGED <<zoneToday, records, tops, serial, conf, zones, slave, copies, masterToDo,
                       slaveToDo, deleted, zoneOverlaps>>
    BY DEF Names!Restart, Names!db
  <1>2. Names!TypeOK'
    BY <1>1 DEF Names!TypeOK
  <1>3. \A q \in Requests : /\ Works(q)' <=> Works(q) /\ q # r
                            /\ q # r => zonePhase'[q] = zonePhase[q]
                               /\ zoneChange'[q] = zoneChange[q]
    BY <1>1 DEF Names!TypeOK, Works
  <1>4. WorkIsWhole' /\ KeepsRows
    BY <1>1, <1>3 DEF WorkIsWhole, KeepsRows, Works, Names!TypeOK
  <1>5. ASSUME ZonesAligned PROVE ZonesAligned'
    <2>1. Separate' /\ TopsRight' /\ ChangesRegion'
      BY <1>4, <1>5, RowsStay
    <2>2. \A q \in masterToDo \cup slaveToDo : q \in Requests /\ q # r
      BY <1>1 DEF Names!TypeOK
    <2>3. \A q \in masterToDo \cup slaveToDo : ZoneOf(q)' = ZoneOf(q) /\ SavesZone(q)' = SavesZone(q)
                                               /\ zoneChange'[q] = zoneChange[q]
      BY <1>3, <2>2 DEF ZoneOf, SavesZone
    <2>4. \A d \in DomainNames : (ToMaster(d)' <=> ToMaster(d)) /\ (ToSlave(d)' <=> ToSlave(d))
      BY <1>1, <2>3 DEF ToMaster, ToSlave
    <2>5. Configured' /\ NoneBelow'
      BY <1>1, <1>5, <2>3, <2>4 DEF Configured, NoneBelow, ZonesAligned, IsTop, Says
    <2>6. ServedRest' /\ CopiesKept'
      BY <1>1, <1>5 DEF ServedRest, CopiesKept, ZonesAligned
    <2>7. \A d \in DomainNames : served'[d] = zones[d]
      BY <1>1, <1>5 DEF Configured, ZonesAligned
    <2>8. \A q \in masterToDo : SavesZone(q) => ZoneOf(q) \in DomainNames
      BY <1>4, <1>5, <2>2, ZonesOfScripts
    <2>9. SerialsGrow'
      BY <1>1, <1>5, <2>3, <2>7, <2>8 DEF SerialsGrow, ZonesAligned, NewerOrSame
    <2>10. QED BY <2>1, <2>5, <2>6, <2>9 DEF ZonesAligned
  <1>6. QED
    BY <1>2, <1>4, <1>5

\* The slave transfers a zone.
LEMMA TransferKeepsZones ==
  ASSUME Names!Assumption, Names!TypeOK, WorkIsWhole, NEW d \in DomainNames, Names!Transfer(d)
  PROVE  Names!TypeOK' /\ WorkIsWhole' /\ KeepsRows /\ (ZonesAligned => ZonesAligned')
  <1>1. /\ copies' = [copies EXCEPT ![d] = served[d]] /\ d \in slave
        /\ UNCHANGED <<zoneToday, records, tops, serial, conf, zones, served, slave, zonePhase,
                       zoneChange, masterToDo, slaveToDo, deleted, zoneOverlaps>>
    BY DEF Names!Transfer, Names!MayTransfer, Names!db, Names!master, Names!work
  <1>2. Names!TypeOK'
    BY <1>1 DEF Names!TypeOK
  <1>3. WorkIsWhole' /\ KeepsRows
    BY <1>1 DEF WorkIsWhole, KeepsRows, Works
  <1>4. ASSUME ZonesAligned PROVE ZonesAligned'
    <2>1. Separate' /\ TopsRight' /\ ChangesRegion'
      BY <1>3, <1>4, RowsStay
    <2>2. \A q \in masterToDo \cup slaveToDo : ZoneOf(q)' = ZoneOf(q) /\ SavesZone(q)' = SavesZone(q)
      BY <1>1 DEF ZoneOf, SavesZone
    <2>3. \A x \in DomainNames : /\ ToMaster(x)' <=> ToMaster(x)
                                 /\ ToSlave(x)' <=> ToSlave(x)
                                 /\ AtWorkOnZone(x)' <=> AtWorkOnZone(x)
      BY <1>1, <2>2 DEF ToMaster, ToSlave, AtWorkOnZone, Works, ZoneOf
    <2>4. Configured' /\ NoneBelow' /\ ServedRest'
      BY <1>1, <1>4, <2>2, <2>3 DEF Configured, NoneBelow, ServedRest, ZonesAligned, IsTop, Says
    <2>5. copies'[d] = served[d] /\ \A x \in DomainNames \ {d} : copies'[x] = copies[x]
      BY <1>1 DEF Names!TypeOK
    <2>6. CopiesKept'
      BY <1>1, <1>4, <2>5 DEF CopiesKept, ZonesAligned
    <2>7. \A q \in masterToDo : SavesZone(q) => ZoneOf(q) \in DomainNames
      BY <1>4, ZonesOfScripts
    <2>8. SerialsGrow'
      BY <1>1, <1>4, <2>2, <2>5, <2>7 DEF SerialsGrow, ZonesAligned, NewerOrSame
    <2>9. QED BY <2>1, <2>4, <2>6, <2>8 DEF ZonesAligned
  <1>5. QED
    BY <1>2, <1>3, <1>4

\* Neither midnight nor another component does anything to zones.
LEMMA ZonesStay ==
  ASSUME Names!Assumption, Names!TypeOK, WorkIsWhole, Names!Midnight \/ UNCHANGED Names!vars
  PROVE  /\ Names!TypeOK' /\ WorkIsWhole' /\ (ZonesAligned => ZonesAligned')
         /\ zoneOverlaps' = zoneOverlaps
  <1>1. UNCHANGED <<records, tops, serial, conf, zones, served, slave, copies, zonePhase,
                    zoneChange, masterToDo, slaveToDo, deleted, zoneOverlaps>>
    BY DEF Names!Midnight, Names!db, Names!master, Names!work, Names!vars
  <1>2. zoneToday' \in 0 .. MaxZoneDay
    BY DEF Names!Midnight, Names!vars, Names!TypeOK, Names!Assumption
  <1>3. Names!TypeOK'
    BY <1>1, <1>2 DEF Names!TypeOK
  <1>4. WorkIsWhole' /\ KeepsRows
    BY <1>1 DEF WorkIsWhole, Works, KeepsRows
  <1>5. ASSUME ZonesAligned PROVE ZonesAligned'
    <2>1. Separate' /\ TopsRight' /\ ChangesRegion'
      BY <1>4, <1>5, RowsStay
    <2>2. Configured' /\ NoneBelow' /\ ServedRest' /\ CopiesKept' /\ SerialsGrow'
      BY <1>1, <1>5
         DEF Configured, NoneBelow, ServedRest, CopiesKept, SerialsGrow, ZonesAligned, IsTop, Says,
             ToMaster, ToSlave, AtWorkOnZone, Works, ZoneOf, SavesZone, NewerOrSame, Newer
    <2>3. QED BY <2>1, <2>2 DEF ZonesAligned
  <1>6. QED
    BY <1>1, <1>3, <1>4, <1>5

\* The invariant holds from the beginning and every step keeps it.
LEMMA ZonesInvariant ==
  ASSUME Names!Assumption
  PROVE  Names!Spec => []ZonesInv
  <1>1. Names!Init => ZonesInv
    <2> SUFFICES ASSUME Names!Init PROVE ZonesInv
      OBVIOUS
    <2>1. /\ zoneToday = 0 /\ masterToDo = {} /\ slaveToDo = {} /\ conf = {} /\ slave = {}
          /\ deleted = {} /\ zoneOverlaps = {}
          /\ records = [d \in DomainNames |-> None] /\ tops = [d \in DomainNames |-> None]
          /\ zones = [d \in DomainNames |-> None] /\ served = [d \in DomainNames |-> None]
          /\ copies = [d \in DomainNames |-> None]
          /\ serial = [d \in DomainNames |-> Names!NoSerial]
          /\ zonePhase = [r \in Requests |-> "none"] /\ zoneChange = [r \in Requests |-> None]
      BY DEF Names!Init, Names!Nothing
    <2>2. Names!TypeOK
      BY <2>1 DEF Names!TypeOK, Names!NoSerial, Names!Serials, Names!Assumption
    <2>3. \A r \in Requests : ~ Works(r)
      BY <2>1 DEF Works
    <2>4. WorkIsWhole
      BY <2>1, <2>3 DEF WorkIsWhole, Works
    <2>5. Separate /\ TopsRight /\ ChangesRegion
      BY <2>1, <2>3 DEF Separate, TopsRight, ChangesRegion
    <2>6. Configured /\ NoneBelow /\ ServedRest /\ CopiesKept /\ SerialsGrow
      BY <2>1 DEF Configured, NoneBelow, ServedRest, CopiesKept, SerialsGrow, IsTop, NewerOrSame
    <2>7. QED BY <2>2, <2>4, <2>5, <2>6 DEF ZonesInv, ZonesAligned
  <1>2. ZonesInv /\ [Names!Next]_(Names!vars) => ZonesInv'
    <2> SUFFICES ASSUME ZonesInv, [Names!Next]_(Names!vars) PROVE ZonesInv'
      OBVIOUS
    <2>1. Names!TypeOK /\ WorkIsWhole /\ (zoneOverlaps = {} => ZonesAligned)
      BY DEF ZonesInv
    <2>2. ASSUME NEW r \in Requests, NEW d \in DomainNames,
                 Names!Create(r, d) \/ Names!ChangeRecords(r, d) \/ Names!Delete(r, d)
          PROVE  ZonesInv'
      <3>1. PICK newRows, newTops, command :
              /\ Names!Requested(r, newRows, newTops, command) /\ TypedRequest(newRows, newTops, command)
              /\ TopsRight => ProperRequest(newRows, newTops, command)
        BY <2>1, <2>2, CreateIsProper, ChangeIsProper, DeleteIsProper
      <3>2. Names!TypeOK' /\ WorkIsWhole'
        BY <2>1, <3>1, RequestKeepsTypes
      <3>3. zoneOverlaps' = {} => zoneOverlaps = {}
        BY <3>1 DEF Names!Requested
      <3>4. zoneOverlaps' = {} => ZonesAligned'
        BY <2>1, <3>1, <3>3, RequestKeepsZones DEF ZonesAligned
      <3>5. QED BY <3>2, <3>4 DEF ZonesInv
    <2>3. ASSUME NEW r \in Requests, Names!Commit(r) PROVE ZonesInv'
      <3>1. zoneOverlaps' = zoneOverlaps
        BY <2>3 DEF Names!Commit
      <3>2. QED BY <2>1, <2>3, <3>1, CommitWrites, CommitKeepsZones DEF ZonesInv
    <2>4. ASSUME NEW r \in Requests, Names!MasterSave(r) \/ Names!MasterDelete(r) PROVE ZonesInv'
      <3>1. MasterRuns(r)
        BY <2>4 DEF MasterRuns
      <3>2. QED BY <2>1, <3>1, MasterRunsTypes, MasterKeepsZones DEF ZonesInv, KeepsRows
    <2>5. ASSUME NEW r \in Requests, Names!SlaveRuns(r) PROVE ZonesInv'
      BY <2>1, <2>5, SlaveRunsTypes, SlaveKeepsZones DEF ZonesInv, KeepsRows
    <2>6. ASSUME NEW r \in Requests, Names!Restart(r) PROVE ZonesInv'
      BY <2>1, <2>6, RestartKeepsZones DEF ZonesInv, KeepsRows
    <2>7. ASSUME NEW d \in DomainNames, Names!Transfer(d) PROVE ZonesInv'
      BY <2>1, <2>7, TransferKeepsZones DEF ZonesInv, KeepsRows
    <2>8. CASE Names!Midnight \/ UNCHANGED Names!vars
      BY <2>1, <2>8, ZonesStay DEF ZonesInv
    <2>9. QED
      BY <2>2, <2>3, <2>4, <2>5, <2>6, <2>7, <2>8 DEF Names!Next
  <1>3. QED
    BY <1>1, <1>2, PTL DEF Names!Spec

\* Once no request is at work the master serves a zone for each highest domain with the
\* records of all below it, and a slave with no newer serial to ask for serves the same:
\* for any domains, requests and days, unless requests were at work on zones below each
\* other (Domain.save, refresh_serial and the Bind controllers).
THEOREM ZonesAgreeWithRows ==
  ASSUME Names!Assumption
  PROVE  Names!Spec => []ZonesAgree
  <1>1. ZonesInv => ZonesAgree
    <2> SUFFICES ASSUME ZonesInv, Names!Quiet, zoneOverlaps = {}
                 PROVE  ZonesAgree
      BY DEF ZonesAgree, Names!MasterServesAll, Names!SlavesHaveIt
    <2>1. ZonesAligned /\ Names!TypeOK /\ WorkIsWhole
      BY DEF ZonesInv
    <2>2. \A r \in Requests : ~ Works(r)
      BY DEF Names!Quiet, Works
    <2>3. masterToDo = {} /\ slaveToDo = {}
      BY <2>1, <2>2 DEF WorkIsWhole, Names!TypeOK
    <2>4. \A d \in DomainNames : /\ d \in conf <=> IsTop(d)
                                 /\ d \in conf => zones[d] # None /\ Says(zones[d], d, records)
                                 /\ served[d] = IF d \in conf THEN zones[d] ELSE None
                                 /\ d \in slave <=> IsTop(d)
      BY <2>1, <2>2, <2>3 DEF ZonesAligned, Configured, ServedRest, ToMaster, ToSlave, AtWorkOnZone
    <2>5. ASSUME NEW d \in DomainNames
          PROVE  IsTop(d) <=> records[d] # None /\ Names!get_parent(d) = None
      <3>1. records[d] # None => tops[d] = Names!get_parent(d)
        <4>1. IsHighest(records, d, Names!get_parent(d))
          BY ParentIsHighest
        <4>2. records[d] # None => IsHighest(records, d, tops[d])
          BY <2>1 DEF ZonesAligned, TopsRight
        <4>3. QED BY <4>1, <4>2, HighestIsOne
      <3>2. QED BY <3>1 DEF IsTop
    <2>6. Names!MasterServesAll
      BY <2>4, <2>5 DEF Names!MasterServesAll, Says, Region
    <2>7. Names!SlavesHaveIt
      <3> SUFFICES ASSUME NEW d \in DomainNames \ deleted, served[d] # None, ~ Names!MayTransfer(d)
                   PROVE  d \in slave /\ copies[d].says = served[d].says
        BY DEF Names!SlavesHaveIt
      <3>1. d \in slave
        BY <2>4
      <3>2. copies[d] # None /\ ~ Names!Later(served[d].serial, copies[d].serial)
        BY <3>1 DEF Names!MayTransfer
      <3>3. served[d] = copies[d]
        BY <2>1, <3>2 DEF ZonesAligned, SerialsGrow, NewerOrSame
      <3>4. QED BY <3>1, <3>3
    <2>8. QED BY <2>6, <2>7 DEF ZonesAgree
  <1>2. QED
    BY <1>1, ZonesInvariant, PTL

-----------------------------------------------------------------------------
(* The files of Postfix *)

\* A request at work, the addresses it writes, and the database as it sees it.
OnMail(r) == mailPhase[r] # "none"
WritesMail(r) == DOMAIN mailChange[r].rows
ViewOf(r) == IF Mail!Open(r) THEN Mail!Sees(mailChange[r].rows) ELSE address
BoxesOf(r) == IF Mail!Open(r) THEN mailChange[r].mailboxes ELSE mailboxes

\* What requests write is of its type; commands are for what the request writes, and
\* one that is not at work has none.
MailWritten ==
  /\ mailChange = [r \in Requests |-> mailChange[r]]
  /\ \A r \in Requests :
       /\ OnMail(r) => /\ mailChange[r].mailboxes \subseteq Mailboxes
                       /\ WritesMail(r) \subseteq Addresses
                       /\ \A e \in WritesMail(r) : mailChange[r].rows[e] \in Mail!Rows \cup {None}
       /\ ~ OnMail(r) => mailScript[r] = {}
       /\ postfixUpdated[r] # {} => mailPhase[r] = "executes"
       /\ \A c \in mailScript[r] :
            /\ c.do \in {"include", "exclude"} => c.domain \in Mail!Touches(r)
            /\ c.do \in {"set", "unset"} => c.email \in WritesMail(r)

\* Open transactions write other rows, and one that writes mailboxes is alone.
OpenApart ==
  \A r, q \in Requests : r # q /\ Mail!Open(r) /\ Mail!Open(q) =>
    WritesMail(r) \cap WritesMail(q) = {} /\ mailChange[r].mailboxes = mailboxes

\* Mail goes to mailboxes there are.
Reaches(held, boxes) ==
  \A e \in Addresses : held[e] # None => Mail!Destination(held[e]) \subseteq boxes
MailboxesThere ==
  /\ Reaches(address, mailboxes)
  /\ \A r \in Requests : Mail!Open(r) => Reaches(ViewOf(r), BoxesOf(r))

\* Only what is excused was touched by two requests at once.
TouchedOnce ==
  \A r, q \in Requests : r # q /\ OnMail(r) /\ OnMail(q) =>
    Mail!Touches(r) \cap Mail!Touches(q) \subseteq excused

\* The file of domains is right about d, or a command is to come that makes it so.
Takes(held, d) == d \in hosted /\ \E e \in Addresses : DomainOf[e] = d /\ held[e] # None
Include(d) == [do |-> "include", domain |-> d]
Exclude(d) == [do |-> "exclude", domain |-> d]
DomainFollows(d) ==
  /\ (\A r \in Requests : OnMail(r) => d \notin Mail!Touches(r)) => (d \in domains <=> Takes(address, d))
  /\ \A r \in Requests : OnMail(r) /\ d \in Mail!Touches(r) =>
       /\ Include(d) \in mailScript[r] => Takes(ViewOf(r), d)
       /\ Exclude(d) \in mailScript[r] => ~ Takes(ViewOf(r), d)
       /\ Include(d) \notin mailScript[r] /\ Exclude(d) \notin mailScript[r] =>
            (d \in domains <=> Takes(ViewOf(r), d))
DomainsFollow == \A d \in MailDomains \ (excused \cup {LocalDomain}) : DomainFollows(d)

\* So is the line of an address, or those of the commands to come.  A line is only left
\* out where the mail goes to the mailbox of that name.
Conveys(line, e, row) ==
  IF row = None THEN line = None
  ELSE \/ line = Mail!Destination(row)
       \/ line = None /\ DomainOf[e] = LocalDomain /\ Mail!Destination(row) = {NamesakeOf[e]}
LineOf(c) == IF c.do = "set" THEN c.destination ELSE None
OfAddress(e, r) == {c \in mailScript[r] : c.do \in {"set", "unset"} /\ c.email = e}
LineFollows(e) ==
  /\ (\A r \in Requests : OnMail(r) => e \notin WritesMail(r)) => Conveys(maps[e], e, address[e])
  /\ \A r \in Requests : OnMail(r) /\ e \in WritesMail(r) =>
       /\ \A c \in OfAddress(e, r) : Conveys(LineOf(c), e, ViewOf(r)[e])
       /\ OfAddress(e, r) = {} => Conveys(maps[e], e, ViewOf(r)[e])
LinesFollow == \A e \in Addresses : DomainOf[e] \notin excused => LineFollows(e)

\* Postfix has read the files, or a request has noted that it should.
PostfixReads ==
  /\ postfix.domains = domains \/ \E r \in Requests : "domains" \in postfixUpdated[r]
  /\ postfix.maps = maps \/ \E r \in Requests : "maps" \in postfixUpdated[r]

MailInv ==
  /\ Mail!TypeOK /\ MailWritten /\ OpenApart /\ MailboxesThere /\ TouchedOnce
  /\ DomainsFollow /\ LinesFollow /\ PostfixReads

\* What a request generates for the rows it writes: a command for each domain that is
\* now taken or is no longer, and one for the line of each address.
LEMMA GeneratedForMail ==
  ASSUME Mail!Assumption, NEW newRows, NEW boxes, DOMAIN newRows \subseteq Addresses,
         \A e \in DOMAIN newRows : newRows[e] \in Mail!Rows \cup {None}
  PROVE  LET commands == Mail!Generate(newRows, boxes) IN
         /\ commands \subseteq Mail!Commands
         /\ \A c \in commands :
              /\ c.do \in {"include", "exclude"} => \E e \in DOMAIN newRows : c.domain = DomainOf[e]
              /\ c.do \in {"set", "unset"} =>
                   c.email \in DOMAIN newRows /\ Conveys(LineOf(c), c.email, newRows[c.email])
         /\ \A d : Include(d) \in commands <=>
                     /\ d # LocalDomain /\ d \in hosted
                     /\ \E e \in DOMAIN newRows : DomainOf[e] = d /\ newRows[e] # None
         /\ \A d : Exclude(d) \in commands <=>
                     /\ Mail!IsLastDomain(d, newRows)
                     /\ \E e \in DOMAIN newRows : DomainOf[e] = d /\ newRows[e] = None
         /\ \A e \in DOMAIN newRows : \E c \in commands : c.do \in {"set", "unset"} /\ c.email = e
  <1> DEFINE commands == Mail!Generate(newRows, boxes)
             Of(e) == IF newRows[e] = None THEN Mail!DeleteAddress(e, newRows)
                      ELSE Mail!SaveAddress(e, newRows[e], boxes)
             Set(e) == [do |-> "set", email |-> e, destination |-> Mail!Destination(newRows[e])]
             Unset(e) == [do |-> "unset", email |-> e]
  <1>1. \A c : c \in commands <=> \E e \in DOMAIN newRows : c \in Of(e)
    BY DEF Mail!Generate
  <1>2. ASSUME NEW e \in DOMAIN newRows, NEW c
        PROVE  c \in Of(e) <=>
                 \/ newRows[e] = None /\ Mail!IsLastDomain(DomainOf[e], newRows)
                    /\ c = Exclude(DomainOf[e])
                 \/ newRows[e] = None /\ c = Unset(e)
                 \/ /\ newRows[e] # None /\ DomainOf[e] # LocalDomain /\ DomainOf[e] \in hosted
                    /\ c = Include(DomainOf[e])
                 \/ newRows[e] # None /\ Mail!IsImplicit(e, newRows[e], boxes) /\ c = Unset(e)
                 \/ newRows[e] # None /\ ~ Mail!IsImplicit(e, newRows[e], boxes) /\ c = Set(e)
    <2>1. CASE newRows[e] = None
      BY <2>1 DEF Mail!DeleteAddress, Mail!ExcludeDomain, Exclude
    <2>2. CASE newRows[e] # None
      BY <2>2 DEF Mail!SaveAddress, Mail!IncludeDomain, Mail!UpdateMaps, Include
    <2>3. QED BY <2>1, <2>2
  <1>3. \A d : /\ Include(d).do = "include" /\ Include(d).domain = d
               /\ Exclude(d).do = "exclude" /\ Exclude(d).domain = d
    BY DEF Include, Exclude
  <1>4. \A e : /\ Set(e).do = "set" /\ Set(e).email = e /\ Unset(e).do = "unset"
           /\ Unset(e).email = e
               /\ Set(e).destination = Mail!Destination(newRows[e])
    OBVIOUS
  <1>5. commands \subseteq Mail!Commands
    <2> SUFFICES ASSUME NEW e \in DOMAIN newRows, NEW c \in Of(e) PROVE c \in Mail!Commands
      BY <1>1
    <2>1. e \in Addresses /\ DomainOf[e] \in MailDomains
      BY DEF Mail!Assumption
    <2>2. newRows[e] # None => Mail!Destination(newRows[e]) \subseteq Mailboxes
      BY DEF Mail!Rows, Mail!Destination
    <2>3. /\ Include(DomainOf[e]) \in Mail!Commands /\ Exclude(DomainOf[e]) \in Mail!Commands
          /\ Unset(e) \in Mail!Commands
      BY <2>1 DEF Mail!Commands, Include, Exclude
    <2>4. newRows[e] # None => Set(e) \in Mail!Commands
      BY <2>1, <2>2 DEF Mail!Commands
    <2> HIDE DEF Of, Set, Unset
    <2>5. QED BY <1>2, <2>3, <2>4
  <1>6. ASSUME NEW e \in DOMAIN newRows
        PROVE  /\ newRows[e] = None => Conveys(LineOf(Unset(e)), e, newRows[e])
               /\ newRows[e] # None /\ Mail!IsImplicit(e, newRows[e], boxes) =>
                    Conveys(LineOf(Unset(e)), e, newRows[e])
               /\ newRows[e] # None => Conveys(LineOf(Set(e)), e, newRows[e])
    <2> HIDE DEF Set, Unset
    <2>1. LineOf(Unset(e)) = None /\ LineOf(Set(e)) = Mail!Destination(newRows[e])
      BY <1>4 DEF LineOf
    <2>2. QED BY <2>1 DEF Conveys, Mail!IsImplicit
  <1> HIDE DEF commands, Of, Set, Unset
  <1>7. ASSUME NEW c \in commands
        PROVE  /\ c.do \in {"include", "exclude"} => \E e \in DOMAIN newRows : c.domain = DomainOf[e]
               /\ c.do \in {"set", "unset"} =>
                    c.email \in DOMAIN newRows /\ Conveys(LineOf(c), c.email, newRows[c.email])
    <2>1. PICK e \in DOMAIN newRows : c \in Of(e)
      BY <1>1
    <2>2. CASE c = Exclude(DomainOf[e]) \/ c = Include(DomainOf[e])
      BY <1>3, <2>2
    <2>3. CASE c = Unset(e) /\ (newRows[e] = None \/ Mail!IsImplicit(e, newRows[e], boxes))
      BY <1>4, <1>6, <2>3
    <2>4. CASE c = Set(e) /\ newRows[e] # None
      BY <1>4, <1>6, <2>4
    <2>5. QED BY <1>2, <2>1, <2>2, <2>3, <2>4
  <1>8. ASSUME NEW d
        PROVE  Include(d) \in commands <=>
                 /\ d # LocalDomain /\ d \in hosted
                 /\ \E e \in DOMAIN newRows : DomainOf[e] = d /\ newRows[e] # None
    <2>1. \A e \in DOMAIN newRows : Include(d) \in Of(e) <=>
            newRows[e] # None /\ DomainOf[e] # LocalDomain /\ DomainOf[e] \in hosted /\ d = DomainOf[e]
      BY <1>2, <1>3, <1>4
    <2>2. QED BY <1>1, <2>1
  <1>9. ASSUME NEW d
        PROVE  Exclude(d) \in commands <=>
                 /\ Mail!IsLastDomain(d, newRows)
                 /\ \E e \in DOMAIN newRows : DomainOf[e] = d /\ newRows[e] = None
    <2>1. \A e \in DOMAIN newRows : Exclude(d) \in Of(e) <=>
            newRows[e] = None /\ Mail!IsLastDomain(DomainOf[e], newRows) /\ d = DomainOf[e]
      BY <1>2, <1>3, <1>4
    <2>2. QED BY <1>1, <2>1
  <1>10. ASSUME NEW e \in DOMAIN newRows
         PROVE  \E c \in commands : c.do \in {"set", "unset"} /\ c.email = e
    <2>1. Unset(e) \in Of(e) \/ Set(e) \in Of(e)
      BY <1>2
    <2>2. QED BY <1>1, <1>4, <2>1
  <1>11. QED
    BY <1>5, <1>7, <1>8, <1>9, <1>10 DEF commands

\* What a request may write: rows of their type that go to mailboxes there are.
ProperMail(r, newRows, boxes) ==
  /\ Mail!Requested(r, newRows, boxes)
  /\ DOMAIN newRows \subseteq Addresses /\ boxes \subseteq Mailboxes
  /\ \A e \in DOMAIN newRows : newRows[e] \in Mail!Rows \cup {None}
  /\ Reaches(Mail!Sees(newRows), boxes)

\* Each request of the panel writes so: an address forwards to mailboxes there are, and
\* the addresses of a mailbox that goes are written without it.
LEMMA MailRequestsAreProper ==
  ASSUME Mail!Assumption, Mail!TypeOK, Reaches(address, mailboxes), NEW r \in Requests,
         \/ \E e \in Addresses : Mail!PutAddress(r, e) \/ Mail!RemoveAddress(r, e)
         \/ \E m \in Mailboxes : Mail!AddMailbox(r, m) \/ Mail!RemoveMailbox(r, m)
  PROVE  \E newRows, boxes : ProperMail(r, newRows, boxes)
  <1>t. \A e \in Addresses : address[e] \in Mail!Rows \cup {None}
    BY DEF Mail!TypeOK
  <1>m. mailboxes \subseteq Mailboxes
    BY DEF Mail!TypeOK
  <1>1. ASSUME NEW e \in Addresses, Mail!PutAddress(r, e)
        PROVE  \E newRows, boxes : ProperMail(r, newRows, boxes)
    <2>1. PICK row \in Mail!Rows : /\ Mail!Destination(row) \subseteq mailboxes
                                   /\ Mail!Requested(r, Mail!Put(e, row), mailboxes)
      BY <1>1 DEF Mail!PutAddress
    <2> DEFINE newRows == Mail!Put(e, row)
    <2>2. DOMAIN newRows = {e} /\ newRows[e] = row
      BY DEF Mail!Put
    <2> HIDE DEF newRows
    <2>3. Reaches(Mail!Sees(newRows), mailboxes)
      BY <2>1, <2>2 DEF Reaches, Mail!Sees
    <2>4. ProperMail(r, newRows, mailboxes)
      BY <2>1, <2>2, <2>3, <1>m DEF ProperMail, newRows
    <2>5. QED BY <2>4
  <1>2. ASSUME NEW e \in Addresses, Mail!RemoveAddress(r, e)
        PROVE  \E newRows, boxes : ProperMail(r, newRows, boxes)
    <2> DEFINE newRows == Mail!Put(e, None)
    <2>1. Mail!Requested(r, newRows, mailboxes)
      BY <1>2 DEF Mail!RemoveAddress
    <2>2. DOMAIN newRows = {e} /\ newRows[e] = None
      BY DEF Mail!Put
    <2> HIDE DEF newRows
    <2>3. Reaches(Mail!Sees(newRows), mailboxes)
      BY <2>1, <2>2 DEF Reaches, Mail!Sees
    <2>4. ProperMail(r, newRows, mailboxes)
      BY <2>1, <2>2, <2>3, <1>m DEF ProperMail
    <2>5. QED BY <2>4
  <1>3. ASSUME NEW m \in Mailboxes, Mail!AddMailbox(r, m)
        PROVE  \E newRows, boxes : ProperMail(r, newRows, boxes)
    <2> DEFINE local == {e \in Addresses : NamesakeOf[e] = m /\ address[e] = None}
    <2>1. PICK row \in {[boxes |-> {m}, forward |-> {}], [boxes |-> {}, forward |-> {m}]} :
            Mail!Requested(r, [e \in local |-> row], mailboxes \cup {m})
      BY <1>3 DEF Mail!AddMailbox
    <2> DEFINE newRows == [e \in local |-> row]
    <2>2. row \in Mail!Rows /\ Mail!Destination(row) = {m}
      BY <2>1 DEF Mail!Rows, Mail!Destination
    <2>3. DOMAIN newRows \subseteq Addresses /\ \A e \in DOMAIN newRows : newRows[e] = row
      OBVIOUS
    <2>4. Mail!Requested(r, newRows, mailboxes \cup {m})
      BY <2>1
    <2> HIDE DEF newRows
    <2>5. Reaches(Mail!Sees(newRows), mailboxes \cup {m})
      BY <2>2, <2>3 DEF Reaches, Mail!Sees
    <2>6. ProperMail(r, newRows, mailboxes \cup {m})
      BY <2>2, <2>3, <2>4, <2>5, <1>m DEF ProperMail
    <2>7. QED BY <2>6
  <1>4. ASSUME NEW m \in Mailboxes, Mail!RemoveMailbox(r, m)
        PROVE  \E newRows, boxes : ProperMail(r, newRows, boxes)
    <2> DEFINE about == {e \in Addresses : address[e] # None /\ m \in Mail!Destination(address[e])}
               newRows == [e \in about |-> Mail!Forget(address[e], m)]
    <2>1. Mail!Requested(r, newRows, mailboxes \ {m})
      BY <1>4 DEF Mail!RemoveMailbox
    <2>2. DOMAIN newRows = about /\ \A e \in about : newRows[e] = Mail!Forget(address[e], m)
      OBVIOUS
    <2> HIDE DEF newRows
    <2>3. ASSUME NEW e \in about
          PROVE  /\ Mail!Forget(address[e], m) \in Mail!Rows \cup {None}
                 /\ Mail!Forget(address[e], m) # None =>
                      Mail!Destination(Mail!Forget(address[e], m)) \subseteq mailboxes \ {m}
      <3> DEFINE rest == [boxes |-> address[e].boxes \ {m}, forward |-> address[e].forward \ {m}]
      <3>1. address[e] \in Mail!Rows /\ Mail!Destination(address[e]) \subseteq mailboxes
        BY <1>t DEF Reaches
      <3>2. rest \in Mail!Rows
        BY <3>1 DEF Mail!Rows
      <3>3. Mail!Destination(rest) \subseteq mailboxes \ {m}
        BY <3>1 DEF Mail!Destination
      <3>4. Mail!Forget(address[e], m) \in {None, rest}
        BY DEF Mail!Forget
      <3> HIDE DEF rest
      <3>5. QED BY <3>2, <3>3, <3>4
    <2>4. ASSUME NEW e \in Addresses, e \notin about, address[e] # None
          PROVE  Mail!Destination(address[e]) \subseteq mailboxes \ {m}
      BY <2>4 DEF Reaches
    <2>5. Reaches(Mail!Sees(newRows), mailboxes \ {m})
      BY <2>2, <2>3, <2>4 DEF Reaches, Mail!Sees
    <2>6. ProperMail(r, newRows, mailboxes \ {m})
      BY <2>1, <2>2, <2>3, <2>5, <1>m DEF ProperMail
    <2>7. QED BY <2>6
  <1>5. QED BY <1>1, <1>2, <1>3, <1>4

\* A request that begins keeps the types.
LEMMA MailRequestKeepsTypes ==
  ASSUME Mail!Assumption, MailInv, NEW r \in Requests, NEW newRows, NEW boxes,
         ProperMail(r, newRows, boxes)
  PROVE  Mail!TypeOK' /\ MailWritten'
  <1> USE DEF MailInv
  <1>1. Mail!Generate(newRows, boxes) \subseteq Mail!Commands
    BY GeneratedForMail DEF ProperMail
  <1>2. excused' \subseteq MailDomains
    <2>1. \A e \in DOMAIN newRows : DomainOf[e] \in MailDomains
      BY DEF ProperMail, Mail!Assumption
    <2>2. QED BY <2>1 DEF ProperMail, Mail!Requested, Mail!Interferes, Mail!TypeOK
  <1>3. Mail!TypeOK'
    BY <1>1, <1>2 DEF ProperMail, Mail!Requested, Mail!TypeOK, Mail!db, Mail!server
  <1>4. mailChange' = [x \in Requests |-> mailChange'[x]]
    BY DEF ProperMail, Mail!Requested, MailWritten
  <1>5. ASSUME NEW q \in Requests, q # r
        PROVE  /\ mailChange'[q] = mailChange[q] /\ mailScript'[q] = mailScript[q]
               /\ mailPhase'[q] = mailPhase[q] /\ postfixUpdated'[q] = postfixUpdated[q]
    BY <1>5 DEF ProperMail, Mail!Requested, MailWritten, Mail!TypeOK
  <1>6. /\ mailChange'[r].rows = newRows /\ mailChange'[r].mailboxes = boxes
        /\ mailScript'[r] = Mail!Generate(newRows, boxes) /\ mailPhase'[r] = "open"
        /\ mailPhase[r] = "none" /\ postfixUpdated'[r] = postfixUpdated[r]
    <2>1. mailChange'[r] = [rows |-> newRows, mailboxes |-> boxes]
      BY DEF ProperMail, Mail!Requested, MailWritten
    <2>2. QED BY <2>1 DEF ProperMail, Mail!Requested, Mail!TypeOK
  <1>7. \A c \in Mail!Generate(newRows, boxes) :
          /\ c.do \in {"include", "exclude"} => c.domain \in {DomainOf[e] : e \in DOMAIN newRows}
          /\ c.do \in {"set", "unset"} => c.email \in DOMAIN newRows
    BY GeneratedForMail DEF ProperMail
  <1>8. ASSUME NEW q \in Requests
        PROVE  /\ OnMail(q)' => /\ mailChange'[q].mailboxes \subseteq Mailboxes
                                /\ WritesMail(q)' \subseteq Addresses
                                /\ \A e \in WritesMail(q)' : mailChange'[q].rows[e] \in Mail!Rows \cup {None}
               /\ ~ OnMail(q)' => mailScript'[q] = {}
               /\ postfixUpdated'[q] # {} => mailPhase'[q] = "executes"
               /\ \A c \in mailScript'[q] :
                    /\ c.do \in {"include", "exclude"} => c.domain \in Mail!Touches(q)'
                    /\ c.do \in {"set", "unset"} => c.email \in WritesMail(q)'
    <2>1. CASE q # r
      BY <1>5, <2>1 DEF MailWritten, OnMail, WritesMail, Mail!Touches
    <2>2. CASE q = r
      <3>1. postfixUpdated'[r] = {}
        BY <1>6 DEF MailWritten
      <3>2. WritesMail(r)' = DOMAIN newRows /\ Mail!Touches(r)' = {DomainOf[e] : e \in DOMAIN newRows}
        BY <1>6 DEF WritesMail, Mail!Touches
      <3>3. OnMail(r)'
        BY <1>6 DEF OnMail
      <3>4. \A e \in DOMAIN newRows : mailChange'[r].rows[e] \in Mail!Rows \cup {None}
        BY <1>6 DEF ProperMail
      <3>5. mailChange'[r].mailboxes \subseteq Mailboxes /\ DOMAIN newRows \subseteq Addresses
        BY <1>6 DEF ProperMail
      <3>6. QED BY <2>2, <3>1, <3>2, <3>3, <3>4, <3>5, <1>6, <1>7
    <2>3. QED BY <2>1, <2>2
  <1>9. MailWritten'
    BY <1>4, <1>8 DEF MailWritten
  <1>10. QED BY <1>3, <1>9

\* What a request that begins leaves alone, and what it and others see then.
LEMMA MailRequestWrites ==
  ASSUME Mail!Assumption, MailInv, NEW r \in Requests, NEW newRows, NEW boxes,
         ProperMail(r, newRows, boxes)
  PROVE  /\ \A q \in Requests \ {r} :
              /\ mailChange'[q] = mailChange[q] /\ mailScript'[q] = mailScript[q]
              /\ OnMail(q)' = OnMail(q) /\ Mail!Open(q)' = Mail!Open(q)
              /\ WritesMail(q)' = WritesMail(q) /\ Mail!Touches(q)' = Mail!Touches(q)
              /\ ViewOf(q)' = ViewOf(q) /\ BoxesOf(q)' = BoxesOf(q)
         /\ ~ OnMail(r) /\ OnMail(r)' /\ Mail!Open(r)' /\ mailScript'[r] = Mail!Generate(newRows, boxes)
         /\ WritesMail(r)' = DOMAIN newRows /\ Mail!Touches(r)' = {DomainOf[e] : e \in DOMAIN newRows}
         /\ ViewOf(r)' = Mail!Sees(newRows) /\ BoxesOf(r)' = boxes
         /\ address' = address /\ mailboxes' = mailboxes /\ hosted' = hosted /\ domains' = domains
         /\ maps' = maps /\ postfix' = postfix /\ postfixUpdated' = postfixUpdated
         /\ excused' = excused \cup Mail!Interferes(r, newRows)
  <1> USE DEF MailInv
  <1>1. /\ address' = address /\ mailboxes' = mailboxes /\ hosted' = hosted /\ domains' = domains
        /\ maps' = maps /\ postfix' = postfix /\ postfixUpdated' = postfixUpdated
        /\ excused' = excused \cup Mail!Interferes(r, newRows)
    BY DEF ProperMail, Mail!Requested, Mail!db, Mail!server
  <1>2. ASSUME NEW q \in Requests, q # r
        PROVE  /\ mailChange'[q] = mailChange[q] /\ mailScript'[q] = mailScript[q]
               /\ mailPhase'[q] = mailPhase[q]
    BY <1>2 DEF ProperMail, Mail!Requested, MailWritten, Mail!TypeOK
  <1>3. /\ mailChange'[r].rows = newRows /\ mailChange'[r].mailboxes = boxes
        /\ mailScript'[r] = Mail!Generate(newRows, boxes) /\ mailPhase'[r] = "open"
        /\ mailPhase[r] = "none"
    <2>1. mailChange'[r] = [rows |-> newRows, mailboxes |-> boxes]
      BY DEF ProperMail, Mail!Requested, MailWritten
    <2>2. QED BY <2>1 DEF ProperMail, Mail!Requested, Mail!TypeOK
  <1>4. ASSUME NEW q \in Requests \ {r}
        PROVE  /\ OnMail(q)' = OnMail(q) /\ Mail!Open(q)' = Mail!Open(q)
               /\ WritesMail(q)' = WritesMail(q) /\ Mail!Touches(q)' = Mail!Touches(q)
               /\ ViewOf(q)' = ViewOf(q) /\ BoxesOf(q)' = BoxesOf(q)
    BY <1>1, <1>2 DEF OnMail, Mail!Open, WritesMail, Mail!Touches, ViewOf, BoxesOf, Mail!Sees
  <1>5. /\ ~ OnMail(r) /\ OnMail(r)' /\ Mail!Open(r)' /\ WritesMail(r)' = DOMAIN newRows
        /\ Mail!Touches(r)' = {DomainOf[e] : e \in DOMAIN newRows} /\ BoxesOf(r)' = boxes
    BY <1>3 DEF OnMail, Mail!Open, WritesMail, Mail!Touches, BoxesOf
  <1>6. ViewOf(r)' = Mail!Sees(newRows)
    BY <1>1, <1>3 DEF ViewOf, Mail!Open, Mail!Sees
  <1>7. QED BY <1>1, <1>2, <1>3, <1>4, <1>5, <1>6

\* A request that begins keeps the invariant: it saw all that others had written of the
\* domains it touches, or the domains are excused.
LEMMA MailRequestKeeps ==
  ASSUME Mail!Assumption, MailInv, NEW r \in Requests, NEW newRows, NEW boxes,
         ProperMail(r, newRows, boxes)
  PROVE  MailInv'
  <1> USE DEF MailInv
  <1>w. /\ \A q \in Requests \ {r} :
             /\ mailChange'[q] = mailChange[q] /\ mailScript'[q] = mailScript[q]
             /\ OnMail(q)' = OnMail(q) /\ Mail!Open(q)' = Mail!Open(q)
             /\ WritesMail(q)' = WritesMail(q) /\ Mail!Touches(q)' = Mail!Touches(q)
             /\ ViewOf(q)' = ViewOf(q) /\ BoxesOf(q)' = BoxesOf(q)
        /\ ~ OnMail(r) /\ OnMail(r)' /\ Mail!Open(r)' /\ mailScript'[r] = Mail!Generate(newRows, boxes)
        /\ WritesMail(r)' = DOMAIN newRows /\ Mail!Touches(r)' = {DomainOf[e] : e \in DOMAIN newRows}
        /\ ViewOf(r)' = Mail!Sees(newRows) /\ BoxesOf(r)' = boxes
        /\ address' = address /\ mailboxes' = mailboxes /\ hosted' = hosted /\ domains' = domains
        /\ maps' = maps /\ postfix' = postfix /\ postfixUpdated' = postfixUpdated
        /\ excused' = excused \cup Mail!Interferes(r, newRows)
    BY MailRequestWrites
  <1>1. Mail!TypeOK' /\ MailWritten'
    BY MailRequestKeepsTypes
  <1>2. OpenApart'
    <2>1. \A q \in Requests : Mail!Open(q) =>
            WritesMail(q) \cap DOMAIN newRows = {} /\ mailChange[q].mailboxes = mailboxes
               /\ boxes = mailboxes
      BY DEF ProperMail, Mail!Requested, Mail!Free, WritesMail
    <2>2. mailChange'[r].mailboxes = boxes
      BY <1>w DEF BoxesOf
    <2>3. QED BY <1>w, <2>1, <2>2 DEF OpenApart
  <1>3. MailboxesThere'
    <2>1. Reaches(address, mailboxes)'
      BY <1>w DEF MailboxesThere, Reaches
    <2>2. ASSUME NEW q \in Requests, Mail!Open(q)' PROVE Reaches(ViewOf(q), BoxesOf(q))'
      <3>1. CASE q = r
        BY <1>w, <3>1 DEF ProperMail, Reaches, Mail!Destination
      <3>2. CASE q # r
        BY <1>w, <2>2, <3>2 DEF MailboxesThere, Reaches, Mail!Destination
      <3>3. QED BY <3>1, <3>2
    <2>3. QED BY <2>1, <2>2 DEF MailboxesThere
  <1>4. \A q \in Requests \ {r} : OnMail(q) => Mail!Touches(q) \cap Mail!Touches(r)' \subseteq excused'
    BY <1>w DEF Mail!Interferes, OnMail
  <1>5. TouchedOnce'
    BY <1>w, <1>4 DEF TouchedOnce
  <1>6. DomainsFollow'
    <2> SUFFICES ASSUME NEW d \in MailDomains, d \notin excused', d # LocalDomain
                 PROVE  DomainFollows(d)'
      BY DEF DomainsFollow
    <2>1. DomainFollows(d)
      BY <1>w DEF DomainsFollow
    <2>2. \A x : Takes(x, d)' <=> Takes(x, d)
      BY <1>w DEF Takes
    <2>3. ASSUME \A q \in Requests : OnMail(q)' => d \notin Mail!Touches(q)'
          PROVE  (d \in domains <=> Takes(address, d))'
      BY <1>w, <2>1, <2>2, <2>3 DEF DomainFollows, Takes
    <2>4. ASSUME NEW q \in Requests, q # r, OnMail(q)', d \in Mail!Touches(q)'
          PROVE  /\ Include(d) \in mailScript'[q] => Takes(ViewOf(q), d)'
                 /\ Exclude(d) \in mailScript'[q] => ~ Takes(ViewOf(q), d)'
                 /\ Include(d) \notin mailScript'[q] /\ Exclude(d) \notin mailScript'[q] =>
                      (d \in domains' <=> Takes(ViewOf(q), d)')
      BY <1>w, <2>1, <2>2, <2>4 DEF DomainFollows, Takes
    <2>5. ASSUME d \in Mail!Touches(r)'
          PROVE  /\ Include(d) \in mailScript'[r] => Takes(ViewOf(r), d)'
                 /\ Exclude(d) \in mailScript'[r] => ~ Takes(ViewOf(r), d)'
                 /\ Include(d) \notin mailScript'[r] /\ Exclude(d) \notin mailScript'[r] =>
                      (d \in domains' <=> Takes(ViewOf(r), d)')
      <3>1. \A q \in Requests : OnMail(q) => d \notin Mail!Touches(q)
        BY <1>w, <1>4, <2>5
      <3>2. d \in domains <=> Takes(address, d)
        BY <2>1, <3>1 DEF DomainFollows
      <3>3. DOMAIN newRows \subseteq Addresses /\ \A e \in DOMAIN newRows : newRows[e] \in Mail!Rows \cup {None}
        BY DEF ProperMail
      <3>4. /\ Include(d) \in Mail!Generate(newRows, boxes) <=>
                 d \in hosted /\ \E e \in DOMAIN newRows : DomainOf[e] = d /\ newRows[e] # None
            /\ Exclude(d) \in Mail!Generate(newRows, boxes) <=>
                 Mail!IsLastDomain(d, newRows) /\ \E e \in DOMAIN newRows : DomainOf[e] = d
                    /\ newRows[e] = None
        BY <3>3, GeneratedForMail
      <3>5. Takes(Mail!Sees(newRows), d) <=> d \in hosted /\ ~ Mail!IsLastDomain(d, newRows)
        BY DEF Takes, Mail!IsLastDomain
      <3>6. \A e \in Addresses : Mail!Sees(newRows)[e] = IF e \in DOMAIN newRows THEN newRows[e] ELSE address[e]
        BY DEF Mail!Sees
      <3>7. (\E e \in DOMAIN newRows : DomainOf[e] = d /\ newRows[e] # None) =>
               ~ Mail!IsLastDomain(d, newRows)
        BY <3>3, <3>6 DEF Mail!IsLastDomain
      <3>8. PICK x \in DOMAIN newRows : DomainOf[x] = d
        BY <1>w, <2>5
      <3>9. Takes(ViewOf(r), d)' <=> Takes(Mail!Sees(newRows), d)
        BY <1>w DEF Takes
      <3>10. Include(d) \in mailScript'[r] => Takes(ViewOf(r), d)'
        BY <1>w, <3>4, <3>5, <3>7, <3>9
      <3>11. Exclude(d) \in mailScript'[r] => ~ Takes(ViewOf(r), d)'
        BY <1>w, <3>4, <3>5, <3>9
      <3>12. ASSUME Include(d) \notin mailScript'[r], Exclude(d) \notin mailScript'[r]
             PROVE  d \in domains' <=> Takes(ViewOf(r), d)'
        <4>1. CASE d \notin hosted
          BY <1>w, <3>2, <3>5, <3>9, <4>1 DEF Takes
        <4>2. CASE d \in hosted
          <5>1. newRows[x] = None /\ ~ Mail!IsLastDomain(d, newRows)
            BY <1>w, <3>4, <3>8, <3>12, <4>2
          <5>2. \A e \in DOMAIN newRows : DomainOf[e] = d => newRows[e] = None
            BY <1>w, <3>4, <3>12, <4>2
          <5>3. \E e \in Addresses : DomainOf[e] = d /\ address[e] # None
            BY <3>6, <5>1, <5>2 DEF Mail!IsLastDomain
          <5>4. QED BY <1>w, <3>2, <3>5, <3>9, <4>2, <5>1, <5>3 DEF Takes
        <4>3. QED BY <4>1, <4>2
      <3>13. QED BY <3>10, <3>11, <3>12
    <2>6. QED BY <2>3, <2>4, <2>5 DEF DomainFollows
  <1>7. LinesFollow'
    <2> SUFFICES ASSUME NEW e \in Addresses, DomainOf[e] \notin excused'
                 PROVE  LineFollows(e)'
      BY DEF LinesFollow
    <2>1. LineFollows(e)
      BY <1>w DEF LinesFollow
    <2>2. ASSUME \A q \in Requests : OnMail(q)' => e \notin WritesMail(q)'
          PROVE  Conveys(maps[e], e, address[e])'
      BY <1>w, <2>1, <2>2 DEF LineFollows, Conveys, Mail!Destination
    <2>3. ASSUME NEW q \in Requests, q # r, OnMail(q)', e \in WritesMail(q)'
          PROVE  /\ \A c \in OfAddress(e, q)' : Conveys(LineOf(c), e, ViewOf(q)'[e])
                 /\ OfAddress(e, q)' = {} => Conveys(maps'[e], e, ViewOf(q)'[e])
      <3>1. OfAddress(e, q)' = OfAddress(e, q)
        BY <1>w, <2>3 DEF OfAddress
      <3>2. QED BY <1>w, <2>1, <2>3, <3>1 DEF LineFollows
    <2>4. ASSUME e \in WritesMail(r)'
          PROVE  /\ \A c \in OfAddress(e, r)' : Conveys(LineOf(c), e, ViewOf(r)'[e])
                 /\ OfAddress(e, r)' # {}
      <3>1. DOMAIN newRows \subseteq Addresses /\ \A x \in DOMAIN newRows : newRows[x] \in Mail!Rows \cup {None}
        BY DEF ProperMail
      <3>2. /\ \A c \in Mail!Generate(newRows, boxes) : c.do \in {"set", "unset"} =>
                 c.email \in DOMAIN newRows /\ Conveys(LineOf(c), c.email, newRows[c.email])
            /\ \A x \in DOMAIN newRows : \E c \in Mail!Generate(newRows, boxes) :
                 c.do \in {"set", "unset"} /\ c.email = x
        BY <3>1, GeneratedForMail
      <3>3. ViewOf(r)'[e] = newRows[e] /\ e \in DOMAIN newRows
        BY <1>w, <2>4 DEF Mail!Sees
      <3>4. OfAddress(e, r)' = {c \in Mail!Generate(newRows, boxes) : c.do \in {"set", "unset"}
               /\ c.email = e}
        BY <1>w DEF OfAddress
      <3>5. QED BY <3>2, <3>3, <3>4
    <2>5. \A x, l, y : Conveys(l, x, y)' <=> Conveys(l, x, y)
      BY DEF Conveys, Mail!Destination
    <2>6. QED BY <2>2, <2>3, <2>4, <2>5 DEF LineFollows, Conveys, LineOf, Mail!Destination
  <1>8. PostfixReads'
    BY <1>w DEF PostfixReads
  <1>9. QED BY <1>1, <1>2, <1>3, <1>5, <1>6, <1>7, <1>8

\* A commit writes what the request saw, and others see the same but for that.
LEMMA MailCommitWrites ==
  ASSUME MailInv, NEW r \in Requests, Mail!Commit(r)
  PROVE  /\ Mail!Open(r) /\ OnMail(r) /\ ~ Mail!Open(r)'
         /\ address' = ViewOf(r) /\ mailboxes' = BoxesOf(r)
         /\ \A q \in Requests : /\ OnMail(q)' = OnMail(q) /\ WritesMail(q)' = WritesMail(q)
                                /\ Mail!Touches(q)' = Mail!Touches(q)
         /\ \A q \in Requests \ {r} :
              /\ Mail!Open(q)' = Mail!Open(q)
              /\ \A e \in Addresses \ WritesMail(r) : ViewOf(q)'[e] = ViewOf(q)[e]
              /\ Mail!Open(q) => /\ ViewOf(q)' = [e \in Addresses |->
                                       IF e \in WritesMail(q) THEN mailChange[q].rows[e] ELSE ViewOf(r)[e]]
                                 /\ mailboxes' = mailboxes /\ BoxesOf(q)' = mailboxes
         /\ ViewOf(r)' = ViewOf(r) /\ BoxesOf(r)' = BoxesOf(r)
         /\ \A e \in Addresses \ WritesMail(r) : address'[e] = address[e]
         /\ UNCHANGED <<hosted, domains, maps, postfix, mailChange, mailScript, postfixUpdated,
            excused>>
  <1> USE DEF MailInv
  <1>1. /\ mailPhase[r] = "open" /\ mailPhase' = [mailPhase EXCEPT ![r] = "executes"]
        /\ address' = Mail!Sees(mailChange[r].rows)
        /\ mailboxes' = IF mailChange[r].mailboxes = mailboxes THEN mailboxes ELSE mailChange[r].mailboxes
        /\ UNCHANGED <<hosted, domains, maps, postfix, mailChange, mailScript, postfixUpdated,
           excused>>
    BY DEF Mail!Commit, Mail!Open, Mail!server
  <1>2. mailPhase \in [Requests -> {"none", "open", "executes"}]
    BY DEF Mail!TypeOK
  <1>3. Mail!Open(r) /\ OnMail(r) /\ ~ Mail!Open(r)'
    BY <1>1, <1>2 DEF Mail!Open, OnMail
  <1>4. address' = ViewOf(r) /\ mailboxes' = BoxesOf(r)
    BY <1>1, <1>3 DEF ViewOf, BoxesOf
  <1>5. ViewOf(r)' = ViewOf(r) /\ BoxesOf(r)' = BoxesOf(r)
    BY <1>3, <1>4 DEF ViewOf, BoxesOf
  <1>6. \A q \in Requests : /\ OnMail(q)' = OnMail(q) /\ WritesMail(q)' = WritesMail(q)
                           /\ Mail!Touches(q)' = Mail!Touches(q)
    BY <1>1, <1>2 DEF OnMail, WritesMail, Mail!Touches
  <1>7. \A q \in Requests \ {r} : Mail!Open(q)' = Mail!Open(q)
    BY <1>1, <1>2 DEF Mail!Open
  <1>8. \A e \in Addresses \ WritesMail(r) : address'[e] = address[e]
    BY <1>1 DEF Mail!Sees, WritesMail
  <1>9. ASSUME NEW q \in Requests \ {r}, NEW e \in Addresses \ WritesMail(r)
        PROVE  ViewOf(q)'[e] = ViewOf(q)[e]
    <2>1. CASE Mail!Open(q)
      BY <1>1, <1>7, <1>8, <2>1 DEF ViewOf, Mail!Sees
    <2>2. CASE ~ Mail!Open(q)
      BY <1>7, <1>8, <2>2 DEF ViewOf
    <2>3. QED BY <2>1, <2>2
  <1>10. ASSUME NEW q \in Requests \ {r}, Mail!Open(q)
         PROVE  /\ ViewOf(q)' = [e \in Addresses |->
                                   IF e \in WritesMail(q) THEN mailChange[q].rows[e] ELSE ViewOf(r)[e]]
                /\ mailboxes' = mailboxes /\ BoxesOf(q)' = mailboxes
    <2>1. mailChange[q].mailboxes = mailboxes /\ mailChange[r].mailboxes = mailboxes
      BY <1>3, <1>10 DEF OpenApart
    <2>2. mailboxes' = mailboxes /\ BoxesOf(q)' = mailboxes
      BY <1>1, <1>7, <1>10, <2>1 DEF BoxesOf
    <2>3. ViewOf(q)' = Mail!Sees(mailChange[q].rows)'
      BY <1>1, <1>7, <1>10 DEF ViewOf
    <2>4. QED BY <1>1, <1>4, <2>2, <2>3 DEF Mail!Sees, WritesMail
  <1>11. QED BY <1>1, <1>3, <1>4, <1>5, <1>6, <1>7, <1>8, <1>9, <1>10

\* A commit keeps the invariant: what the others see of the domains they touch, but for
\* those that are excused, is as it was.
LEMMA MailCommitKeeps ==
  ASSUME Mail!Assumption, MailInv, NEW r \in Requests, Mail!Commit(r)
  PROVE  MailInv'
  <1> USE DEF MailInv
  <1>w. /\ Mail!Open(r) /\ OnMail(r) /\ ~ Mail!Open(r)'
        /\ address' = ViewOf(r) /\ mailboxes' = BoxesOf(r)
        /\ \A q \in Requests : /\ OnMail(q)' = OnMail(q) /\ WritesMail(q)' = WritesMail(q)
                               /\ Mail!Touches(q)' = Mail!Touches(q)
        /\ \A q \in Requests \ {r} :
             /\ Mail!Open(q)' = Mail!Open(q)
             /\ \A e \in Addresses \ WritesMail(r) : ViewOf(q)'[e] = ViewOf(q)[e]
             /\ Mail!Open(q) => /\ ViewOf(q)' = [e \in Addresses |->
                                      IF e \in WritesMail(q) THEN mailChange[q].rows[e] ELSE ViewOf(r)[e]]
                                /\ mailboxes' = mailboxes /\ BoxesOf(q)' = mailboxes
        /\ ViewOf(r)' = ViewOf(r) /\ BoxesOf(r)' = BoxesOf(r)
        /\ \A e \in Addresses \ WritesMail(r) : address'[e] = address[e]
        /\ UNCHANGED <<hosted, domains, maps, postfix, mailChange, mailScript, postfixUpdated,
           excused>>
    BY MailCommitWrites
  <1>1. Mail!TypeOK'
    <2>1. address' \in [Addresses -> Mail!Rows \cup {None}]
      <3>1. address' = [e \in Addresses |-> IF e \in WritesMail(r) THEN mailChange[r].rows[e] ELSE address[e]]
        BY <1>w DEF ViewOf, Mail!Sees, WritesMail
      <3>2. \A e \in WritesMail(r) : mailChange[r].rows[e] \in Mail!Rows \cup {None}
        BY <1>w DEF MailWritten
      <3>3. QED BY <3>1, <3>2 DEF Mail!TypeOK
    <2>2. mailboxes' \subseteq Mailboxes
      BY <1>w DEF BoxesOf, MailWritten
    <2>3. mailPhase' \in [Requests -> {"none", "open", "executes"}]
      BY DEF Mail!Commit, Mail!TypeOK
    <2>4. QED BY <1>w, <2>1, <2>2, <2>3 DEF Mail!TypeOK
  <1>2. MailWritten'
    <2>1. \A q \in Requests : postfixUpdated[q] # {} => mailPhase'[q] = "executes"
      BY DEF Mail!Commit, Mail!TypeOK, MailWritten
    <2>2. QED BY <1>w, <2>1 DEF MailWritten
  <1>3. OpenApart'
    BY <1>w DEF OpenApart
  <1>4. MailboxesThere'
    <2>1. Reaches(ViewOf(r), BoxesOf(r))
      BY <1>w DEF MailboxesThere
    <2>2. Reaches(address, mailboxes)'
      BY <1>w, <2>1 DEF Reaches, Mail!Destination
    <2>3. ASSUME NEW q \in Requests, Mail!Open(q)' PROVE Reaches(ViewOf(q), BoxesOf(q))'
      <3>1. q # r /\ Mail!Open(q)
        BY <1>w, <2>3
      <3>2. Reaches(ViewOf(q), BoxesOf(q)) /\ BoxesOf(q) = mailboxes /\ BoxesOf(r) = mailboxes
        BY <1>w, <3>1 DEF MailboxesThere, OpenApart, BoxesOf
      <3>3. \A e \in WritesMail(q) \cap Addresses : ViewOf(q)[e] = mailChange[q].rows[e]
        BY <3>1 DEF ViewOf, Mail!Sees, WritesMail
      <3>4. QED BY <1>w, <2>1, <3>1, <3>2, <3>3 DEF Reaches, Mail!Destination
    <2>4. QED BY <2>2, <2>3 DEF MailboxesThere
  <1>5. TouchedOnce'
    BY <1>w DEF TouchedOnce
  <1>6. DomainsFollow'
    <2> SUFFICES ASSUME NEW d \in MailDomains, d \notin excused, d # LocalDomain
                 PROVE  DomainFollows(d)'
      BY <1>w DEF DomainsFollow
    <2>1. DomainFollows(d)
      BY DEF DomainsFollow
    <2>2. \A e \in WritesMail(r) : DomainOf[e] = d => d \in Mail!Touches(r)
      BY DEF Mail!Touches, WritesMail
    <2>3. ASSUME \A q \in Requests : OnMail(q)' => d \notin Mail!Touches(q)'
          PROVE  (d \in domains <=> Takes(address, d))'
      <3>1. d \in domains <=> Takes(address, d)
        BY <1>w, <2>1, <2>3 DEF DomainFollows
      <3>2. \A e \in Addresses : DomainOf[e] = d => address'[e] = address[e]
        BY <1>w, <2>2, <2>3
      <3>3. QED BY <1>w, <3>1, <3>2 DEF Takes
    <2>4. ASSUME NEW q \in Requests, OnMail(q)', d \in Mail!Touches(q)'
          PROVE  Takes(ViewOf(q), d)' <=> Takes(ViewOf(q), d)
      <3>1. CASE q = r
        BY <1>w, <3>1 DEF Takes
      <3>2. CASE q # r
        <4>1. d \notin Mail!Touches(r)
          BY <1>w, <2>4, <3>2 DEF TouchedOnce
        <4>2. \A e \in Addresses : DomainOf[e] = d => ViewOf(q)'[e] = ViewOf(q)[e]
          BY <1>w, <2>2, <3>2, <4>1
        <4>3. QED BY <1>w, <4>2 DEF Takes
      <3>3. QED BY <3>1, <3>2
    <2>5. ASSUME NEW q \in Requests, OnMail(q)', d \in Mail!Touches(q)'
          PROVE  /\ Include(d) \in mailScript'[q] => Takes(ViewOf(q), d)'
                 /\ Exclude(d) \in mailScript'[q] => ~ Takes(ViewOf(q), d)'
                 /\ Include(d) \notin mailScript'[q] /\ Exclude(d) \notin mailScript'[q] =>
                      (d \in domains' <=> Takes(ViewOf(q), d)')
      BY <1>w, <2>1, <2>4, <2>5 DEF DomainFollows
    <2>6. QED BY <2>3, <2>5 DEF DomainFollows, Include, Exclude
  <1>7. LinesFollow'
    <2> SUFFICES ASSUME NEW e \in Addresses, DomainOf[e] \notin excused
                 PROVE  LineFollows(e)'
      BY <1>w DEF LinesFollow
    <2>1. LineFollows(e)
      BY DEF LinesFollow
    <2>2. ASSUME \A q \in Requests : OnMail(q)' => e \notin WritesMail(q)'
          PROVE  Conveys(maps[e], e, address[e])'
      <3>1. e \notin WritesMail(r)
        BY <1>w, <2>2
      <3>2. Conveys(maps[e], e, address[e])
        BY <1>w, <2>1, <2>2 DEF LineFollows
      <3>3. QED BY <1>w, <3>1, <3>2 DEF Conveys, Mail!Destination
    <2>3. ASSUME NEW q \in Requests, OnMail(q)', e \in WritesMail(q)'
          PROVE  /\ ViewOf(q)'[e] = ViewOf(q)[e] /\ OfAddress(e, q)' = OfAddress(e, q)
                 /\ OnMail(q) /\ e \in WritesMail(q)
      <3>1. CASE q = r
        BY <1>w, <2>3, <3>1 DEF OfAddress
      <3>2. CASE q # r
        <4>1. e \notin WritesMail(r)
          BY <1>w, <2>3, <3>2 DEF TouchedOnce, Mail!Touches, WritesMail
        <4>2. QED BY <1>w, <2>3, <3>2, <4>1 DEF OfAddress
      <3>3. QED BY <3>1, <3>2
    <2>4. ASSUME NEW q \in Requests, OnMail(q)', e \in WritesMail(q)'
          PROVE  /\ \A c \in OfAddress(e, q)' : Conveys(LineOf(c), e, ViewOf(q)'[e])
                 /\ OfAddress(e, q)' = {} => Conveys(maps'[e], e, ViewOf(q)'[e])
      BY <1>w, <2>1, <2>3, <2>4 DEF LineFollows
    <2>5. QED BY <2>2, <2>4 DEF LineFollows, Conveys, LineOf, Mail!Destination
  <1>8. PostfixReads'
    BY <1>w DEF PostfixReads
  <1>9. QED BY <1>1, <1>2, <1>3, <1>4, <1>5, <1>6, <1>7, <1>8

\* A step of a script: r executes c, nothing that requests see changes, and no domain
\* is excused less.
RunsForMail(r, c) ==
  /\ Mail!Executes(r, c)
  /\ excused \subseteq excused'

\* What a step of a script leaves alone.
LEMMA MailRowsStay ==
  ASSUME MailInv, NEW r \in Requests, NEW c, RunsForMail(r, c)
  PROVE  /\ \A q \in Requests :
              /\ OnMail(q)' = OnMail(q) /\ Mail!Open(q)' = Mail!Open(q)
                 /\ WritesMail(q)' = WritesMail(q)
              /\ Mail!Touches(q)' = Mail!Touches(q) /\ ViewOf(q)' = ViewOf(q)
                 /\ BoxesOf(q)' = BoxesOf(q)
         /\ \A q \in Requests \ {r} : mailScript'[q] = mailScript[q]
         /\ c \in mailScript[r] /\ mailScript'[r] = mailScript[r] \ {c} /\ OnMail(r)
         /\ UNCHANGED <<address, mailboxes, hosted, postfix, mailChange, mailPhase>>
         /\ OpenApart' /\ MailboxesThere' /\ TouchedOnce'
  <1> USE DEF MailInv
  <1>1. /\ UNCHANGED <<address, mailboxes, hosted, postfix, mailChange, mailPhase>>
        /\ mailPhase[r] = "executes" /\ c \in mailScript[r]
        /\ mailScript' = [mailScript EXCEPT ![r] = mailScript[r] \ {c}]
    BY DEF RunsForMail, Mail!Executes, Mail!db
  <1>2. \A q \in Requests :
              /\ OnMail(q)' = OnMail(q) /\ Mail!Open(q)' = Mail!Open(q)
                 /\ WritesMail(q)' = WritesMail(q)
              /\ Mail!Touches(q)' = Mail!Touches(q) /\ ViewOf(q)' = ViewOf(q)
                 /\ BoxesOf(q)' = BoxesOf(q)
    BY <1>1 DEF OnMail, Mail!Open, WritesMail, Mail!Touches, ViewOf, BoxesOf, Mail!Sees
  <1>3. /\ \A q \in Requests \ {r} : mailScript'[q] = mailScript[q]
        /\ mailScript'[r] = mailScript[r] \ {c} /\ OnMail(r)
    BY <1>1 DEF Mail!TypeOK, OnMail
  <1>4. OpenApart'
    BY <1>1, <1>2 DEF OpenApart
  <1>5. MailboxesThere'
    BY <1>1, <1>2 DEF MailboxesThere, Reaches, Mail!Destination
  <1>6. TouchedOnce'
    BY <1>1, <1>2 DEF TouchedOnce, RunsForMail
  <1>7. QED BY <1>1, <1>2, <1>3, <1>4, <1>5, <1>6

\* The types after a step of a script.
LEMMA MailStepKeepsTypes ==
  ASSUME MailInv, NEW r \in Requests, NEW c, RunsForMail(r, c),
         domains' \subseteq MailDomains, excused' \subseteq MailDomains,
         maps' \in [Addresses -> (SUBSET Mailboxes) \cup {None}],
         \/ UNCHANGED postfixUpdated
         \/ Mail!Sets(r, "domains") \/ Mail!Sets(r, "maps")
  PROVE  /\ Mail!TypeOK' /\ MailWritten'
         /\ \A x : (\E q \in Requests : x \in postfixUpdated[q]) =>
            \E q \in Requests : x \in postfixUpdated'[q]
         /\ Mail!Sets(r, "domains") => "domains" \in postfixUpdated'[r]
         /\ Mail!Sets(r, "maps") => "maps" \in postfixUpdated'[r]
  <1> USE DEF MailInv
  <1>0. /\ UNCHANGED <<address, mailboxes, hosted, postfix, mailChange, mailPhase>>
        /\ mailPhase[r] = "executes" /\ c \in mailScript[r]
        /\ mailScript' = [mailScript EXCEPT ![r] = mailScript[r] \ {c}]
    BY DEF RunsForMail, Mail!Executes, Mail!db
  <1>1. /\ postfixUpdated' \in [Requests -> SUBSET {"domains", "maps"}]
        /\ \A q \in Requests : postfixUpdated[q] \subseteq postfixUpdated'[q]
        /\ \A q \in Requests \ {r} : postfixUpdated'[q] = postfixUpdated[q]
        /\ Mail!Sets(r, "domains") => "domains" \in postfixUpdated'[r]
        /\ Mail!Sets(r, "maps") => "maps" \in postfixUpdated'[r]
    BY DEF Mail!Sets, Mail!TypeOK
  <1>2. mailScript' \in [Requests -> SUBSET Mail!Commands]
           /\ \A q \in Requests : mailScript'[q] \subseteq mailScript[q]
    BY <1>0 DEF Mail!TypeOK
  <1>3. Mail!TypeOK'
    BY <1>0, <1>1, <1>2 DEF Mail!TypeOK
  <1>4. \A q \in Requests : /\ OnMail(q)' = OnMail(q) /\ WritesMail(q)' = WritesMail(q)
                           /\ Mail!Touches(q)' = Mail!Touches(q)
    BY <1>0 DEF OnMail, WritesMail, Mail!Touches
  <1>5. MailWritten'
    BY <1>0, <1>1, <1>2, <1>4 DEF MailWritten
  <1>6. QED BY <1>1, <1>3, <1>5

\* The file of domains stays right when it is about a domain what the command says.
LEMMA DomainsStayRight ==
  ASSUME MailInv, NEW r \in Requests, NEW c, RunsForMail(r, c),
         c = Include(c.domain) \/ c = Exclude(c.domain),
         \A d \in MailDomains \ excused' :
           d \in domains' <=> (IF d = c.domain THEN c = Include(d) ELSE d \in domains)
  PROVE  DomainsFollow'
  <1> USE DEF MailInv
  <1>w. /\ \A q \in Requests :
             /\ OnMail(q)' = OnMail(q) /\ Mail!Open(q)' = Mail!Open(q)
                /\ WritesMail(q)' = WritesMail(q)
             /\ Mail!Touches(q)' = Mail!Touches(q) /\ ViewOf(q)' = ViewOf(q)
                /\ BoxesOf(q)' = BoxesOf(q)
        /\ \A q \in Requests \ {r} : mailScript'[q] = mailScript[q]
        /\ c \in mailScript[r] /\ mailScript'[r] = mailScript[r] \ {c} /\ OnMail(r)
        /\ UNCHANGED <<address, mailboxes, hosted, postfix, mailChange, mailPhase>>
        /\ excused \subseteq excused'
    BY MailRowsStay DEF RunsForMail
  <1> SUFFICES ASSUME NEW d \in MailDomains, d \notin excused', d # LocalDomain
               PROVE  DomainFollows(d)'
    BY DEF DomainsFollow
  <1>1. DomainFollows(d)
    BY <1>w DEF DomainsFollow
  <1>2. \A x : Takes(x, d)' <=> Takes(x, d)
    BY <1>w DEF Takes
  <1>3. \A x : /\ Include(x).do = "include" /\ Include(x).domain = x
               /\ Exclude(x).do = "exclude" /\ Exclude(x).domain = x
    BY DEF Include, Exclude
  <1>4. c.domain \in Mail!Touches(r)
    BY <1>3, <1>w DEF MailWritten
  <1>5. d # c.domain => (d \in domains' <=> d \in domains)
    OBVIOUS
  <1>6. d = c.domain => (d \in domains' <=> c = Include(d))
    OBVIOUS
  <1>7. d # c.domain => c # Include(d) /\ c # Exclude(d)
    BY <1>3
  <1>8. ASSUME \A q \in Requests : OnMail(q)' => d \notin Mail!Touches(q)'
        PROVE  (d \in domains <=> Takes(address, d))'
    <2>1. d # c.domain
      BY <1>w, <1>4, <1>8
    <2>2. d \in domains <=> Takes(address, d)
      BY <1>w, <1>1, <1>8 DEF DomainFollows
    <2>3. QED BY <1>w, <1>2, <1>5, <2>1, <2>2 DEF Takes
  <1>9. ASSUME NEW q \in Requests, OnMail(q)', d \in Mail!Touches(q)'
        PROVE  /\ Include(d) \in mailScript'[q] => Takes(ViewOf(q), d)
               /\ Exclude(d) \in mailScript'[q] => ~ Takes(ViewOf(q), d)
               /\ Include(d) \notin mailScript'[q] /\ Exclude(d) \notin mailScript'[q] =>
                    (d \in domains' <=> Takes(ViewOf(q), d))
    <2>0. /\ Include(d) \in mailScript[q] => Takes(ViewOf(q), d)
          /\ Exclude(d) \in mailScript[q] => ~ Takes(ViewOf(q), d)
          /\ Include(d) \notin mailScript[q] /\ Exclude(d) \notin mailScript[q] =>
               (d \in domains <=> Takes(ViewOf(q), d))
      BY <1>w, <1>1, <1>9 DEF DomainFollows
    <2>1. CASE q # r
      <3>1. d # c.domain
        BY <1>w, <1>4, <1>9, <2>1 DEF TouchedOnce
      <3>2. QED BY <1>w, <1>5, <2>0, <2>1, <3>1
    <2>2. CASE q = r /\ d # c.domain
      BY <1>w, <1>5, <1>7, <2>0, <2>2
    <2>3. CASE q = r /\ d = c.domain
      BY <1>w, <1>3, <1>6, <2>0, <2>3
    <2>4. QED BY <2>1, <2>2, <2>3
  <1>10. ASSUME NEW q \in Requests
         PROVE  Takes(ViewOf(q), d)' <=> Takes(ViewOf(q), d)
    BY <1>w DEF Takes
  <1>11. QED BY <1>8, <1>9, <1>10 DEF DomainFollows, Include, Exclude

\* The file of domains is what it was, and so is what is to come for it.
LEMMA DomainsAreLeft ==
  ASSUME MailInv, NEW r \in Requests, NEW c, RunsForMail(r, c), c.do \notin {"include", "exclude"},
         UNCHANGED <<domains, excused>>
  PROVE  DomainsFollow'
  <1> USE DEF MailInv
  <1>w. /\ \A q \in Requests :
             /\ OnMail(q)' = OnMail(q) /\ Mail!Touches(q)' = Mail!Touches(q)
                /\ ViewOf(q)' = ViewOf(q)
        /\ \A q \in Requests \ {r} : mailScript'[q] = mailScript[q]
        /\ mailScript'[r] = mailScript[r] \ {c}
        /\ UNCHANGED <<address, hosted>>
    BY MailRowsStay
  <1> SUFFICES ASSUME NEW d \in MailDomains, d \notin excused, d # LocalDomain
               PROVE  DomainFollows(d)'
    BY DEF DomainsFollow
  <1>1. DomainFollows(d)
    BY DEF DomainsFollow
  <1>2. c # Include(d) /\ c # Exclude(d)
    BY DEF Include, Exclude
  <1>3. \A q \in Requests : /\ Include(d) \in mailScript'[q] <=> Include(d) \in mailScript[q]
                           /\ Exclude(d) \in mailScript'[q] <=> Exclude(d) \in mailScript[q]
    BY <1>w, <1>2
  <1>4. \A q \in Requests : Takes(ViewOf(q), d)' <=> Takes(ViewOf(q), d)
    BY <1>w DEF Takes
  <1>5. Takes(address, d)' <=> Takes(address, d)
    BY <1>w DEF Takes
  <1>6. QED BY <1>w, <1>1, <1>3, <1>4, <1>5 DEF DomainFollows, Include, Exclude

\* The line of an address stays right when it is what the command says.
LEMMA LinesStayRight ==
  ASSUME MailInv, NEW r \in Requests, NEW c, RunsForMail(r, c), c.do \in {"set", "unset"},
         c.email \in Addresses, maps' = [maps EXCEPT ![c.email] = LineOf(c)], UNCHANGED excused
  PROVE  LinesFollow'
  <1> USE DEF MailInv
  <1>w. /\ \A q \in Requests :
             /\ OnMail(q)' = OnMail(q) /\ WritesMail(q)' = WritesMail(q)
             /\ Mail!Touches(q)' = Mail!Touches(q) /\ ViewOf(q)' = ViewOf(q)
        /\ \A q \in Requests \ {r} : mailScript'[q] = mailScript[q]
        /\ c \in mailScript[r] /\ mailScript'[r] = mailScript[r] \ {c} /\ OnMail(r)
        /\ UNCHANGED <<address, mailChange>>
    BY MailRowsStay
  <1> SUFFICES ASSUME NEW e \in Addresses, DomainOf[e] \notin excused
               PROVE  LineFollows(e)'
    BY DEF LinesFollow
  <1>1. LineFollows(e)
    BY DEF LinesFollow
  <1>2. c.email \in WritesMail(r) /\ c \in OfAddress(c.email, r)
    BY <1>w DEF MailWritten, OfAddress
  <1>3. maps'[e] = IF e = c.email THEN LineOf(c) ELSE maps[e]
    BY DEF Mail!TypeOK
  <1>4. ASSUME \A q \in Requests : OnMail(q)' => e \notin WritesMail(q)'
        PROVE  Conveys(maps'[e], e, address[e])
    <2>1. e # c.email
      BY <1>w, <1>2, <1>4
    <2>2. Conveys(maps[e], e, address[e])
      BY <1>w, <1>1, <1>4 DEF LineFollows
    <2>3. QED BY <1>3, <2>1, <2>2
  <1>5. ASSUME NEW q \in Requests, OnMail(q)', e \in WritesMail(q)'
        PROVE  /\ \A k \in OfAddress(e, q)' : Conveys(LineOf(k), e, ViewOf(q)[e])
               /\ OfAddress(e, q)' = {} => Conveys(maps'[e], e, ViewOf(q)[e])
    <2>1. /\ \A k \in OfAddress(e, q) : Conveys(LineOf(k), e, ViewOf(q)[e])
          /\ OfAddress(e, q) = {} => Conveys(maps[e], e, ViewOf(q)[e])
      BY <1>w, <1>1, <1>5 DEF LineFollows
    <2>2. OfAddress(e, q)' = {k \in mailScript'[q] : k.do \in {"set", "unset"} /\ k.email = e}
      BY DEF OfAddress
    <2>3. CASE q = r /\ e = c.email
      BY <1>w, <1>2, <1>3, <2>1, <2>2, <2>3 DEF OfAddress
    <2>4. CASE q = r /\ e # c.email
      <3>1. OfAddress(e, q)' = OfAddress(e, q)
        BY <1>w, <2>2, <2>4 DEF OfAddress
      <3>2. QED BY <1>3, <2>1, <2>4, <3>1
    <2>5. CASE q # r
      <3>1. e # c.email
        BY <1>w, <1>2, <1>5, <2>5 DEF TouchedOnce, Mail!Touches, WritesMail
      <3>2. OfAddress(e, q)' = OfAddress(e, q)
        BY <1>w, <2>2, <2>5 DEF OfAddress
      <3>3. QED BY <1>3, <2>1, <3>1, <3>2
    <2>6. QED BY <2>3, <2>4, <2>5
  <1>6. QED BY <1>w, <1>4, <1>5 DEF LineFollows, Conveys, LineOf, Mail!Destination

\* The lines are what they were, and so are those to come.
LEMMA LinesAreLeft ==
  ASSUME MailInv, NEW r \in Requests, NEW c, RunsForMail(r, c), c.do \notin {"set", "unset"},
         UNCHANGED maps
  PROVE  LinesFollow'
  <1> USE DEF MailInv
  <1>w. /\ \A q \in Requests :
             /\ OnMail(q)' = OnMail(q) /\ WritesMail(q)' = WritesMail(q) /\ ViewOf(q)' = ViewOf(q)
        /\ \A q \in Requests \ {r} : mailScript'[q] = mailScript[q]
        /\ mailScript'[r] = mailScript[r] \ {c}
        /\ UNCHANGED address /\ excused \subseteq excused'
    BY MailRowsStay DEF RunsForMail
  <1> SUFFICES ASSUME NEW e \in Addresses, DomainOf[e] \notin excused
               PROVE  LineFollows(e)'
    BY <1>w DEF LinesFollow
  <1>1. LineFollows(e)
    BY DEF LinesFollow
  <1>2. \A q \in Requests : OfAddress(e, q)' = OfAddress(e, q)
    BY <1>w DEF OfAddress
  <1>3. QED BY <1>w, <1>1, <1>2 DEF LineFollows, Conveys, LineOf, Mail!Destination

\* What a command is, by what it does.
LEMMA MailCommand ==
  ASSUME NEW c \in Mail!Commands
  PROVE  /\ c.do = "include" => c = Include(c.domain) /\ c.domain \in MailDomains
         /\ c.do = "exclude" => c = Exclude(c.domain) /\ c.domain \in MailDomains
         /\ c.do = "set" => c.email \in Addresses /\ c.destination \in SUBSET Mailboxes
         /\ c.do = "unset" => c.email \in Addresses
  <1>1. CASE c \in [do : {"include", "exclude"}, domain : MailDomains]
    BY <1>1 DEF Include, Exclude
  <1>2. CASE c \in [do : {"set"}, email : Addresses, destination : SUBSET Mailboxes]
    BY <1>2
  <1>3. CASE c \in [do : {"unset"}, email : Addresses]
    BY <1>3
  <1>4. QED BY <1>1, <1>2, <1>3 DEF Mail!Commands

\* Each step of a script keeps the invariant: what it writes is what the rows its request
\* saw say, and it notes that Postfix is to read the file when it changes it.
LEMMA MailScriptsKeep ==
  ASSUME Mail!Assumption, MailInv, NEW r \in Requests,
         Mail!Include(r) \/ Mail!Exclude(r) \/ Mail!SetLine(r) \/ Mail!UnsetLine(r)
  PROVE  MailInv'
  <1> USE DEF MailInv
  <1>t. /\ domains \subseteq MailDomains /\ excused \subseteq MailDomains
        /\ maps \in [Addresses -> (SUBSET Mailboxes) \cup {None}]
        /\ mailScript[r] \subseteq Mail!Commands
    BY DEF Mail!TypeOK
  <1>1. ASSUME Mail!Include(r) PROVE MailInv'
    <2>1. PICK c \in mailScript[r] :
            /\ c.do = "include" /\ Mail!Executes(r, c)
            /\ domains' = domains \cup {c.domain}
            /\ IF c.domain \in domains THEN UNCHANGED postfixUpdated ELSE Mail!Sets(r, "domains")
            /\ UNCHANGED <<maps, excused>>
      BY <1>1 DEF Mail!Include
    <2>2. RunsForMail(r, c)
      BY <2>1 DEF RunsForMail
    <2>3. c = Include(c.domain) /\ c.domain \in MailDomains
      BY <1>t, <2>1, MailCommand
    <2>4. Include(c.domain).do = "include"
      BY DEF Include
    <2>5. OpenApart' /\ MailboxesThere' /\ TouchedOnce' /\ UNCHANGED postfix
      BY <2>2, MailRowsStay
    <2>6. /\ Mail!TypeOK' /\ MailWritten'
          /\ \A x : (\E q \in Requests : x \in postfixUpdated[q]) =>
             \E q \in Requests : x \in postfixUpdated'[q]
          /\ Mail!Sets(r, "domains") => "domains" \in postfixUpdated'[r]
      <3>1. domains' \subseteq MailDomains /\ excused' \subseteq MailDomains
        BY <1>t, <2>1, <2>3
      <3>2. maps' \in [Addresses -> (SUBSET Mailboxes) \cup {None}]
        BY <1>t, <2>1
      <3>3. UNCHANGED postfixUpdated \/ Mail!Sets(r, "domains")
        BY <2>1
      <3>4. QED BY <2>2, <3>1, <3>2, <3>3, MailStepKeepsTypes
    <2>7. DomainsFollow'
      <3>1. \A d \in MailDomains \ excused' :
              d \in domains' <=> (IF d = c.domain THEN c = Include(d) ELSE d \in domains)
        BY <2>1, <2>3
      <3>2. QED BY <2>2, <2>3, <3>1, DomainsStayRight
    <2>8. LinesFollow'
      <3>1. c.do \notin {"set", "unset"}
        BY <2>1
      <3>2. QED BY <2>1, <2>2, <3>1, LinesAreLeft
    <2>9. PostfixReads'
      <3>1. domains' # domains => "domains" \in postfixUpdated'[r]
        BY <2>1, <2>6
      <3>2. QED BY <2>1, <2>5, <2>6, <3>1 DEF PostfixReads
    <2>10. QED BY <2>5, <2>6, <2>7, <2>8, <2>9
  <1>2. ASSUME Mail!Exclude(r) PROVE MailInv'
    <2>0. PICK c \in mailScript[r] :
            /\ c.do = "exclude" /\ Mail!Executes(r, c)
            /\ LET d == c.domain
                   gone == IF d \in domains THEN {d} \cup Extends[d] ELSE {} IN
               /\ domains' = domains \ gone
               /\ IF d \in domains THEN Mail!Sets(r, "domains") ELSE UNCHANGED postfixUpdated
               /\ excused' = excused \cup (gone \ {d})
            /\ UNCHANGED maps
      BY <1>2 DEF Mail!Exclude
    <2> DEFINE gone == IF c.domain \in domains THEN {c.domain} \cup Extends[c.domain] ELSE {}
    <2>1. /\ c.do = "exclude" /\ Mail!Executes(r, c)
          /\ domains' = domains \ gone
          /\ IF c.domain \in domains THEN Mail!Sets(r, "domains") ELSE UNCHANGED postfixUpdated
          /\ excused' = excused \cup (gone \ {c.domain})
          /\ UNCHANGED maps
      BY <2>0
    <2>2. RunsForMail(r, c)
      BY <2>1 DEF RunsForMail
    <2>3. c = Exclude(c.domain) /\ c.domain \in MailDomains
      BY <1>t, <2>1, MailCommand
    <2>4. \A d : c # Include(d)
      BY <2>1 DEF Include
    <2>5. OpenApart' /\ MailboxesThere' /\ TouchedOnce' /\ UNCHANGED postfix
      BY <2>2, MailRowsStay
    <2>6. /\ Mail!TypeOK' /\ MailWritten'
          /\ \A x : (\E q \in Requests : x \in postfixUpdated[q]) =>
             \E q \in Requests : x \in postfixUpdated'[q]
          /\ Mail!Sets(r, "domains") => "domains" \in postfixUpdated'[r]
      <3>1. gone \subseteq MailDomains
        BY <2>3 DEF Mail!Assumption
      <3>2. domains' \subseteq MailDomains /\ excused' \subseteq MailDomains
        BY <1>t, <2>1, <3>1
      <3>3. maps' \in [Addresses -> (SUBSET Mailboxes) \cup {None}]
        BY <1>t, <2>1
      <3>4. UNCHANGED postfixUpdated \/ Mail!Sets(r, "domains")
        BY <2>1
      <3>5. QED BY <2>2, <3>2, <3>3, <3>4, MailStepKeepsTypes
    <2>7. DomainsFollow'
      <3>1. \A d \in MailDomains \ excused' :
              d \in domains' <=> (IF d = c.domain THEN c = Include(d) ELSE d \in domains)
        BY <2>1, <2>4
      <3>2. QED BY <2>2, <2>3, <3>1, DomainsStayRight
    <2>8. LinesFollow'
      <3>1. c.do \notin {"set", "unset"}
        BY <2>1
      <3>2. QED BY <2>1, <2>2, <3>1, LinesAreLeft
    <2>9. PostfixReads'
      <3>1. domains' # domains => "domains" \in postfixUpdated'[r]
        BY <2>1, <2>6
      <3>2. QED BY <2>1, <2>5, <2>6, <3>1 DEF PostfixReads
    <2>10. QED BY <2>5, <2>6, <2>7, <2>8, <2>9
  <1>3. ASSUME Mail!SetLine(r) \/ Mail!UnsetLine(r) PROVE MailInv'
    <2>1. PICK c \in mailScript[r] :
            /\ c.do \in {"set", "unset"} /\ Mail!Executes(r, c)
            /\ maps' = [maps EXCEPT ![c.email] = LineOf(c)]
            /\ IF maps[c.email] = LineOf(c) THEN UNCHANGED postfixUpdated ELSE Mail!Sets(r, "maps")
            /\ UNCHANGED <<domains, excused>>
      BY <1>3 DEF Mail!SetLine, Mail!UnsetLine, LineOf
    <2>2. RunsForMail(r, c)
      BY <2>1 DEF RunsForMail
    <2>3. c.email \in Addresses /\ LineOf(c) \in (SUBSET Mailboxes) \cup {None}
      BY <1>t, <2>1, MailCommand DEF LineOf
    <2>5. OpenApart' /\ MailboxesThere' /\ TouchedOnce' /\ UNCHANGED postfix
      BY <2>2, MailRowsStay
    <2>6. /\ Mail!TypeOK' /\ MailWritten'
          /\ \A x : (\E q \in Requests : x \in postfixUpdated[q]) =>
             \E q \in Requests : x \in postfixUpdated'[q]
          /\ Mail!Sets(r, "maps") => "maps" \in postfixUpdated'[r]
      <3>1. domains' \subseteq MailDomains /\ excused' \subseteq MailDomains
        BY <1>t, <2>1
      <3>2. maps' \in [Addresses -> (SUBSET Mailboxes) \cup {None}]
        BY <1>t, <2>1, <2>3
      <3>3. UNCHANGED postfixUpdated \/ Mail!Sets(r, "maps")
        BY <2>1
      <3>4. QED BY <2>2, <3>1, <3>2, <3>3, MailStepKeepsTypes
    <2>7. DomainsFollow'
      <3>1. c.do \notin {"include", "exclude"}
        BY <2>1
      <3>2. QED BY <2>1, <2>2, <3>1, DomainsAreLeft
    <2>8. LinesFollow'
      BY <2>1, <2>2, <2>3, LinesStayRight
    <2>9. PostfixReads'
      <3>1. maps[c.email] = LineOf(c) => maps' = maps
        BY <1>t, <2>1
      <3>2. maps' # maps => "maps" \in postfixUpdated'[r]
        BY <2>1, <2>6, <3>1
      <3>3. QED BY <2>1, <2>5, <2>6, <3>2 DEF PostfixReads
    <2>10. QED BY <2>5, <2>6, <2>7, <2>8, <2>9
  <1>4. QED BY <1>1, <1>2, <1>3

\* The end of a script keeps the invariant: nothing is left of it, so that the files are
\* right, and Postfix reads what it has changed.
LEMMA ReloadKeeps ==
  ASSUME Mail!Assumption, MailInv, NEW r \in Requests, Mail!Reload(r)
  PROVE  MailInv'
  <1> USE DEF MailInv
  <1>0. /\ mailPhase[r] = "executes" /\ mailScript[r] = {}
        /\ postfix' = [domains |-> IF "domains" \in postfixUpdated[r] THEN domains ELSE postfix.domains,
                       maps |-> IF "maps" \in postfixUpdated[r] THEN maps ELSE postfix.maps]
        /\ mailPhase' = [mailPhase EXCEPT ![r] = "none"]
        /\ postfixUpdated' = [postfixUpdated EXCEPT ![r] = {}]
        /\ mailChange' = [mailChange EXCEPT ![r] = None]
        /\ UNCHANGED <<address, mailboxes, hosted, domains, maps, mailScript, excused>>
    BY DEF Mail!Reload, Mail!db
  <1>1. /\ \A q \in Requests \ {r} : /\ mailPhase'[q] = mailPhase[q]
           /\ mailChange'[q] = mailChange[q]
                                    /\ postfixUpdated'[q] = postfixUpdated[q]
        /\ mailPhase'[r] = "none" /\ postfixUpdated'[r] = {}
    BY <1>0 DEF Mail!TypeOK, MailWritten
  <1>w. /\ \A q \in Requests \ {r} :
             /\ OnMail(q)' = OnMail(q) /\ Mail!Open(q)' = Mail!Open(q)
                /\ WritesMail(q)' = WritesMail(q)
             /\ Mail!Touches(q)' = Mail!Touches(q) /\ ViewOf(q)' = ViewOf(q)
                /\ BoxesOf(q)' = BoxesOf(q)
        /\ ~ OnMail(r)' /\ ~ Mail!Open(r)' /\ OnMail(r)
    BY <1>0, <1>1 DEF OnMail, Mail!Open, WritesMail, Mail!Touches, ViewOf, BoxesOf, Mail!Sees
  <1>2. Mail!TypeOK'
    <2>1. postfix' \in [domains : SUBSET MailDomains,
             maps : [Addresses -> (SUBSET Mailboxes) \cup {None}]]
      BY <1>0 DEF Mail!TypeOK
    <2>2. QED BY <1>0, <2>1 DEF Mail!TypeOK
  <1>3. MailWritten'
    <2>1. mailChange' = [q \in Requests |-> mailChange'[q]]
      BY <1>0 DEF MailWritten
    <2>2. ASSUME NEW q \in Requests
          PROVE  /\ OnMail(q)' => /\ mailChange'[q].mailboxes \subseteq Mailboxes
                                  /\ WritesMail(q)' \subseteq Addresses
                                  /\ \A e \in WritesMail(q)' : mailChange'[q].rows[e] \in Mail!Rows \cup {None}
                 /\ ~ OnMail(q)' => mailScript'[q] = {}
                 /\ postfixUpdated'[q] # {} => mailPhase'[q] = "executes"
                 /\ \A c \in mailScript'[q] :
                      /\ c.do \in {"include", "exclude"} => c.domain \in Mail!Touches(q)'
                      /\ c.do \in {"set", "unset"} => c.email \in WritesMail(q)'
      <3>1. CASE q = r
        BY <1>0, <1>1, <1>w, <3>1
      <3>2. CASE q # r
        BY <1>0, <1>1, <1>w, <3>2 DEF MailWritten
      <3>3. QED BY <3>1, <3>2
    <2>3. QED BY <2>1, <2>2 DEF MailWritten
  <1>4. OpenApart'
    BY <1>0, <1>1, <1>w DEF OpenApart
  <1>5. MailboxesThere'
    BY <1>0, <1>w DEF MailboxesThere, Reaches, Mail!Destination
  <1>6. TouchedOnce'
    BY <1>0, <1>w DEF TouchedOnce
  <1>7. ~ Mail!Open(r) /\ ViewOf(r) = address
    BY <1>0 DEF Mail!Open, ViewOf
  <1>8. DomainsFollow'
    <2> SUFFICES ASSUME NEW d \in MailDomains, d \notin excused, d # LocalDomain
                 PROVE  DomainFollows(d)'
      BY <1>0 DEF DomainsFollow
    <2>1. DomainFollows(d)
      BY DEF DomainsFollow
    <2>2. ASSUME \A q \in Requests : OnMail(q)' => d \notin Mail!Touches(q)'
          PROVE  d \in domains <=> Takes(address, d)
      <3>1. CASE d \in Mail!Touches(r)
        BY <1>0, <1>7, <1>w, <2>1, <3>1 DEF DomainFollows
      <3>2. CASE d \notin Mail!Touches(r)
        BY <1>w, <2>1, <2>2, <3>2 DEF DomainFollows
      <3>3. QED BY <3>1, <3>2
    <2>3. ASSUME NEW q \in Requests, OnMail(q)', d \in Mail!Touches(q)'
          PROVE  /\ Include(d) \in mailScript[q] => Takes(ViewOf(q), d)
                 /\ Exclude(d) \in mailScript[q] => ~ Takes(ViewOf(q), d)
                 /\ Include(d) \notin mailScript[q] /\ Exclude(d) \notin mailScript[q] =>
                      (d \in domains <=> Takes(ViewOf(q), d))
                 /\ Takes(ViewOf(q), d)' <=> Takes(ViewOf(q), d)
      <3>1. q # r
        BY <1>w, <2>3
      <3>2. Takes(ViewOf(q), d)' <=> Takes(ViewOf(q), d)
        BY <1>0, <1>w, <3>1 DEF Takes
      <3>3. QED BY <1>w, <2>1, <2>3, <3>1, <3>2 DEF DomainFollows
    <2>4. Takes(address, d)' <=> Takes(address, d)
      BY <1>0 DEF Takes
    <2>5. QED BY <1>0, <2>2, <2>3, <2>4 DEF DomainFollows, Include, Exclude
  <1>9. LinesFollow'
    <2> SUFFICES ASSUME NEW e \in Addresses, DomainOf[e] \notin excused
                 PROVE  LineFollows(e)'
      BY <1>0 DEF LinesFollow
    <2>1. LineFollows(e)
      BY DEF LinesFollow
    <2>2. ASSUME \A q \in Requests : OnMail(q)' => e \notin WritesMail(q)'
          PROVE  Conveys(maps[e], e, address[e])
      <3>1. CASE e \in WritesMail(r)
        <4>1. OfAddress(e, r) = {}
          BY <1>0 DEF OfAddress
        <4>2. QED BY <1>7, <1>w, <2>1, <3>1, <4>1 DEF LineFollows
      <3>2. CASE e \notin WritesMail(r)
        BY <1>w, <2>1, <2>2, <3>2 DEF LineFollows
      <3>3. QED BY <3>1, <3>2
    <2>3. ASSUME NEW q \in Requests, OnMail(q)', e \in WritesMail(q)'
          PROVE  /\ \A c \in OfAddress(e, q)' : Conveys(LineOf(c), e, ViewOf(q)'[e])
                 /\ OfAddress(e, q)' = {} => Conveys(maps[e], e, ViewOf(q)'[e])
      <3>1. q # r
        BY <1>w, <2>3
      <3>2. OfAddress(e, q)' = OfAddress(e, q)
        BY <1>0 DEF OfAddress
      <3>3. QED BY <1>w, <2>1, <2>3, <3>1, <3>2 DEF LineFollows
    <2>4. QED BY <1>0, <2>2, <2>3 DEF LineFollows, Conveys, LineOf, Mail!Destination
  <1>10. PostfixReads'
    <2>1. postfix'.domains = domains \/ \E q \in Requests : "domains" \in postfixUpdated'[q]
      <3>1. CASE "domains" \in postfixUpdated[r]
        BY <1>0, <3>1
      <3>2. CASE "domains" \notin postfixUpdated[r]
        <4>1. postfix'.domains = postfix.domains
          BY <1>0, <3>2
        <4>2. QED BY <1>1, <3>2, <4>1 DEF PostfixReads
      <3>3. QED BY <3>1, <3>2
    <2>2. postfix'.maps = maps \/ \E q \in Requests : "maps" \in postfixUpdated'[q]
      <3>1. CASE "maps" \in postfixUpdated[r]
        BY <1>0, <3>1
      <3>2. CASE "maps" \notin postfixUpdated[r]
        <4>1. postfix'.maps = postfix.maps
          BY <1>0, <3>2
        <4>2. QED BY <1>1, <3>2, <4>1 DEF PostfixReads
      <3>3. QED BY <3>1, <3>2
    <2>3. QED BY <1>0, <2>1, <2>2 DEF PostfixReads
  <1>11. QED BY <1>2, <1>3, <1>4, <1>5, <1>6, <1>8, <1>9, <1>10

\* When the records of a domain change it is excused, and nothing else changes.
LEMMA ChangeMXKeeps ==
  ASSUME Mail!Assumption, MailInv, NEW m \in MailDomains, Mail!ChangeMX(m)
  PROVE  MailInv'
  <1> USE DEF MailInv
  <1>0. /\ hosted' \subseteq hosted \cup {m} /\ \A d : d # m => (d \in hosted' <=> d \in hosted)
        /\ excused' = excused \cup {m}
        /\ UNCHANGED <<address, mailboxes, domains, maps, postfix, mailChange, mailScript,
                       postfixUpdated, mailPhase>>
    BY DEF Mail!ChangeMX, Mail!server
  <1>w. \A q \in Requests :
             /\ OnMail(q)' = OnMail(q) /\ Mail!Open(q)' = Mail!Open(q)
                /\ WritesMail(q)' = WritesMail(q)
             /\ Mail!Touches(q)' = Mail!Touches(q) /\ ViewOf(q)' = ViewOf(q)
                /\ BoxesOf(q)' = BoxesOf(q)
    BY <1>0 DEF OnMail, Mail!Open, WritesMail, Mail!Touches, ViewOf, BoxesOf, Mail!Sees
  <1>1. Mail!TypeOK' /\ MailWritten'
    BY <1>0, <1>w DEF Mail!TypeOK, MailWritten
  <1>2. OpenApart' /\ TouchedOnce'
    BY <1>0, <1>w DEF OpenApart, TouchedOnce
  <1>3. MailboxesThere'
    BY <1>0, <1>w DEF MailboxesThere, Reaches, Mail!Destination
  <1>4. DomainsFollow'
    <2> SUFFICES ASSUME NEW d \in MailDomains, d \notin excused, d # LocalDomain, d # m
                 PROVE  DomainFollows(d)'
      BY <1>0 DEF DomainsFollow
    <2>1. DomainFollows(d)
      BY DEF DomainsFollow
    <2>2. /\ Takes(address, d)' <=> Takes(address, d)
          /\ \A q \in Requests : Takes(ViewOf(q), d)' <=> Takes(ViewOf(q), d)
      BY <1>0, <1>w DEF Takes
    <2>3. QED BY <1>0, <1>w, <2>1, <2>2 DEF DomainFollows, Include, Exclude
  <1>5. LinesFollow'
    <2> SUFFICES ASSUME NEW e \in Addresses, DomainOf[e] \notin excused
                 PROVE  LineFollows(e)'
      BY <1>0 DEF LinesFollow
    <2>1. LineFollows(e)
      BY DEF LinesFollow
    <2>2. \A q \in Requests : OfAddress(e, q)' = OfAddress(e, q)
      BY <1>0 DEF OfAddress
    <2>3. QED BY <1>0, <1>w, <2>1, <2>2 DEF LineFollows, Conveys, LineOf, Mail!Destination
  <1>6. PostfixReads'
    BY <1>0 DEF PostfixReads
  <1>7. QED BY <1>1, <1>2, <1>3, <1>4, <1>5, <1>6

\* What is to come of the files, Postfix and the requests at work is so in all behaviours.
LEMMA MailInvariant ==
  ASSUME Mail!Assumption
  PROVE  Mail!Spec => []MailInv
  <1>1. Mail!Init => MailInv
    <2> SUFFICES ASSUME Mail!Init PROVE MailInv
      OBVIOUS
    <2>1. Mail!TypeOK
      BY DEF Mail!Init, Mail!TypeOK, Mail!NoMaps
    <2>2. \A r \in Requests : ~ OnMail(r) /\ ~ Mail!Open(r) /\ mailScript[r] = {}
             /\ postfixUpdated[r] = {}
      BY DEF Mail!Init, OnMail, Mail!Open
    <2>3. MailWritten
      BY <2>2 DEF MailWritten, Mail!Init
    <2>4. OpenApart /\ TouchedOnce
      BY <2>2 DEF OpenApart, TouchedOnce
    <2>5. MailboxesThere
      BY <2>2 DEF MailboxesThere, Reaches, Mail!Init, Mail!NoMaps
    <2>6. DomainsFollow
      BY <2>2 DEF DomainsFollow, DomainFollows, Takes, Mail!Init, Mail!NoMaps
    <2>7. LinesFollow
      BY <2>2 DEF LinesFollow, LineFollows, Conveys, Mail!Init, Mail!NoMaps
    <2>8. PostfixReads
      BY DEF PostfixReads, Mail!Init
    <2>9. QED BY <2>1, <2>3, <2>4, <2>5, <2>6, <2>7, <2>8 DEF MailInv
  <1>2. MailInv /\ [Mail!Next]_(Mail!vars) => MailInv'
    <2> SUFFICES ASSUME MailInv, [Mail!Next]_(Mail!vars) PROVE MailInv'
      OBVIOUS
    <2>1. ASSUME NEW r \in Requests,
                 \/ \E e \in Addresses : Mail!PutAddress(r, e) \/ Mail!RemoveAddress(r, e)
                 \/ \E m \in Mailboxes : Mail!AddMailbox(r, m) \/ Mail!RemoveMailbox(r, m)
          PROVE  MailInv'
      <3>1. \E newRows, boxes : ProperMail(r, newRows, boxes)
        BY <2>1, MailRequestsAreProper DEF MailInv, MailboxesThere
      <3>2. PICK newRows, boxes : ProperMail(r, newRows, boxes)
        BY <3>1
      <3>3. QED BY <3>2, MailRequestKeeps
    <2>2. ASSUME NEW r \in Requests, Mail!Commit(r) PROVE MailInv'
      BY <2>2, MailCommitKeeps
    <2>3. ASSUME NEW r \in Requests,
                 Mail!Include(r) \/ Mail!Exclude(r) \/ Mail!SetLine(r) \/ Mail!UnsetLine(r)
          PROVE  MailInv'
      BY <2>3, MailScriptsKeep
    <2>4. ASSUME NEW r \in Requests, Mail!Reload(r) PROVE MailInv'
      BY <2>4, ReloadKeeps
    <2>5. ASSUME NEW d \in MailDomains, Mail!ChangeMX(d) PROVE MailInv'
      BY <2>5, ChangeMXKeeps
    <2>6. CASE UNCHANGED Mail!vars
      <3>1. /\ UNCHANGED <<address, mailboxes, hosted, domains, maps, postfix, mailChange,
               mailScript,
                          postfixUpdated, mailPhase, excused>>
        BY <2>6 DEF Mail!vars
      <3>2. Mail!TypeOK'
        BY <3>1 DEF MailInv, Mail!TypeOK
      <3>w. \A q \in Requests :
               /\ OnMail(q)' = OnMail(q) /\ Mail!Open(q)' = Mail!Open(q)
                  /\ WritesMail(q)' = WritesMail(q)
               /\ Mail!Touches(q)' = Mail!Touches(q) /\ ViewOf(q)' = ViewOf(q)
                  /\ BoxesOf(q)' = BoxesOf(q)
        BY <3>1 DEF OnMail, Mail!Open, WritesMail, Mail!Touches, ViewOf, BoxesOf, Mail!Sees
      <3>3. MailWritten' /\ OpenApart' /\ TouchedOnce' /\ PostfixReads'
        BY <3>1, <3>w DEF MailInv, MailWritten, OpenApart, TouchedOnce, PostfixReads
      <3>4. MailboxesThere'
        BY <3>1, <3>w DEF MailInv, MailboxesThere, Reaches, Mail!Destination
      <3>5. DomainsFollow'
        <4> SUFFICES ASSUME NEW d \in MailDomains, d \notin excused, d # LocalDomain
                     PROVE  DomainFollows(d)'
          BY <3>1 DEF DomainsFollow
        <4>1. DomainFollows(d)
          BY DEF MailInv, DomainsFollow
        <4>2. /\ Takes(address, d)' <=> Takes(address, d)
              /\ \A q \in Requests : Takes(ViewOf(q), d)' <=> Takes(ViewOf(q), d)
          BY <3>1, <3>w DEF Takes
        <4>3. QED BY <3>1, <3>w, <4>1, <4>2 DEF DomainFollows, Include, Exclude
      <3>6. LinesFollow'
        <4> SUFFICES ASSUME NEW e \in Addresses, DomainOf[e] \notin excused
                     PROVE  LineFollows(e)'
          BY <3>1 DEF LinesFollow
        <4>1. LineFollows(e)
          BY DEF MailInv, LinesFollow
        <4>2. \A q \in Requests : OfAddress(e, q)' = OfAddress(e, q)
          BY <3>1 DEF OfAddress
        <4>3. QED BY <3>1, <3>w, <4>1, <4>2 DEF LineFollows, Conveys, LineOf, Mail!Destination
      <3>7. QED BY <3>2, <3>3, <3>4, <3>5, <3>6 DEF MailInv
    <2>7. QED BY <2>1, <2>2, <2>3, <2>4, <2>5, <2>6 DEF Mail!Next
  <1>3. QED BY <1>1, <1>2, PTL DEF Mail!Spec

\* Once no request is at work Postfix takes mail for the domains that have addresses, and
\* delivers it where the rows say, for whatever addresses, mailboxes and requests.
THEOREM MailArrivesWhereAsked ==
  ASSUME Mail!Assumption
  PROVE  Mail!Spec => []MailArrives
  <1>1. MailInv => MailArrives
    <2> SUFFICES ASSUME MailInv, Mail!Quiet PROVE MailArrives
      BY DEF MailArrives, Mail!MailIsTaken, Mail!MailGoesWhereAsked
    <2>1. \A r \in Requests : ~ OnMail(r) /\ postfixUpdated[r] = {}
      BY DEF MailInv, Mail!Quiet, OnMail, MailWritten
    <2>2. postfix.domains = domains /\ postfix.maps = maps
      BY <2>1 DEF MailInv, PostfixReads
    <2>3. Mail!MailIsTaken
      <3> SUFFICES ASSUME NEW d \in MailDomains, d \notin excused, d # LocalDomain
                   PROVE  d \in domains <=>
                            d \in hosted /\ \E e \in Addresses : DomainOf[e] = d /\ address[e] # None
        BY <2>2 DEF Mail!MailIsTaken
      <3>1. DomainFollows(d)
        BY DEF MailInv, DomainsFollow
      <3>2. QED BY <2>1, <3>1 DEF DomainFollows, Takes
    <2>4. Mail!MailGoesWhereAsked
      <3> SUFFICES ASSUME NEW e \in Addresses, DomainOf[e] \notin excused
                   PROVE  IF address[e] = None THEN maps[e] = None
                          ELSE Mail!Delivers(e) = Mail!Destination(address[e])
        BY <2>2 DEF Mail!MailGoesWhereAsked
      <3>1. Conveys(maps[e], e, address[e])
        BY <2>1 DEF MailInv, LinesFollow, LineFollows
      <3>2. CASE address[e] = None
        BY <3>1, <3>2 DEF Conveys
      <3>3. CASE address[e] # None
        <4>1. address[e] \in Mail!Rows
          BY <3>3 DEF MailInv, Mail!TypeOK
        <4>2. Mail!Destination(address[e]) \subseteq Mailboxes
          BY <4>1 DEF Mail!Rows, Mail!Destination
        <4>3. Mail!Destination(address[e]) # None
          BY <4>2 DEF Mail!Assumption
        <4>4. Mail!Destination(address[e]) \subseteq mailboxes
          BY <3>3 DEF MailInv, MailboxesThere, Reaches
        <4>5. CASE maps[e] = Mail!Destination(address[e])
          BY <2>2, <3>3, <4>3, <4>5 DEF Mail!Delivers
        <4>6. CASE maps[e] = None /\ DomainOf[e] = LocalDomain
                 /\ Mail!Destination(address[e]) = {NamesakeOf[e]}
          BY <2>2, <3>3, <4>4, <4>6 DEF Mail!Delivers
        <4>7. QED BY <3>1, <3>3, <4>5, <4>6 DEF Conveys
      <3>4. QED BY <3>2, <3>3
    <2>5. QED BY <2>3, <2>4 DEF MailArrives
  <1>2. QED BY <1>1, MailInvariant, PTL
================================================================================
