------------------------- MODULE OperationCollector -------------------------
(***************************************************************************)
(* How the pending operations of one backend are collected while a request *)
(* changes the database: manager.collect, fed by the model signals through *)
(* OperationsMiddleware.collect, for one ServiceBackend class.             *)
(*                                                                         *)
(* collect() treats the backends one by one and an Operation carries its   *)
(* backend, so the operations of two backends never meet.  Mains are the   *)
(* instances the backend manages (is_main), relateds the instances of its  *)
(* related_models: FKs reach one main through an attribute Django caches,  *)
(* M2Ms reach a set of mains through a manager that queries the database.  *)
(* What a copy of an instance holds is abstracted to whether it is the     *)
(* last saved state, leaving apart the fields of ignore_fields.            *)
(***************************************************************************)
EXTENDS OrderedSet

CONSTANTS
  Mains,       \* instances of backend.model
  FKs,         \* related instances that reach one main by a cached attribute
  M2Ms,        \* related instances that reach mains by a many to many manager
  Routed,      \* the mains some active route of the backend matches
  StaleReads   \* whether the cached attribute may hold an older copy

ASSUME CollectorAssumption ==
  /\ Routed \subseteq Mains
  /\ FKs \cap M2Ms = {}
  /\ StaleReads \in BOOLEAN

Relateds == FKs \cup M2Ms

\* Operation(backend, instance, action); two operations are the same key
\* when the three hash alike.
Save(m) == <<m, "save">>
Delete(m) == <<m, "delete">>
Operation == Mains \X {"save", "delete"}

VARIABLES
  rows,        \* the mains in the database
  links,       \* links[r]: the mains the related instance r reaches
  operations,  \* request.pending_operations, an OrderedSet
  latest,      \* the mains whose pending save carries their last state
  cachedOld,   \* cachedOld[r]: the mains r has cached in an older state
  saved,       \* the relateds saved during the request
  outdated     \* history: the mains whose configuration the request changed

vars == <<rows, links, operations, latest, cachedOld, saved, outdated>>

TypeOK ==
  /\ rows \subseteq Mains
  /\ links \in [Relateds -> SUBSET Mains]
  /\ operations \in [keys : SUBSET Operation, before : SUBSET (Operation \X Operation)]
  /\ IsOrderedSet(operations)
  /\ latest \subseteq Mains
  /\ cachedOld \in [Relateds -> SUBSET Mains]
  /\ saved \subseteq Relateds
  /\ outdated \subseteq Mains

Init ==
  /\ rows \in SUBSET Mains
  /\ links \in [Relateds -> SUBSET rows]
  /\ \A r \in FKs : \A a, b \in links[r] : a = b
  /\ operations = Empty
  /\ latest = {}
  /\ cachedOld = [r \in Relateds |-> {}]
  /\ saved = {}
  /\ outdated = {}

-----------------------------------------------------------------------------
(* manager.collect *)

\* A slip: deletes already pending are not looked for.
AllCandidates(reached) == reached

\* The related mains a signal about r selects: all that r reaches, but those
\* whose delete is already pending.
Candidates(reached) == {m \in reached : Delete(m) \notin operations.keys}

\* A slip: a pending save is added again without being discarded.
ScheduleSavesOnce(selected, changed, old) ==
  LET scheduled == {m \in selected \cap Routed : Save(m) \notin operations.keys}
      K == {Save(m) : m \in scheduled} IN
  /\ \E R \in LinearOrders(K) : operations' = MoveToEnd(operations, K, R)
  /\ latest' = (latest \ (changed \cup scheduled)) \cup (scheduled \ old)

\* The branch of collect() that schedules saves.  Operations without routes
\* are not scheduled; one that is pending moves to the end, with a new copy of
\* the instance.  "changed" are the mains whose row the signal is about, so
\* that the copies made before are not the last state any more; "old" those
\* that are copied from an older state.
ScheduleSaves(selected, changed, old) ==
  LET scheduled == selected \cap Routed
      K == {Save(m) : m \in scheduled} IN
  /\ \E R \in LinearOrders(K) : operations' = MoveToEnd(operations, K, R)
  /\ latest' = (latest \ (changed \cup scheduled)) \cup (scheduled \ old)

\* The branch that schedules a delete: the pending save goes whatever the
\* routes say, the delete keeps the place of the first one.
ScheduleDelete(m) ==
  operations' = LET rest == Discard(operations, Save(m)) IN
                IF m \in Routed THEN Add(rest, Delete(m)) ELSE rest

\* Saving m through one object leaves the copies that others cached behind.
BecomesOldElsewhere(m) ==
  LET holders == IF StaleReads THEN {r \in FKs : m \in links[r]} ELSE {} IN
  \E old \in SUBSET holders :
    cachedOld' = [r \in Relateds |->
                    IF r \in old THEN cachedOld[r] \cup {m} ELSE cachedOld[r]]

-----------------------------------------------------------------------------
(* What the views do to the database, each with its signal *)

\* post_save of a main.  A save whose update_fields are all ignored by the
\* backend is skipped: nothing the backend reads has changed.  A row deleted
\* during the request does not come back under the same identity.
SaveMain(m, ignored) ==
  /\ m \in rows \/ (m \notin outdated /\ ~ignored)
  /\ IF ignored
     THEN UNCHANGED vars
     ELSE /\ rows' = rows \cup {m}
          /\ ScheduleSaves({m}, {m}, {})
          /\ outdated' = outdated \cup {m}
          /\ BecomesOldElsewhere(m)
          /\ UNCHANGED <<links, saved>>

\* pre_delete of a main and the deletion of its row.
DeleteMain(m) ==
  /\ m \in rows
  /\ rows' = rows \ {m}
  /\ ScheduleDelete(m)
  /\ latest' = latest \ {m}
  /\ outdated' = outdated \cup {m}
  \* a manager queries the database: it no longer yields m, while the
  \* attribute of an instance in memory still does
  /\ links' = [r \in Relateds |-> IF r \in M2Ms THEN links[r] \ {m} ELSE links[r]]
  /\ UNCHANGED <<cachedOld, saved>>

\* post_save of a related instance.
SaveRelated(r) ==
  LET selected == Candidates(links[r]) IN
  /\ ScheduleSaves(selected, {}, cachedOld[r])
  /\ saved' = saved \cup {r}
  /\ outdated' = outdated \cup (links[r] \cap rows)
  /\ UNCHANGED <<rows, links, cachedOld>>

\* The creation of a related instance that reaches m.
CreateFK(r, m) ==
  LET selected == Candidates({m}) IN
  /\ links[r] = {}
  /\ m \in rows
  /\ links' = [links EXCEPT ![r] = {m}]
  /\ ScheduleSaves(selected, {}, {})
  /\ saved' = saved \cup {r}
  /\ outdated' = outdated \cup {m}
  /\ UNCHANGED <<rows, cachedOld>>

\* pre_delete of a related instance.
DeleteRelated(r) ==
  LET selected == Candidates(links[r]) IN
  /\ ScheduleSaves(selected, {}, cachedOld[r])
  /\ outdated' = outdated \cup (links[r] \cap rows)
  /\ links' = [links EXCEPT ![r] = {}]
  /\ cachedOld' = [cachedOld EXCEPT ![r] = {}]
  /\ saved' = saved \ {r}
  /\ UNCHANGED rows

\* A slip: no receiver for m2m_changed.
AddLinksUnheard(r, pk_set) ==
  /\ pk_set \subseteq rows \ links[r]
  /\ pk_set # {}
  /\ links' = [links EXCEPT ![r] = @ \cup pk_set]
  /\ outdated' = outdated \cup pk_set
  /\ UNCHANGED <<rows, operations, latest, cachedOld, saved>>

\* m2m_changed with action post_add: the mains of pk_set are collected.
AddLinks(r, pk_set) ==
  LET selected == Candidates(pk_set) IN
  /\ pk_set \subseteq rows \ links[r]
  /\ pk_set # {}
  /\ links' = [links EXCEPT ![r] = @ \cup pk_set]
  /\ ScheduleSaves(selected, {}, cachedOld[r])
  /\ outdated' = outdated \cup pk_set
  /\ UNCHANGED <<rows, cachedOld, saved>>

\* Links that go: m2m_changed is only listened to for post_add.  The forms
\* and serializers save the instance first and then set its links.
RemoveLinks(r, pk_set) ==
  /\ r \in saved
  /\ pk_set \subseteq links[r]
  /\ links' = [links EXCEPT ![r] = @ \ pk_set]
  /\ outdated' = outdated \cup pk_set
  /\ UNCHANGED <<rows, operations, latest, cachedOld, saved>>

\* The response is sent and the next request starts with no operation; the
\* instances of the request, and what they cached, are gone.
NextRequest ==
  /\ operations' = Empty
  /\ latest' = {}
  /\ links' = [r \in Relateds |-> links[r] \cap rows]
  /\ cachedOld' = [r \in Relateds |-> {}]
  /\ saved' = {}
  /\ outdated' = {}
  /\ UNCHANGED rows

Next ==
  \/ \E m \in Mains, ignored \in BOOLEAN : SaveMain(m, ignored)
  \/ \E m \in Mains : DeleteMain(m)
  \/ \E r \in Relateds : SaveRelated(r) \/ DeleteRelated(r)
  \/ \E r \in FKs, m \in Mains : CreateFK(r, m)
  \/ \E r \in M2Ms, pk_set \in SUBSET Mains : AddLinks(r, pk_set) \/ RemoveLinks(r, pk_set)
  \/ NextRequest

Spec == Init /\ [][Next]_vars

-----------------------------------------------------------------------------
(* Properties *)

\* "Prevent creating a deleted selected": whatever the order in which the
\* signals of a main and of its related instances come, a save that would
\* recreate a deleted instance on the servers is never pending.
NoSaveOfDeleted ==
  \A m \in Mains : Save(m) \in operations.keys => m \in rows

\* "We expect to be using last object state": the copy of the instance a
\* pending save carries is the last state that was saved.
PendingSaveIsLastState ==
  \A m \in Mains : Save(m) \in operations.keys => m \in latest

\* No change is lost: a main with a route whose configuration the request
\* changed, by itself or through a related instance, has an operation pending.
ChangesCollected ==
  \A m \in outdated \cap Routed :
    IF m \in rows THEN Save(m) \in operations.keys
                  ELSE Delete(m) \in operations.keys

\* What makes the three inductive: which deletes are pending, what is known of
\* the mains that a related instance still reaches, and what its save covered.
CollectorInv ==
  /\ NoSaveOfDeleted
  /\ ChangesCollected
  /\ \A m \in Mains : Save(m) \in operations.keys => m \in Routed
  /\ \A m \in Mains : Delete(m) \in operations.keys => m \notin rows /\ m \in outdated
  /\ \A r \in Relateds : \A m \in links[r] \ rows : m \in outdated
  /\ \A r \in saved : links[r] \cap rows \subseteq outdated
  /\ ~StaleReads => PendingSaveIsLastState /\ \A r \in Relateds : cachedOld[r] = {}
=============================================================================
