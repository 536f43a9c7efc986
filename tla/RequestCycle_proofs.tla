------------------------- MODULE RequestCycle_proofs -------------------------
(***************************************************************************)
(* Proofs about RequestCycle, for any workers, instances and bounds: types,*)
(* the inductive invariant CycleInv, and that the cycle implements what    *)
(* Deployment promises, as long as no view raises after a save one of the  *)
(* exceptions Django answers by itself.                                    *)
(***************************************************************************)
EXTENDS RequestCycle, TLAPS

USE RequestCycleAssumption

(* What the transaction of a worker commits. *)

LEMMA CommittedValue ==
  ASSUME TypeOK, NEW w \in Workers, NEW o \in Objects
  PROVE  /\ Committed(w)[o] \in Version
         /\ <<o, Committed(w)[o]>> \in writes[w]
              \/ (o \notin ObjectsOf(writes[w]) /\ Committed(w)[o] = db[o])
  <1>1. CASE \E v \in Version : <<o, v>> \in writes[w]
    BY <1>1 DEF Committed
  <1>2. CASE ~ \E v \in Version : <<o, v>> \in writes[w]
    <2>1. Committed(w)[o] = db[o]
      BY <1>2 DEF Committed
    <2>2. writes[w] \in Copies /\ db[o] \in Version
      BY DEF TypeOK
    <2>3. o \notin ObjectsOf(writes[w])
      BY <1>2, <2>2 DEF ObjectsOf, Copies
    <2>4. QED BY <2>1, <2>2, <2>3
  <1>3. QED BY <1>1, <1>2

LEMMA CommittedType ==
  ASSUME TypeOK, NEW w \in Workers
  PROVE  Committed(w) \in [Objects -> Version]
  BY CommittedValue DEF Committed

(* What is in execution. *)

LEMMA ExecutionMember ==
  /\ \A c : c \in InExecution <=>
        (\E w \in Workers : c \in scripts[w]) \/ (\E s \in running : c = <<s[2], s[3]>>)
  /\ \A c : c \in InExecution' <=>
        (\E w \in Workers : c \in scripts'[w]) \/ (\E s \in running' : c = <<s[2], s[3]>>)
  <1>1. ASSUME NEW c
        PROVE  c \in UNION {scripts[w] : w \in Workers} <=> \E w \in Workers : c \in scripts[w]
    OBVIOUS
  <1>2. ASSUME NEW c
        PROVE  c \in UNION {scripts'[w] : w \in Workers} <=> \E w \in Workers : c \in scripts'[w]
    OBVIOUS
  <1>3. ASSUME NEW c
        PROVE  c \in {<<s[2], s[3]>> : s \in running} <=> \E s \in running : c = <<s[2], s[3]>>
    OBVIOUS
  <1>4. ASSUME NEW c
        PROVE  c \in {<<s[2], s[3]>> : s \in running'} <=> \E s \in running' : c = <<s[2], s[3]>>
    OBVIOUS
  <1>5. ASSUME NEW c
        PROVE  c \in InExecution <=>
                 (\E w \in Workers : c \in scripts[w]) \/ (\E s \in running : c = <<s[2], s[3]>>)
    BY <1>1, <1>3 DEF InExecution
  <1>6. ASSUME NEW c
        PROVE  c \in InExecution' <=>
                 (\E w \in Workers : c \in scripts'[w]) \/ (\E s \in running' : c = <<s[2], s[3]>>)
    BY <1>2, <1>4 DEF InExecution
  <1>7. QED BY <1>5, <1>6

LEMMA ExecutionType == TypeOK => InExecution \in Copies
  <1> SUFFICES ASSUME TypeOK, NEW c \in InExecution PROVE c \in Objects \X Version
    BY DEF Copies
  <1>1. CASE \E w \in Workers : c \in scripts[w]
    BY <1>1 DEF TypeOK, Copies
  <1>2. CASE \E s \in running : c = <<s[2], s[3]>>
    BY <1>2 DEF TypeOK
  <1>3. QED BY <1>1, <1>2, ExecutionMember

-----------------------------------------------------------------------------
(* Types *)

LEMMA LeaveTypes ==
  ASSUME TypeOK, NEW w \in Workers, Leave(w)
  PROVE  /\ phase' \in [Workers -> Phases]
         /\ status500' \in [Workers -> BOOLEAN]
         /\ writes' \in [Workers -> Copies]
         /\ pending' \in [Workers -> Copies]
         /\ \A u \in Workers : OneEach(writes'[u]) /\ OneEach(pending'[u])
  BY DEF TypeOK, Leave, Phases, Copies, OneEach

LEMMA TypeStep == TypeOK /\ [Next]_vars => TypeOK'
  <1> SUFFICES ASSUME TypeOK, [Next]_vars PROVE TypeOK'
    OBVIOUS
  <1>1. ASSUME NEW w \in Workers, ProcessRequest(w) PROVE TypeOK'
    BY <1>1 DEF TypeOK, ProcessRequest, Phases
  <1>2. ASSUME NEW w \in Workers, NEW o \in Objects, SaveObject(w, o) PROVE TypeOK'
    <2> DEFINE saved == <<o, last[o] + 1>>
    <2>1. last[o] \in Nat /\ last[o] + 1 \in Version
      BY <1>2 DEF TypeOK, SaveObject, Version
    <2>2. last' \in [Objects -> Version]
      BY <1>2, <2>1 DEF TypeOK, SaveObject
    <2>3. /\ writes' = [writes EXCEPT ![w] = Without(@, o) \cup {saved}]
          /\ pending' = [pending EXCEPT ![w] = Without(@, o) \cup {saved}]
      BY <1>2 DEF SaveObject
    <2>4. ASSUME NEW copies \in Copies
          PROVE  Without(copies, o) \cup {saved} \in Copies
      BY <2>1 DEF Copies, Without
    <2>5. ASSUME NEW copies \in Copies, OneEach(copies)
          PROVE  OneEach(Without(copies, o) \cup {saved})
      BY <2>5 DEF Copies, OneEach, Without
    <2>6. writes' \in [Workers -> Copies] /\ pending' \in [Workers -> Copies]
      BY <2>3, <2>4 DEF TypeOK
    <2>7. \A u \in Workers : OneEach(writes'[u]) /\ OneEach(pending'[u])
      BY <2>3, <2>5 DEF TypeOK
    <2>8. QED BY <1>2, <2>2, <2>6, <2>7 DEF TypeOK, SaveObject
  <1>3. ASSUME NEW w \in Workers, ViewReturns(w) PROVE TypeOK'
    BY <1>3 DEF TypeOK, ViewReturns, Phases
  <1>4. ASSUME NEW w \in Workers, ProcessException(w) PROVE TypeOK'
    BY <1>4 DEF TypeOK, ProcessException, Phases, Copies, OneEach
  <1>5. ASSUME NEW w \in Workers, ProcessResponseIdle(w) PROVE TypeOK'
    BY <1>5, LeaveTypes, CommittedType DEF TypeOK, ProcessResponseIdle
  <1>6. ASSUME NEW w \in Workers, ProcessResponseFails(w) PROVE TypeOK'
    BY <1>6, LeaveTypes DEF TypeOK, ProcessResponseFails
  <1>7. ASSUME NEW w \in Workers, ProcessResponse(w) PROVE TypeOK'
    <2>1. db' \in [Objects -> Version]
      BY <1>7, CommittedType DEF ProcessResponse
    <2>2. overtaken' \in Copies
      BY <1>7, ExecutionType DEF TypeOK, ProcessResponse, Copies
    <2>3. /\ phase' \in [Workers -> Phases] /\ scripts' \in [Workers -> Copies]
          /\ serialize' \in [Workers -> BOOLEAN]
          /\ pending' \in [Workers -> Copies] /\ writes' \in [Workers -> Copies]
          /\ \A u \in Workers : OneEach(writes'[u]) /\ OneEach(pending'[u])
      BY <1>7 DEF TypeOK, ProcessResponse, Phases, Copies, OneEach
    <2>4. UNCHANGED <<last, servers, status500, running, logged, lost>>
      BY <1>7 DEF ProcessResponse
    <2>5. QED BY <2>1, <2>2, <2>3, <2>4 DEF TypeOK
  <1>8. ASSUME NEW w \in Workers, NEW o \in Objects, NEW v \in Version, Launch(w, o, v)
        PROVE TypeOK'
    <2>1. PICK is_async \in BOOLEAN : running' = running \cup {<<w, o, v, is_async>>}
      BY <1>8, Zenon DEF Launch
    <2>2. running' \subseteq Workers \X Objects \X Version \X BOOLEAN
      BY <2>1 DEF TypeOK
    <2>3. scripts' \in [Workers -> Copies]
      BY <1>8 DEF TypeOK, Launch, Copies
    <2>4. UNCHANGED <<db, last, servers, phase, status500, writes, pending, serialize,
                    logged, lost, overtaken>>
      BY <1>8 DEF Launch
    <2>5. QED BY <2>2, <2>3, <2>4 DEF TypeOK
  <1>9. ASSUME NEW w \in Workers, SendResponse(w) PROVE TypeOK'
    BY <1>9, LeaveTypes DEF TypeOK, SendResponse
  <1>10. ASSUME NEW w \in Workers, Crash(w) PROVE TypeOK'
    <2>1. scripts' \in [Workers -> Copies]
      BY <1>10 DEF TypeOK, Crash, Copies
    <2>2. running' \subseteq running
      BY <1>10 DEF Crash
    <2>3. lost' \in Copies
      BY <1>10 DEF TypeOK, Crash, Copies
    <2>4. QED BY <1>10, <2>1, <2>2, <2>3, LeaveTypes DEF TypeOK, Crash
  <1>11. ASSUME NEW s \in running, NEW success \in BOOLEAN, ScriptEnds(s, success)
         PROVE TypeOK'
    <2>1. s[2] \in Objects /\ s[3] \in Version
      BY DEF TypeOK
    <2>2. servers' \in [Objects -> Version] /\ logged' \in Copies
      BY <1>11, <2>1 DEF TypeOK, ScriptEnds, Copies
    <2>3. running' \subseteq running
      BY <1>11 DEF ScriptEnds
    <2>4. QED BY <1>11, <2>2, <2>3 DEF TypeOK, ScriptEnds
  <1>12. CASE UNCHANGED vars
    BY <1>12 DEF TypeOK, vars
  <1>13. QED
    BY <1>1, <1>2, <1>3, <1>4, <1>5, <1>6, <1>7, <1>8, <1>9, <1>10, <1>11, <1>12 DEF Next

LEMMA TypeInit == Init => TypeOK
  BY DEF Init, TypeOK, Version, Phases, Copies, OneEach

\* The variables keep their types, and a transaction and the operations it
\* leaves pending hold one copy of an instance (OrderedSet of
\* utils/python.py, and a row of the database).
THEOREM TypeCorrect == Spec => []TypeOK
  BY TypeInit, TypeStep, PTL DEF Spec

-----------------------------------------------------------------------------
(* The inductive invariant *)

\* What is in execution: scripts to be launched and running scripts.
LEMMA CycleInit == Init => CycleInv
  BY DEF Init, CycleInv, OnlyCommittedIsExecuted, CommitsAccountedFor, InExecution,
         SynchronousScriptsJoined, Synchronous, ExecutedOnce, PendingIsWritten, WritesAreNew,
         ObjectsOf

\* Steps that neither commit nor launch leave what is in execution alone.
LEMMA SameExecution ==
  ASSUME CycleInv, UNCHANGED <<db, scripts, running, logged, lost>>
  PROVE  OnlyCommittedIsExecuted' /\ CommitsAccountedFor' /\ ExecutedOnce'
  BY DEF CycleInv, OnlyCommittedIsExecuted, CommitsAccountedFor, ExecutedOnce, InExecution

LEMMA SaveObjectInv ==
  ASSUME TypeOK, CycleInv, NEW w \in Workers, NEW o \in Objects, SaveObject(w, o)
  PROVE  CycleInv'
  <1> DEFINE saved == <<o, last[o] + 1>>
  <1>1. /\ phase[w] = "view" /\ ~status500[w] /\ UNCHANGED <<phase, status500, db>>
        /\ last' = [last EXCEPT ![o] = @ + 1]
        /\ \A other \in Workers \ {w} : o \notin ObjectsOf(writes[other])
    BY DEF SaveObject, CycleInv, PendingIsWritten
  <1>2. /\ writes' = [writes EXCEPT ![w] = Without(writes[w], o) \cup {saved}]
        /\ pending' = [pending EXCEPT ![w] = Without(pending[w], o) \cup {saved}]
    BY DEF SaveObject
  <1>3. ASSUME NEW u \in Workers PROVE PendingIsWritten(u)'
    BY <1>1, <1>2 DEF CycleInv, PendingIsWritten, TypeOK
  <1>4. \A p \in Objects : db'[p] <= last'[p] /\ last[p] <= last'[p]
    BY <1>1 DEF CycleInv, WritesAreNew, TypeOK, Version
  <1>5. ASSUME NEW u \in Workers, NEW c \in writes'[u]
        PROVE  db'[c[1]] < c[2] /\ c[2] <= last'[c[1]]
    <2>1. CASE c = saved /\ u = w
      BY <1>1, <2>1 DEF CycleInv, WritesAreNew, TypeOK, Version
    <2>2. CASE ~(c = saved /\ u = w)
      <3>1. c \in writes[u]
        BY <1>2, <2>2 DEF TypeOK, Without
      <3>2. c[1] \in Objects /\ c[2] \in Nat
        BY <3>1 DEF TypeOK, Copies, Version
      <3>3. db[c[1]] < c[2] /\ c[2] <= last[c[1]]
        BY <3>1 DEF CycleInv, WritesAreNew
      <3>4. QED BY <1>1, <1>4, <3>2, <3>3 DEF TypeOK, Version
    <2>3. QED BY <2>1, <2>2
  <1>6. ASSUME NEW u \in Workers
        PROVE  ObjectsOf(writes'[u]) \subseteq
                 ObjectsOf(writes[u]) \cup (IF u = w THEN {o} ELSE {})
    BY <1>2 DEF ObjectsOf, Without, TypeOK
  <1>7. ASSUME NEW u \in Workers, NEW x \in Workers, u # x
        PROVE  ObjectsOf(writes'[u]) \cap ObjectsOf(writes'[x]) = {}
    <2>1. ObjectsOf(writes[u]) \cap ObjectsOf(writes[x]) = {}
      BY <1>7 DEF CycleInv, WritesAreNew
    <2>2. QED BY <1>1, <1>6, <1>7, <2>1
  <1>8. WritesAreNew'
    BY <1>4, <1>5, <1>7 DEF WritesAreNew
  <1>9. OnlyCommittedIsExecuted' /\ CommitsAccountedFor' /\ ExecutedOnce'
    BY SameExecution DEF SaveObject
  <1>10. SynchronousScriptsJoined'
    BY DEF SaveObject, CycleInv, SynchronousScriptsJoined, Synchronous
  <1>11. QED BY <1>3, <1>8, <1>9, <1>10 DEF CycleInv

\* What is left in execution when the transaction of w commits newer states.
LEMMA ProcessResponseInv ==
  ASSUME TypeOK, CycleInv, NEW w \in Workers, ProcessResponse(w)
  PROVE  CycleInv'
  <1>1. /\ phase[w] = "response" /\ ~status500[w]
        /\ db' = Committed(w)
        /\ scripts' = [scripts EXCEPT ![w] = pending[w]]
        /\ writes' = [writes EXCEPT ![w] = {}]
        /\ pending' = [pending EXCEPT ![w] = {}]
        /\ phase' = [phase EXCEPT ![w] = "executing"]
        /\ UNCHANGED <<last, status500, running, logged, lost>>
    BY DEF ProcessResponse
  <1>2. pending[w] = writes[w]
    BY <1>1 DEF CycleInv, PendingIsWritten
  <1>3. ASSUME NEW o \in Objects
        PROVE  db'[o] \in Nat /\ db[o] <= db'[o] /\ db'[o] <= last[o]
    <2>1. CASE <<o, Committed(w)[o]>> \in writes[w]
      BY <1>1, <2>1, CommittedValue DEF CycleInv, WritesAreNew, TypeOK, Version
    <2>2. CASE Committed(w)[o] = db[o]
      BY <1>1, <2>2 DEF CycleInv, WritesAreNew, TypeOK, Version
    <2>3. QED BY <2>1, <2>2, CommittedValue
  <1>4. ASSUME NEW u \in Workers PROVE PendingIsWritten(u)'
    BY <1>1 DEF CycleInv, PendingIsWritten, TypeOK
  <1>5. ASSUME NEW c \in writes[w] PROVE c[2] <= db'[c[1]]
    <2>1. c[1] \in Objects /\ c = <<c[1], c[2]>>
      BY DEF TypeOK, Copies
    <2>2. c[1] \in ObjectsOf(writes[w])
      BY DEF ObjectsOf
    <2>3. <<c[1], Committed(w)[c[1]]>> \in writes[w]
      BY <2>1, <2>2, CommittedValue
    <2>4. Committed(w)[c[1]] = c[2]
      BY <2>1, <2>3 DEF TypeOK, OneEach
    <2>5. QED BY <1>1, <1>3, <2>1, <2>4
  <1>6. InExecution' \subseteq InExecution \cup writes[w]
    BY <1>1, <1>2, ExecutionMember DEF TypeOK
  <1>7. OnlyCommittedIsExecuted'
    <2> SUFFICES ASSUME NEW c \in InExecution' PROVE c[2] <= db'[c[1]]
      BY DEF OnlyCommittedIsExecuted
    <2>1. CASE c \in writes[w]
      BY <2>1, <1>5
    <2>2. CASE c \in InExecution
      <3>1. c[1] \in Objects /\ c[2] \in Nat
        BY <2>2, ExecutionType DEF Copies, Version
      <3>2. c[2] <= db[c[1]]
        BY <2>2 DEF CycleInv, OnlyCommittedIsExecuted
      <3>3. QED BY <1>3, <3>1, <3>2 DEF TypeOK, Version
    <2>3. QED BY <1>6, <2>1, <2>2
  <1>8. InExecution \cup writes[w] \subseteq InExecution'
    <2>1. scripts[w] = {}
      BY <1>1 DEF CycleInv, SynchronousScriptsJoined
    <2>2. QED BY <1>1, <1>2, <2>1 DEF InExecution, TypeOK
  <1>9. CommitsAccountedFor'
    <2> SUFFICES ASSUME NEW o \in Objects, db'[o] > 0
                 PROVE  <<o, db'[o]>> \in InExecution' \cup logged \cup lost
      BY <1>1 DEF CommitsAccountedFor
    <2>1. CASE <<o, Committed(w)[o]>> \in writes[w]
      BY <1>1, <1>8, <2>1
    <2>2. CASE Committed(w)[o] = db[o]
      BY <1>1, <1>8, <2>2 DEF CycleInv, CommitsAccountedFor
    <2>3. QED BY <2>1, <2>2, CommittedValue
  <1>10. SynchronousScriptsJoined'
    BY <1>1 DEF CycleInv, SynchronousScriptsJoined, Synchronous, TypeOK
  <1>11. WritesAreNew'
    <2>1. ASSUME NEW u \in Workers, NEW c \in writes'[u]
          PROVE  db'[c[1]] < c[2] /\ c[2] <= last'[c[1]]
      <3>1. u # w /\ c \in writes[u]
        BY <1>1, <2>1 DEF TypeOK
      <3>2. c[1] \in ObjectsOf(writes[u]) /\ c[1] \in Objects
        BY <3>1 DEF ObjectsOf, TypeOK, Copies
      <3>3. c[1] \notin ObjectsOf(writes[w])
        <4>1. ObjectsOf(writes[u]) \cap ObjectsOf(writes[w]) = {}
          BY <3>1 DEF CycleInv, WritesAreNew
        <4>2. QED BY <3>2, <4>1
      <3>4. Committed(w)[c[1]] = db[c[1]]
        <4>1. \A v : <<c[1], v>> \notin writes[w]
          BY <3>3 DEF ObjectsOf
        <4>2. QED BY <3>2, <4>1, CommittedValue
      <3>5. QED BY <1>1, <3>1, <3>4 DEF CycleInv, WritesAreNew
    <2>2. ASSUME NEW u \in Workers, NEW x \in Workers, u # x
          PROVE  ObjectsOf(writes'[u]) \cap ObjectsOf(writes'[x]) = {}
      <3>1. ASSUME NEW y \in Workers PROVE ObjectsOf(writes'[y]) \subseteq ObjectsOf(writes[y])
        BY <1>1 DEF ObjectsOf, TypeOK
      <3>2. ObjectsOf(writes[u]) \cap ObjectsOf(writes[x]) = {}
        BY <2>2 DEF CycleInv, WritesAreNew
      <3>3. QED BY <3>1, <3>2
    <2>3. QED BY <1>1, <1>3, <2>1, <2>2 DEF WritesAreNew
  <1>12. ExecutedOnce'
    <2>1. ASSUME NEW c \in writes[w] PROVE c \notin InExecution
      <3>1. c[1] \in Objects /\ c[2] \in Nat /\ db[c[1]] \in Nat /\ db[c[1]] < c[2]
        BY DEF CycleInv, WritesAreNew, TypeOK, Copies, Version
      <3>2. c \in InExecution => c[2] <= db[c[1]]
        BY DEF CycleInv, OnlyCommittedIsExecuted
      <3>3. QED BY <3>1, <3>2
    <2>2. \A u \in Workers : scripts[u] \cap writes[w] = {}
      BY <2>1, ExecutionMember
    <2>3. \A s \in running : <<s[2], s[3]>> \notin writes[w]
      BY <2>1, ExecutionMember
    <2>4. QED BY <1>1, <1>2, <2>2, <2>3 DEF CycleInv, ExecutedOnce, TypeOK
  <1>13. QED BY <1>4, <1>7, <1>9, <1>10, <1>11, <1>12 DEF CycleInv

\* Every way out of a request that commits nothing.
LEMMA LeaveInv ==
  ASSUME TypeOK, CycleInv, NEW w \in Workers, Leave(w), UNCHANGED <<db, last>>
  PROVE  (\A u \in Workers : PendingIsWritten(u)') /\ WritesAreNew'
  <1>1. \A u \in Workers : PendingIsWritten(u)'
    BY DEF Leave, CycleInv, PendingIsWritten, TypeOK
  <1>2. \A u \in Workers : writes'[u] \subseteq writes[u]
    BY DEF Leave, TypeOK
  <1>3. \A u \in Workers : ObjectsOf(writes'[u]) \subseteq ObjectsOf(writes[u])
    BY <1>2 DEF ObjectsOf
  <1>4. QED BY <1>1, <1>2, <1>3 DEF CycleInv, WritesAreNew

LEMMA CrashInv ==
  ASSUME TypeOK, CycleInv, NEW w \in Workers, Crash(w)
  PROVE  CycleInv'
  <1>1. /\ scripts' = [scripts EXCEPT ![w] = {}]
        /\ running' = {s \in running : s[1] # w}
        /\ lost' = lost \cup scripts[w] \cup {<<s[2], s[3]>> : s \in {r \in running : r[1] = w}}
        /\ Leave(w)
        /\ UNCHANGED <<db, last, servers, logged>>
    BY DEF Crash
  <1>2. InExecution' \subseteq InExecution
    BY <1>1 DEF InExecution, TypeOK
  <1>3. OnlyCommittedIsExecuted'
    BY <1>1, <1>2 DEF CycleInv, OnlyCommittedIsExecuted
  <1>4. InExecution \cup lost \subseteq InExecution' \cup lost'
    <2>1. ASSUME NEW u \in Workers PROVE scripts[u] \subseteq InExecution' \cup lost'
      BY <1>1 DEF InExecution, TypeOK
    <2>2. ASSUME NEW s \in running PROVE <<s[2], s[3]>> \in InExecution' \cup lost'
      <3>1. CASE s[1] = w
        BY <1>1, <3>1
      <3>2. CASE s[1] # w
        BY <1>1, <3>2, ExecutionMember
      <3>3. QED BY <3>1, <3>2
    <2>3. lost \subseteq lost'
      BY <1>1
    <2>4. QED BY <2>1, <2>2, <2>3, ExecutionMember
  <1>5. CommitsAccountedFor'
    BY <1>1, <1>4 DEF CycleInv, CommitsAccountedFor
  <1>6. SynchronousScriptsJoined'
    BY <1>1 DEF CycleInv, SynchronousScriptsJoined, Synchronous, TypeOK, Leave
  <1>7. ExecutedOnce'
    BY <1>1 DEF CycleInv, ExecutedOnce, TypeOK
  <1>8. QED BY <1>1, <1>3, <1>5, <1>6, <1>7, LeaveInv DEF CycleInv

LEMMA ScriptEndsInv ==
  ASSUME TypeOK, CycleInv, NEW s \in running, NEW success \in BOOLEAN, ScriptEnds(s, success)
  PROVE  CycleInv'
  <1>1. /\ running' = running \ {s}
        /\ logged' = logged \cup {<<s[2], s[3]>>}
        /\ UNCHANGED <<db, last, phase, status500, writes, pending, scripts, lost>>
    BY DEF ScriptEnds
  <1>2. InExecution' \subseteq InExecution /\ InExecution \subseteq InExecution' \cup {<<s[2], s[3]>>}
    BY <1>1, ExecutionMember
  <1>3. OnlyCommittedIsExecuted'
    BY <1>1, <1>2 DEF CycleInv, OnlyCommittedIsExecuted
  <1>4. CommitsAccountedFor'
    BY <1>1, <1>2 DEF CycleInv, CommitsAccountedFor
  <1>5. SynchronousScriptsJoined'
    BY <1>1 DEF CycleInv, SynchronousScriptsJoined, Synchronous
  <1>6. ExecutedOnce'
    BY <1>1 DEF CycleInv, ExecutedOnce
  <1>7. QED BY <1>1, <1>3, <1>4, <1>5, <1>6 DEF CycleInv, PendingIsWritten, WritesAreNew

LEMMA LaunchInv ==
  ASSUME TypeOK, CycleInv, NEW w \in Workers, NEW o \in Objects, NEW v \in Version, Launch(w, o, v)
  PROVE  CycleInv'
  <1>1. PICK is_async \in BOOLEAN : running' = running \cup {<<w, o, v, is_async>>}
    BY Zenon DEF Launch
  <1>2. /\ phase[w] = "executing"
        /\ <<o, v>> \in scripts[w]
        /\ scripts' = [scripts EXCEPT ![w] = @ \ {<<o, v>>}]
        /\ UNCHANGED <<db, last, phase, status500, writes, pending, logged, lost>>
    BY DEF Launch
  <1>3. InExecution' = InExecution
    <2>1. InExecution' \subseteq InExecution
      <3> SUFFICES ASSUME NEW c \in InExecution' PROVE c \in InExecution
        OBVIOUS
      <3>1. CASE \E u \in Workers : c \in scripts'[u]
        BY <1>2, <3>1, ExecutionMember DEF TypeOK
      <3>2. CASE \E s \in running' : c = <<s[2], s[3]>>
        <4>1. PICK s \in running' : c = <<s[2], s[3]>>
          BY <3>2
        <4>2. s \in running \/ c = <<o, v>>
          BY <1>1, <4>1
        <4>3. QED BY <1>2, <4>1, <4>2, ExecutionMember
      <3>3. QED BY <3>1, <3>2, ExecutionMember
    <2>2. ASSUME NEW u \in Workers PROVE scripts[u] \subseteq scripts'[u] \cup {<<o, v>>}
      BY <1>2 DEF TypeOK
    <2>3. <<o, v>> \in InExecution'
      <3>1. <<w, o, v, is_async>> \in running'
        BY <1>1
      <3>2. QED BY <3>1, ExecutionMember
    <2>4. InExecution \subseteq InExecution'
      BY <1>1, <2>2, <2>3, ExecutionMember
    <2>5. QED BY <2>1, <2>4
  <1>4. OnlyCommittedIsExecuted' /\ CommitsAccountedFor'
    BY <1>2, <1>3 DEF CycleInv, OnlyCommittedIsExecuted, CommitsAccountedFor
  <1>5. SynchronousScriptsJoined'
    BY <1>1, <1>2 DEF CycleInv, SynchronousScriptsJoined, Synchronous, TypeOK
  <1>6. ExecutedOnce'
    <2>1. \A u \in Workers : scripts'[u] \subseteq scripts[u] /\ <<o, v>> \notin scripts'[u]
      BY <1>2 DEF CycleInv, ExecutedOnce, TypeOK
    <2>2. \A s \in running : ~(s[2] = o /\ s[3] = v)
      BY <1>2 DEF CycleInv, ExecutedOnce
    <2>3. QED BY <1>1, <2>1, <2>2 DEF CycleInv, ExecutedOnce
  <1>7. QED BY <1>2, <1>4, <1>5, <1>6 DEF CycleInv, PendingIsWritten, WritesAreNew

LEMMA CycleStep ==
  ASSUME HandledErrors = FALSE, TypeOK, CycleInv, [Next]_vars
  PROVE  CycleInv'
  <1>1. ASSUME NEW w \in Workers, ProcessRequest(w) PROVE CycleInv'
    <2>1. /\ phase' = [phase EXCEPT ![w] = "view"]
          /\ phase[w] = "idle"
          /\ UNCHANGED <<db, last, status500, writes, pending, scripts, running, logged, lost>>
      BY <1>1 DEF ProcessRequest
    <2>2. \A u \in Workers : PendingIsWritten(u)'
      BY <2>1 DEF CycleInv, PendingIsWritten, TypeOK
    <2>3. WritesAreNew' /\ SynchronousScriptsJoined'
      BY <2>1 DEF CycleInv, WritesAreNew, SynchronousScriptsJoined, Synchronous, TypeOK
    <2>4. QED BY <2>1, <2>2, <2>3, SameExecution DEF CycleInv
  <1>2. ASSUME NEW w \in Workers, NEW o \in Objects, SaveObject(w, o) PROVE CycleInv'
    BY <1>2, SaveObjectInv
  <1>3. ASSUME NEW w \in Workers, ViewReturns(w) PROVE CycleInv'
    <2>1. /\ phase' = [phase EXCEPT ![w] = "response"]
          /\ phase[w] = "view"
          /\ UNCHANGED <<db, last, status500, writes, pending, scripts, running, logged, lost>>
      BY <1>3 DEF ViewReturns
    <2>2. \A u \in Workers : PendingIsWritten(u)'
      BY <2>1 DEF CycleInv, PendingIsWritten, TypeOK
    <2>3. WritesAreNew' /\ SynchronousScriptsJoined'
      BY <2>1 DEF CycleInv, WritesAreNew, SynchronousScriptsJoined, Synchronous, TypeOK
    <2>4. QED BY <2>1, <2>2, <2>3, SameExecution DEF CycleInv
  <1>4. ASSUME NEW w \in Workers, ProcessException(w) PROVE CycleInv'
    <2>1. /\ phase' = [phase EXCEPT ![w] = "response"]
          /\ status500' = [status500 EXCEPT ![w] = TRUE]
          /\ writes' = [writes EXCEPT ![w] = {}]
          /\ phase[w] = "view"
          /\ UNCHANGED <<db, last, pending, scripts, running, logged, lost>>
      BY <1>4 DEF ProcessException
    <2>2. \A u \in Workers : PendingIsWritten(u)'
      BY <2>1 DEF CycleInv, PendingIsWritten, TypeOK
    <2>3. \A u \in Workers : writes'[u] \subseteq writes[u]
      BY <2>1 DEF TypeOK
    <2>4. \A u \in Workers : ObjectsOf(writes'[u]) \subseteq ObjectsOf(writes[u])
      BY <2>3 DEF ObjectsOf
    <2>5. WritesAreNew'
      BY <2>1, <2>3, <2>4 DEF CycleInv, WritesAreNew
    <2>6. SynchronousScriptsJoined'
      BY <2>1 DEF CycleInv, SynchronousScriptsJoined, Synchronous, TypeOK
    <2>7. QED BY <2>1, <2>2, <2>5, <2>6, SameExecution DEF CycleInv
  <1>5. ASSUME NEW w \in Workers, ProcessResponseIdle(w) PROVE CycleInv'
    <2>1. writes[w] = {}
      BY <1>5 DEF ProcessResponseIdle, CycleInv, PendingIsWritten
    <2>2. Committed(w) = db
      <3>1. \A o \in Objects : Committed(w)[o] = db[o]
        BY <2>1, CommittedValue
      <3>2. QED BY <3>1 DEF Committed, TypeOK
    <2>3. Leave(w) /\ UNCHANGED <<db, last, scripts, running, logged, lost>>
      BY <1>5, <2>2 DEF ProcessResponseIdle
    <2>4. phase[w] = "response"
      BY <1>5 DEF ProcessResponseIdle
    <2>5. SynchronousScriptsJoined'
      BY <2>3, <2>4 DEF CycleInv, SynchronousScriptsJoined, Synchronous, TypeOK, Leave
    <2>6. QED BY <2>3, <2>5, LeaveInv, SameExecution DEF CycleInv
  <1>6. ASSUME NEW w \in Workers, ProcessResponseFails(w) PROVE CycleInv'
    <2>1. /\ Leave(w) /\ phase[w] = "response"
          /\ UNCHANGED <<db, last, scripts, running, logged, lost>>
      BY <1>6 DEF ProcessResponseFails
    <2>2. SynchronousScriptsJoined'
      BY <2>1 DEF CycleInv, SynchronousScriptsJoined, Synchronous, TypeOK, Leave
    <2>3. QED BY <2>1, <2>2, LeaveInv, SameExecution DEF CycleInv
  <1>7. ASSUME NEW w \in Workers, ProcessResponse(w) PROVE CycleInv'
    BY <1>7, ProcessResponseInv
  <1>8. ASSUME NEW w \in Workers, NEW o \in Objects, NEW v \in Version, Launch(w, o, v)
        PROVE CycleInv'
    BY <1>8, LaunchInv
  <1>9. ASSUME NEW w \in Workers, SendResponse(w) PROVE CycleInv'
    <2>1. /\ Leave(w) /\ scripts[w] = {} /\ Synchronous(w) = {}
          /\ UNCHANGED <<db, last, scripts, running, logged, lost>>
      BY <1>9 DEF SendResponse
    <2>2. SynchronousScriptsJoined'
      BY <2>1 DEF CycleInv, SynchronousScriptsJoined, Synchronous, TypeOK, Leave
    <2>3. QED BY <2>1, <2>2, LeaveInv, SameExecution DEF CycleInv
  <1>10. ASSUME NEW w \in Workers, Crash(w) PROVE CycleInv'
    BY <1>10, CrashInv
  <1>11. ASSUME NEW s \in running, NEW success \in BOOLEAN, ScriptEnds(s, success)
         PROVE CycleInv'
    BY <1>11, ScriptEndsInv
  <1>12. CASE UNCHANGED vars
    BY <1>12 DEF vars, CycleInv, OnlyCommittedIsExecuted, CommitsAccountedFor, InExecution,
       SynchronousScriptsJoined, Synchronous, ExecutedOnce, PendingIsWritten, WritesAreNew,
       ObjectsOf
  <1>13. QED
    BY <1>1, <1>2, <1>3, <1>4, <1>5, <1>6, <1>7, <1>8, <1>9, <1>10, <1>11, <1>12 DEF Next

\* The inductive invariant holds as long as no view raises Http404 or
\* PermissionDenied after a save.
THEOREM CycleInvariant == ASSUME HandledErrors = FALSE PROVE Spec => []CycleInv
  <1>1. TypeOK /\ CycleInv /\ [Next]_vars => CycleInv'
    BY CycleStep
  <1>2. QED BY <1>1, CycleInit, TypeCorrect, PTL DEF Spec

\* OperationsMiddleware.process_response: what is executed on the servers was
\* committed before.
THEOREM ExecutedWasCommitted ==
  ASSUME HandledErrors = FALSE PROVE Spec => []OnlyCommittedIsExecuted
  <1>1. CycleInv => OnlyCommittedIsExecuted
    BY DEF CycleInv
  <1>2. QED BY <1>1, CycleInvariant, PTL

\* manager.execute: each committed change is in execution, logged, or lost
\* with the process that executed it.
THEOREM NoCommitForgotten ==
  ASSUME HandledErrors = FALSE PROVE Spec => []CommitsAccountedFor
  <1>1. CycleInv => CommitsAccountedFor
    BY DEF CycleInv
  <1>2. QED BY <1>1, CycleInvariant, PTL

-----------------------------------------------------------------------------
(* The refinement of Deployment *)

\* Steps that change neither the database, the servers nor the scripts.
LEMMA Stutters ==
  ASSUME UNCHANGED <<db, servers, scripts, running>>
  PROVE  UNCHANGED Promise!vars
  BY DEF Promise!vars, InExecution

LEMMA CommitStep ==
  ASSUME TypeOK, CycleInv, NEW w \in Workers, ProcessResponse(w)
  PROVE  Promise!Commit
  <1>1. /\ ~status500[w] /\ phase[w] = "response"
        /\ db' = Committed(w)
        /\ scripts' = [scripts EXCEPT ![w] = pending[w]]
        /\ UNCHANGED <<running, servers>>
    BY DEF ProcessResponse
  <1>2. pending[w] = writes[w] /\ scripts[w] = {}
    BY <1>1 DEF CycleInv, PendingIsWritten, SynchronousScriptsJoined
  <1>3. db' \in [Objects -> Version] /\ db \in [Objects -> Version]
    BY <1>1, CommittedType DEF TypeOK
  <1>4. ASSUME NEW o \in Objects
        PROVE  \/ <<o, db'[o]>> \in writes[w] /\ db[o] < db'[o]
               \/ o \notin ObjectsOf(writes[w]) /\ db'[o] = db[o]
    BY <1>1, CommittedValue DEF CycleInv, WritesAreNew
  <1>5. ASSUME NEW o \in Objects PROVE db'[o] >= db[o]
    <2>1. db'[o] \in Nat /\ db[o] \in Nat
      BY <1>3 DEF Version
    <2>2. db[o] < db'[o] \/ db'[o] = db[o]
      BY <1>4
    <2>3. QED BY <2>1, <2>2
  <1>6. {<<o, db'[o]>> : o \in {p \in Objects : db'[p] > db[p]}} = writes[w]
    <2>1. ASSUME NEW o \in Objects, db'[o] > db[o] PROVE <<o, db'[o]>> \in writes[w]
      BY <1>3, <1>4, <2>1 DEF Version
    <2>2. ASSUME NEW c \in writes[w]
          PROVE  c[1] \in Objects /\ db'[c[1]] > db[c[1]] /\ c = <<c[1], db'[c[1]]>>
      <3>1. c[1] \in Objects /\ c = <<c[1], c[2]>> /\ c[1] \in ObjectsOf(writes[w])
        BY DEF TypeOK, Copies, ObjectsOf
      <3>2. <<c[1], db'[c[1]]>> \in writes[w] /\ db[c[1]] < db'[c[1]]
        BY <1>4, <3>1
      <3>3. c = <<c[1], db'[c[1]]>>
        BY <3>1, <3>2 DEF TypeOK, OneEach
      <3>4. QED BY <1>3, <3>1, <3>2, <3>3 DEF Version
    <2>3. QED BY <2>1, <2>2
  <1>7. InExecution' = InExecution \cup writes[w]
    BY <1>1, <1>2, ExecutionMember DEF TypeOK
  <1> DEFINE new == db'
  <1>8. new \in [Objects -> Promise!Version]
    BY <1>3 DEF Promise!Version, Version
  <1>9. InExecution' = InExecution \cup {<<o, new[o]>> : o \in {p \in Objects : new[p] > db[p]}}
    BY <1>6, <1>7
  <1>10. QED BY <1>1, <1>5, <1>8, <1>9 DEF Promise!Commit

\* Scripts that go without being applied.
LEMMA GiveUpStep ==
  ASSUME InExecution' \subseteq InExecution, UNCHANGED <<db, servers>>
  PROVE  Promise!GiveUp
  BY DEF Promise!GiveUp

LEMMA LaunchKeepsExecution ==
  ASSUME TypeOK, NEW w \in Workers, NEW o \in Objects, NEW v \in Version, Launch(w, o, v)
  PROVE  InExecution' = InExecution /\ UNCHANGED <<db, servers>>
  <1>1. PICK is_async \in BOOLEAN : running' = running \cup {<<w, o, v, is_async>>}
    BY Zenon DEF Launch
  <1>2. /\ <<o, v>> \in scripts[w]
        /\ scripts' = [scripts EXCEPT ![w] = @ \ {<<o, v>>}]
        /\ UNCHANGED <<db, servers>>
    BY DEF Launch
  <1>3. InExecution' \subseteq InExecution
    <2> SUFFICES ASSUME NEW c \in InExecution' PROVE c \in InExecution
      OBVIOUS
    <2>1. CASE \E u \in Workers : c \in scripts'[u]
      BY <1>2, <2>1, ExecutionMember DEF TypeOK
    <2>2. CASE \E s \in running' : c = <<s[2], s[3]>>
      <3>1. PICK s \in running' : c = <<s[2], s[3]>>
        BY <2>2
      <3>2. s \in running \/ c = <<o, v>>
        BY <1>1, <3>1
      <3>3. QED BY <1>2, <3>1, <3>2, ExecutionMember
    <2>3. QED BY <2>1, <2>2, ExecutionMember
  <1>4. InExecution \subseteq InExecution'
    <2>1. \A u \in Workers : scripts[u] \subseteq scripts'[u] \cup {<<o, v>>}
      BY <1>2 DEF TypeOK
    <2>2. <<o, v>> \in InExecution'
      <3>1. <<w, o, v, is_async>> \in running'
        BY <1>1
      <3>2. QED BY <3>1, ExecutionMember
    <2>3. QED BY <1>1, <2>1, <2>2, ExecutionMember
  <1>5. QED BY <1>2, <1>3, <1>4

\* What ends is not executed elsewhere.
LEMMA ScriptEndsStep ==
  ASSUME TypeOK, CycleInv, NEW s \in running, NEW success \in BOOLEAN, ScriptEnds(s, success)
  PROVE  Promise!Next
  <1>1. /\ running' = running \ {s}
        /\ servers' = IF success THEN [servers EXCEPT ![s[2]] = s[3]] ELSE servers
        /\ UNCHANGED <<db, scripts>>
    BY DEF ScriptEnds
  <1>2. s[2] \in Objects /\ s[3] \in Promise!Version /\ <<s[2], s[3]>> \in InExecution
    BY ExecutionMember DEF TypeOK, Promise!Version, Version
  <1>3. InExecution' = InExecution \ {<<s[2], s[3]>>}
    <2>1. ASSUME NEW c \in InExecution' PROVE c \in InExecution /\ c # <<s[2], s[3]>>
      <3>1. CASE \E u \in Workers : c \in scripts'[u]
        BY <1>1, <3>1, ExecutionMember DEF CycleInv, ExecutedOnce
      <3>2. CASE \E r \in running' : c = <<r[2], r[3]>>
        BY <1>1, <3>2, ExecutionMember DEF CycleInv, ExecutedOnce
      <3>3. QED BY <3>1, <3>2, ExecutionMember
    <2>2. ASSUME NEW c \in InExecution, c # <<s[2], s[3]>> PROVE c \in InExecution'
      BY <1>1, <2>2, ExecutionMember
    <2>3. QED BY <2>1, <2>2
  <1>4. CASE success
    BY <1>1, <1>2, <1>3, <1>4 DEF Promise!Next, Promise!Apply
  <1>5. CASE ~success
    BY <1>1, <1>3, <1>5 DEF Promise!Next, Promise!GiveUp
  <1>6. QED BY <1>4, <1>5

\* Every step of the cycle is a step of Deployment or changes nothing it sees.
LEMMA PromiseStep ==
  ASSUME HandledErrors = FALSE, TypeOK, CycleInv, [Next]_vars
  PROVE  [Promise!Next]_(Promise!vars)
  <1>1. ASSUME NEW w \in Workers,
               \/ ProcessRequest(w) \/ \E o \in Objects : SaveObject(w, o)
               \/ ViewReturns(w) \/ ProcessException(w)
               \/ ProcessResponseFails(w) \/ SendResponse(w)
        PROVE  UNCHANGED Promise!vars
    BY <1>1, Stutters DEF ProcessRequest, SaveObject, ViewReturns, ProcessException,
       ProcessResponseFails, SendResponse
  <1>2. ASSUME NEW w \in Workers, ProcessResponseIdle(w) PROVE UNCHANGED Promise!vars
    <2>1. writes[w] = {}
      BY <1>2 DEF ProcessResponseIdle, CycleInv, PendingIsWritten
    <2>2. \A o \in Objects : Committed(w)[o] = db[o]
      BY <2>1, CommittedValue
    <2>3. Committed(w) = db
      BY <2>2 DEF Committed, TypeOK
    <2>4. QED BY <1>2, <2>3, Stutters DEF ProcessResponseIdle
  <1>3. ASSUME NEW w \in Workers, ProcessResponse(w) PROVE Promise!Next
    BY <1>3, CommitStep DEF Promise!Next
  <1>4. ASSUME NEW w \in Workers, NEW o \in Objects, NEW v \in Version, Launch(w, o, v)
        PROVE  UNCHANGED Promise!vars
    BY <1>4, LaunchKeepsExecution DEF Promise!vars
  <1>5. ASSUME NEW w \in Workers, Crash(w) PROVE Promise!Next
    <2>1. /\ scripts' = [scripts EXCEPT ![w] = {}]
          /\ running' \subseteq running
          /\ UNCHANGED <<db, servers>>
      BY <1>5 DEF Crash
    <2>2. InExecution' \subseteq InExecution
      BY <2>1, ExecutionMember DEF TypeOK
    <2>3. QED BY <2>1, <2>2, GiveUpStep DEF Promise!Next
  <1>6. ASSUME NEW s \in running, NEW success \in BOOLEAN, ScriptEnds(s, success)
        PROVE  Promise!Next
    BY <1>6, ScriptEndsStep
  <1>7. CASE UNCHANGED vars
    BY <1>7, Stutters DEF vars
  <1>8. QED
    BY <1>1, <1>2, <1>3, <1>4, <1>5, <1>6, <1>7 DEF Next

\* OperationsMiddleware and manager.execute implement Deployment: what reaches
\* the servers is what was committed, each state at most once.
THEOREM CycleKeepsPromise == ASSUME HandledErrors = FALSE PROVE Spec => PromiseSpec
  <1>1. Init => Promise!Init
    BY DEF Init, Promise!Init, InExecution
  <1>2. TypeOK /\ CycleInv /\ [Next]_vars => [Promise!Next]_(Promise!vars)
    BY PromiseStep
  <1>3. QED BY <1>1, <1>2, TypeCorrect, CycleInvariant, PTL DEF Spec, PromiseSpec, Promise!Spec

-----------------------------------------------------------------------------
(* Serialized backends *)

LEMMA SynchronousMember ==
  ASSUME NEW w
  PROVE  /\ \A s : s \in Synchronous(w) <=> s \in running /\ s[1] = w /\ ~s[4]
         /\ \A s : s \in Synchronous(w)' <=> s \in running' /\ s[1] = w /\ ~s[4]
  BY DEF Synchronous

LEMMA AloneInit == Init => AloneInv
  BY DEF Init, AloneInv, SynchronousScriptsJoined, SerializedRunsAlone, Synchronous, ObjectsOf

\* Steps that launch nothing, and leave no request that is executing.
LEMMA AloneKept ==
  ASSUME TypeOK, AloneInv, UNCHANGED <<scripts, serialize, running>>,
         \A w \in Workers : phase'[w] = "executing" \/ phase[w] # "executing"
                              \/ (Synchronous(w) = {} /\ scripts[w] = {})
  PROVE  AloneInv'
  <1>1. SynchronousScriptsJoined'
    BY DEF AloneInv, SynchronousScriptsJoined, Synchronous
  <1>2. SerializedRunsAlone'
    BY DEF AloneInv, SerializedRunsAlone, Synchronous
  <1>3. QED BY <1>1, <1>2 DEF AloneInv, ObjectsOf

\* Steps that end scripts.
LEMMA AloneWithLess ==
  ASSUME TypeOK, AloneInv, running' \subseteq running, UNCHANGED serialize,
         \A w \in Workers : scripts'[w] \subseteq scripts[w],
         \A w \in Workers : phase'[w] # "executing" /\ phase[w] = "executing"
                              => Synchronous(w)' = {} /\ scripts'[w] = {}
  PROVE  AloneInv'
  <1>1. \A w \in Workers : Synchronous(w)' \subseteq Synchronous(w)
    BY SynchronousMember
  <1>2. SynchronousScriptsJoined'
    <2> SUFFICES ASSUME NEW w \in Workers, phase'[w] # "executing"
                 PROVE  Synchronous(w)' = {} /\ scripts'[w] = {}
      BY DEF SynchronousScriptsJoined
    <2>1. CASE phase[w] = "executing"
      BY <2>1
    <2>2. CASE phase[w] # "executing"
      <3>1. Synchronous(w) = {} /\ scripts[w] = {}
        BY <2>2 DEF AloneInv, SynchronousScriptsJoined
      <3>2. QED BY <1>1, <3>1
    <2>3. QED BY <2>1, <2>2
  <1>3. SerializedRunsAlone'
    <2> SUFFICES ASSUME NEW s \in running', s[2] \in Serialized
                 PROVE  ~s[4] /\ Synchronous(s[1])' = {s}
      BY DEF SerializedRunsAlone
    <2>1. s \in running
      OBVIOUS
    <2>2. ~s[4] /\ Synchronous(s[1]) = {s}
      BY <2>1 DEF AloneInv, SerializedRunsAlone
    <2>3. s[1] \in Workers
      BY <2>1 DEF TypeOK
    <2>4. s \in Synchronous(s[1])'
      BY <2>2, SynchronousMember
    <2>5. Synchronous(s[1])' \subseteq {s}
      BY <1>1, <2>2, <2>3
    <2>6. QED BY <2>2, <2>4, <2>5
  <1>4. \A s \in running' : s[2] \in Serialized => serialize'[s[1]]
    BY DEF AloneInv
  <1>5. \A w \in Workers : ~serialize'[w] => ObjectsOf(scripts'[w]) \cap Serialized = {}
    BY DEF AloneInv, ObjectsOf
  <1>6. QED BY <1>2, <1>3, <1>4, <1>5 DEF AloneInv

\* No script of the thread is left when it begins with those of a request.
LEMMA AloneProcessResponse ==
  ASSUME TypeOK, AloneInv, NEW w \in Workers, ProcessResponse(w)
  PROVE  AloneInv'
  <1>1. /\ phase[w] = "response"
        /\ phase' = [phase EXCEPT ![w] = "executing"]
        /\ scripts' = [scripts EXCEPT ![w] = pending[w]]
        /\ serialize' = [serialize EXCEPT ![w] = ObjectsOf(pending[w]) \cap Serialized # {}]
        /\ running' = running
    BY DEF ProcessResponse
  <1>2. Synchronous(w) = {}
    BY <1>1 DEF AloneInv, SynchronousScriptsJoined
  <1>3. \A u : Synchronous(u)' = Synchronous(u)
    BY <1>1 DEF Synchronous
  <1>4. SynchronousScriptsJoined'
    BY <1>1, <1>3 DEF AloneInv, SynchronousScriptsJoined, TypeOK
  <1>5. SerializedRunsAlone'
    BY <1>1, <1>3 DEF AloneInv, SerializedRunsAlone
  <1>6. ASSUME NEW s \in running', s[2] \in Serialized PROVE serialize'[s[1]]
    <2>1. s \in running /\ s[1] \in Workers /\ s \in Synchronous(s[1])
      BY <1>1, <1>6 DEF AloneInv, SerializedRunsAlone, TypeOK
    <2>2. s[1] # w
      BY <1>2, <2>1
    <2>3. serialize[s[1]]
      BY <1>6, <2>1 DEF AloneInv
    <2>4. QED BY <1>1, <2>1, <2>2, <2>3 DEF TypeOK
  <1>7. ASSUME NEW u \in Workers, ~serialize'[u]
        PROVE  ObjectsOf(scripts'[u]) \cap Serialized = {}
    <2>1. CASE u = w
      BY <1>1, <1>7, <2>1 DEF TypeOK
    <2>2. CASE u # w
      BY <1>1, <1>7, <2>2 DEF AloneInv, TypeOK
    <2>3. QED BY <2>1, <2>2
  <1>8. QED BY <1>4, <1>5, <1>6, <1>7 DEF AloneInv

\* A serialized script makes its request wait for each script before the next.
LEMMA AloneLaunch ==
  ASSUME TypeOK, AloneInv, NEW w \in Workers, NEW o \in Objects, NEW v \in Version,
         Launch(w, o, v)
  PROVE  AloneInv'
  <1> DEFINE new == <<w, o, v, ~serialize[w] /\ o \in Async>>
  <1>1. /\ phase[w] = "executing" /\ <<o, v>> \in scripts[w]
        /\ serialize[w] => Synchronous(w) = {}
        /\ scripts' = [scripts EXCEPT ![w] = scripts[w] \ {<<o, v>>}]
        /\ running' = running \cup {new}
        /\ UNCHANGED <<phase, serialize>>
    BY DEF Launch
  <1>2. o \in Serialized => serialize[w]
    BY <1>1 DEF AloneInv, ObjectsOf
  <1>3. new[1] = w /\ new[2] = o /\ (new[4] <=> ~serialize[w] /\ o \in Async)
    OBVIOUS
  <1>4. ASSUME NEW u \in Workers, u # w PROVE Synchronous(u)' = Synchronous(u)
    <2>1. \A s : s \in running' <=> s \in running \/ s = new
      BY <1>1
    <2>2. \A s : s \in Synchronous(u)' <=> s \in running' /\ s[1] = u /\ ~s[4]
      BY SynchronousMember
    <2>3. \A s : s \in Synchronous(u) <=> s \in running /\ s[1] = u /\ ~s[4]
      BY SynchronousMember
    <2>4. \A s : s \in Synchronous(u)' <=> s \in Synchronous(u)
      BY <1>3, <1>4, <2>1, <2>2, <2>3
    <2>5. QED BY <2>4
  <1>5. SynchronousScriptsJoined'
    BY <1>1, <1>4 DEF AloneInv, SynchronousScriptsJoined, TypeOK
  <1>6. ASSUME NEW s \in running', s[2] \in Serialized
        PROVE  ~s[4] /\ Synchronous(s[1])' = {s} /\ serialize'[s[1]]
    <2>1. CASE s = new
      <3>1. serialize[w] /\ Synchronous(w) = {}
        BY <1>1, <1>2, <1>3, <1>6, <2>1
      <3>2. ~s[4] /\ s[1] = w
        BY <1>3, <2>1, <3>1
      <3>3. \A r : r \in Synchronous(w)' <=> r = s
        BY <1>1, <2>1, <3>1, <3>2, SynchronousMember
      <3>4. QED BY <1>1, <3>1, <3>2, <3>3
    <2>2. CASE s # new
      <3>1. s \in running /\ s[1] \in Workers
        BY <1>1, <2>2 DEF TypeOK
      <3>2. ~s[4] /\ Synchronous(s[1]) = {s} /\ serialize[s[1]]
        BY <1>6, <3>1 DEF AloneInv, SerializedRunsAlone
      <3>3. s[1] # w
        BY <1>1, <3>2
      <3>4. QED BY <1>1, <1>4, <3>1, <3>2, <3>3
    <2>3. QED BY <2>1, <2>2
  <1>7. \A u \in Workers : ~serialize'[u] => ObjectsOf(scripts'[u]) \cap Serialized = {}
    <2>1. \A u \in Workers : scripts'[u] \subseteq scripts[u]
      BY <1>1 DEF TypeOK
    <2>2. QED BY <1>1, <2>1 DEF AloneInv, ObjectsOf
  <1>8. QED BY <1>5, <1>6, <1>7 DEF AloneInv, SerializedRunsAlone

LEMMA AloneStep == TypeOK /\ AloneInv /\ [Next]_vars => AloneInv'
  <1> SUFFICES ASSUME TypeOK, AloneInv, [Next]_vars PROVE AloneInv'
    OBVIOUS
  <1>1. ASSUME NEW w \in Workers, ProcessRequest(w) PROVE AloneInv'
    BY <1>1, AloneKept DEF ProcessRequest, TypeOK
  <1>2. ASSUME NEW w \in Workers, NEW o \in Objects, SaveObject(w, o) PROVE AloneInv'
    BY <1>2, AloneKept DEF SaveObject
  <1>3. ASSUME NEW w \in Workers, ViewReturns(w) PROVE AloneInv'
    BY <1>3, AloneKept DEF ViewReturns, TypeOK
  <1>4. ASSUME NEW w \in Workers, ProcessException(w) PROVE AloneInv'
    BY <1>4, AloneKept DEF ProcessException, TypeOK
  <1>5. ASSUME NEW w \in Workers, ProcessResponseIdle(w) \/ ProcessResponseFails(w)
        PROVE AloneInv'
    BY <1>5, AloneKept DEF ProcessResponseIdle, ProcessResponseFails, Leave, TypeOK
  <1>6. ASSUME NEW w \in Workers, ProcessResponse(w) PROVE AloneInv'
    BY <1>6, AloneProcessResponse
  <1>7. ASSUME NEW w \in Workers, NEW o \in Objects, NEW v \in Version, Launch(w, o, v)
        PROVE AloneInv'
    BY <1>7, AloneLaunch
  <1>8. ASSUME NEW w \in Workers, SendResponse(w) PROVE AloneInv'
    BY <1>8, AloneKept DEF SendResponse, Leave, TypeOK
  <1>9. ASSUME NEW w \in Workers, Crash(w) PROVE AloneInv'
    <2>1. /\ phase' = [phase EXCEPT ![w] = "idle"]
          /\ scripts' = [scripts EXCEPT ![w] = {}]
          /\ running' = {s \in running : s[1] # w}
          /\ UNCHANGED serialize
      BY <1>9 DEF Crash, Leave
    <2>2. Synchronous(w)' = {}
      BY <2>1, SynchronousMember
    <2>3. QED BY <2>1, <2>2, AloneWithLess DEF TypeOK
  <1>10. ASSUME NEW s \in running, NEW success \in BOOLEAN, ScriptEnds(s, success)
         PROVE AloneInv'
    BY <1>10, AloneWithLess DEF ScriptEnds
  <1>11. CASE UNCHANGED vars
    BY <1>11, AloneKept DEF vars
  <1>12. QED
    BY <1>1, <1>2, <1>3, <1>4, <1>5, <1>6, <1>7, <1>8, <1>9, <1>10, <1>11 DEF Next

\* A script of a backend with serialize = True never runs beside another one of its
\* request (execute() of managers.py), whatever the others do and whichever processes die.
THEOREM SerializedAreAlone == Spec => []SerializedRunsAlone
  <1>1. AloneInv => SerializedRunsAlone
    BY DEF AloneInv
  <1>2. QED BY <1>1, TypeCorrect, AloneInit, AloneStep, PTL DEF Spec

-----------------------------------------------------------------------------
(* Scripts that are out of date *)

LEMMA UpToDateInit == Init => UpToDateInv
  BY DEF Init, UpToDateInv, InExecution

LEMMA CommitGrows ==
  ASSUME TypeOK, CycleInv, NEW w \in Workers, NEW o \in Objects
  PROVE  db[o] <= Committed(w)[o] /\ Committed(w)[o] \in Nat
  <1>1. db[o] \in Nat /\ Committed(w)[o] \in Nat
    <2>1. db[o] \in Version
      BY DEF TypeOK
    <2>2. Committed(w)[o] \in Version
      BY CommittedValue
    <2>3. Version \subseteq Nat
      BY DEF Version
    <2>4. QED BY <2>1, <2>2, <2>3
  <1>2. CASE <<o, Committed(w)[o]>> \in writes[w]
    BY <1>1, <1>2 DEF CycleInv, WritesAreNew
  <1>3. CASE Committed(w)[o] = db[o]
    BY <1>1, <1>3
  <1>4. QED BY <1>1, <1>2, <1>3, CommittedValue, Zenon

\* Steps that commit nothing and put nothing in execution.
LEMMA UpToDateKept ==
  ASSUME UpToDateInv, UNCHANGED <<db, servers, overtaken>>, InExecution' \subseteq InExecution
  PROVE  UpToDateInv'
  BY DEF UpToDateInv

\* A commit overtakes what is in execution of the instances it writes, and executes
\* what it wrote.
LEMMA UpToDateCommit ==
  ASSUME TypeOK, CycleInv, UpToDateInv, NEW w \in Workers, ProcessResponse(w)
  PROVE  UpToDateInv'
  <1>1. /\ phase[w] = "response" /\ ~status500[w] /\ db' = Committed(w)
        /\ scripts' = [scripts EXCEPT ![w] = pending[w]]
        /\ overtaken' = overtaken \cup {c \in InExecution : c[1] \in ObjectsOf(writes[w])}
        /\ UNCHANGED <<servers, running>>
    BY DEF ProcessResponse
  <1>2. pending[w] = writes[w]
    BY <1>1 DEF CycleInv, PendingIsWritten
  <1>3. ASSUME NEW c \in InExecution' PROVE c[2] = db'[c[1]] \/ c \in overtaken'
    <2>1. c \in InExecution \/ c \in writes[w]
      BY <1>1, <1>2, <1>3, ExecutionMember DEF TypeOK
    <2>2. CASE c \in writes[w]
      <3>1. c[1] \in Objects /\ c = <<c[1], c[2]>> /\ c[1] \in ObjectsOf(writes[w])
        BY <2>2 DEF TypeOK, Copies, ObjectsOf
      <3>2. <<c[1], Committed(w)[c[1]]>> \in writes[w]
        BY <3>1, CommittedValue
      <3>3. QED BY <1>1, <2>2, <3>1, <3>2 DEF TypeOK, OneEach
    <2>3. CASE c \in InExecution /\ c[1] \in ObjectsOf(writes[w])
      BY <1>1, <2>3
    <2>4. CASE c \in InExecution /\ c[1] \notin ObjectsOf(writes[w])
      <3>1. c[1] \in Objects
        BY <2>4, ExecutionType DEF Copies
      <3>2. \A v : <<c[1], v>> \notin writes[w]
        BY <2>4 DEF ObjectsOf
      <3>3. db'[c[1]] = db[c[1]]
        BY <1>1, <3>1, <3>2, CommittedValue
      <3>4. QED BY <1>1, <2>4, <3>3 DEF UpToDateInv
    <2>5. QED BY <2>1, <2>2, <2>3, <2>4
  <1>4. ASSUME NEW o \in Objects PROVE servers'[o] <= db'[o]
    <2>1. db[o] <= db'[o] /\ db'[o] \in Nat
      BY <1>1, CommitGrows
    <2>2. QED BY <1>1, <2>1 DEF UpToDateInv, TypeOK, Version
  <1>5. QED BY <1>3, <1>4 DEF UpToDateInv

\* The commit of a request with nothing to execute writes nothing.
LEMMA IdleCommitsNothing ==
  ASSUME TypeOK, CycleInv, NEW w \in Workers, ProcessResponseIdle(w)
  PROVE  UNCHANGED db
  <1>1. writes[w] = {} /\ db' = Committed(w)
    BY DEF ProcessResponseIdle, CycleInv, PendingIsWritten
  <1>2. ASSUME NEW o \in Objects PROVE Committed(w)[o] = db[o]
    BY <1>1, CommittedValue
  <1>3. QED BY <1>1, <1>2 DEF Committed, TypeOK

BackOnlyOvertaken ==
  \A o \in Objects : servers'[o] < servers[o] => <<o, servers'[o]>> \in overtaken

LEMMA UpToDateStep ==
  ASSUME TypeOK, CycleInv, UpToDateInv, [Next]_vars
  PROVE  UpToDateInv' /\ BackOnlyOvertaken
  <1> DEFINE Good == UpToDateInv' /\ BackOnlyOvertaken
  <1>1. ASSUME UNCHANGED <<db, servers, overtaken>>, InExecution' \subseteq InExecution PROVE Good
    BY <1>1, UpToDateKept DEF BackOnlyOvertaken, TypeOK, Version
  <1>2. ASSUME UNCHANGED <<db, servers, overtaken, scripts, running>> PROVE Good
    BY <1>1, <1>2 DEF InExecution
  <1>3. ASSUME NEW w \in Workers,
               \/ ProcessRequest(w) \/ ViewReturns(w) \/ ProcessException(w)
               \/ ProcessResponseFails(w) \/ SendResponse(w)
               \/ \E o \in Objects : SaveObject(w, o)
        PROVE  Good
    BY <1>2, <1>3 DEF ProcessRequest, ViewReturns, ProcessException, ProcessResponseFails,
                      SendResponse, SaveObject
  <1>4. ASSUME NEW w \in Workers, ProcessResponseIdle(w) PROVE Good
    BY <1>2, <1>4, IdleCommitsNothing DEF ProcessResponseIdle
  <1>5. ASSUME NEW w \in Workers, ProcessResponse(w) PROVE Good
    <2>1. UNCHANGED servers
      BY <1>5 DEF ProcessResponse
    <2>2. QED BY <1>5, <2>1, UpToDateCommit DEF BackOnlyOvertaken, TypeOK, Version
  <1>6. ASSUME NEW w \in Workers, NEW o \in Objects, NEW v \in Version, Launch(w, o, v)
        PROVE  Good
    <2>1. PICK is_async : running' = running \cup {<<w, o, v, is_async>>}
      BY <1>6, Zenon DEF Launch
    <2>2. /\ <<o, v>> \in scripts[w]
          /\ scripts' = [scripts EXCEPT ![w] = scripts[w] \ {<<o, v>>}]
          /\ UNCHANGED <<db, servers, overtaken>>
      BY <1>6 DEF Launch
    <2>3. ASSUME NEW c \in InExecution' PROVE c \in InExecution
      <3>1. CASE \E u \in Workers : c \in scripts'[u]
        BY <2>2, <3>1, ExecutionMember DEF TypeOK
      <3>2. CASE \E s \in running' : c = <<s[2], s[3]>>
        <4>1. PICK s \in running' : c = <<s[2], s[3]>>
          BY <3>2
        <4>2. s \in running \/ c = <<o, v>>
          BY <2>1, <4>1
        <4>3. QED BY <2>2, <4>1, <4>2, ExecutionMember
      <3>3. QED BY <2>3, <3>1, <3>2, ExecutionMember
    <2>4. QED BY <1>1, <2>2, <2>3
  <1>7. ASSUME NEW w \in Workers, Crash(w) PROVE Good
    <2>1. /\ scripts' = [scripts EXCEPT ![w] = {}] /\ running' \subseteq running
          /\ UNCHANGED <<db, servers, overtaken>>
      BY <1>7 DEF Crash
    <2>2. ASSUME NEW c \in InExecution' PROVE c \in InExecution
      BY <2>1, <2>2, ExecutionMember DEF TypeOK
    <2>3. QED BY <1>1, <2>1, <2>2
  <1>8. ASSUME NEW s \in running, NEW success \in BOOLEAN, ScriptEnds(s, success) PROVE Good
    <2>1. /\ running' \subseteq running /\ UNCHANGED <<db, scripts, overtaken>>
          /\ servers' = IF success THEN [servers EXCEPT ![s[2]] = s[3]] ELSE servers
      BY <1>8 DEF ScriptEnds
    <2>2. s[2] \in Objects /\ s[3] \in Version /\ <<s[2], s[3]>> \in InExecution
      BY ExecutionMember DEF TypeOK
    <2>3. s[3] <= db[s[2]] /\ (s[3] = db[s[2]] \/ <<s[2], s[3]>> \in overtaken)
      BY <2>2 DEF UpToDateInv, CycleInv, OnlyCommittedIsExecuted
    <2>4. ASSUME NEW c \in InExecution' PROVE c \in InExecution
      BY <2>1, <2>4, ExecutionMember
    <2>5. \A o \in Objects :
            servers'[o] = servers[o] \/ (o = s[2] /\ servers'[o] = s[3])
      BY <2>1, <2>2 DEF TypeOK
    <2>6. \A o \in Objects : servers[o] <= db[o] /\ servers[o] \in Nat /\ db[o] \in Nat
      BY DEF UpToDateInv, TypeOK, Version
    <2>7. \A o \in Objects : servers'[o] <= db'[o]
      BY <2>1, <2>3, <2>5, <2>6
    <2>8. BackOnlyOvertaken
      BY <2>3, <2>5, <2>6 DEF BackOnlyOvertaken
    <2>9. QED BY <2>1, <2>4, <2>7, <2>8 DEF UpToDateInv
  <1>9. CASE UNCHANGED vars
    BY <1>2, <1>9 DEF vars
  <1>10. QED BY <1>3, <1>4, <1>5, <1>6, <1>7, <1>8, <1>9 DEF Next

\* Whatever the workers, the scripts of their requests and the deaths of their
\* processes, a server is only taken back to an older state by a script that was
\* still in execution when a newer state was committed (execute).
THEOREM ServersOnlyAdvance ==
  ASSUME HandledErrors = FALSE
  PROVE  Spec => ServersNeverGoBack
  <1>1. TypeOK /\ CycleInv /\ UpToDateInv /\ [Next]_vars
          => UpToDateInv' /\ [BackOnlyOvertaken]_vars
    BY UpToDateStep
  <1>2. Spec => []CycleInv
    BY CycleInvariant
  <1>3. QED BY <1>1, <1>2, TypeCorrect, UpToDateInit, PTL
            DEF Spec, ServersNeverGoBack, BackOnlyOvertaken
=============================================================================
