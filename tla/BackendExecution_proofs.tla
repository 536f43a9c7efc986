----------------------- MODULE BackendExecution_proofs -----------------------
(***************************************************************************)
(* Proofs about BackendExecution, for any logs and whether their threads   *)
(* are joined or not, for backends that do not force an empty execution.   *)
(***************************************************************************)
EXTENDS BackendExecution, TLAPS

LEMMA GroupCount ==
  ASSUME NEW g \in GroupLists
  PROVE  Len(g) \in 0 .. 2 /\ (Len(g) = 0 <=> g = <<>>)
  BY DEF GroupLists

LEMMA GroupMethod ==
  ASSUME NEW g \in GroupLists, NEW i \in 1 .. Len(g)
  PROVE  Outcomes(g[i]) \subseteq {"SUCCESS", "FAILURE", "TIMEOUT", "ERROR"}
  BY DEF Outcomes

LEMMA RequestTypes ==
  ASSUME TypeOK, NEW l \in Logs, Look(l) \/ LookAgain(l)
  PROVE  TypeOK'
  <1>1. CASE Look(l)
    <2>1. counted' \in [{"success", "async", "error"} -> SUBSET Logs]
      BY <1>1 DEF TypeOK, Look
    <2>2. telling' \subseteq Logs /\ looking' \subseteq Logs
      BY <1>1 DEF TypeOK, Look
    <2>3. QED BY <1>1, <2>1, <2>2 DEF TypeOK, Look, thread
  <1>2. CASE LookAgain(l)
    <2>1. counted' \in [{"success", "async", "error"} -> SUBSET Logs]
      BY <1>2 DEF TypeOK, LookAgain
    <2>2. QED BY <1>2, <2>1 DEF TypeOK, LookAgain, thread
  <1>3. QED BY <1>1, <1>2

LEMMA ThreadTypes ==
  ASSUME TypeOK, NEW l \in Logs, Thread(l)
  PROVE  TypeOK'
  <1>1. Len(groups[l]) \in 0 .. 2
    BY GroupCount DEF TypeOK
  <1>2. CASE StartGroup(l)
    <2>1. group[l] + 1 \in 0 .. 2
      <3> DEFINE started == group[l]
                 total == Len(groups[l])
      <3>1. started < total
        BY <1>2 DEF StartGroup
      <3>2. started \in 0 .. 2 /\ total \in 0 .. 2
        BY <1>1 DEF TypeOK
      <3> HIDE DEF started, total
      <3>3. started + 1 \in 0 .. 2
        BY <3>1, <3>2
      <3>4. QED BY <3>3 DEF started
    <2>2. group' \in [Logs -> 0 .. 2]
      BY <1>2, <2>1 DEF TypeOK, StartGroup
    <2>3. QED BY <1>2, <2>2 DEF TypeOK, StartGroup, States, request
  <1>3. CASE PrepareRaises(l)
    BY <1>3 DEF TypeOK, PrepareRaises, States, request
  <1>4. CASE GroupEnds(l)
    <2>1. state' \in [Logs -> States]
      BY <1>4 DEF TypeOK, GroupEnds, States, Outcomes
    <2>2. failed' \subseteq Logs
      BY <1>4 DEF TypeOK, GroupEnds
    <2>3. QED BY <1>4, <2>1, <2>2 DEF TypeOK, GroupEnds, request
  <1>5. CASE SaveLog(l)
    BY <1>5 DEF TypeOK, SaveLog, request
  <1>6. CASE ExecuteReturns(l)
    BY <1>6 DEF TypeOK, ExecuteReturns, request
  <1>7. CASE KeepLog(l)
    BY <1>7 DEF TypeOK, KeepLog, request
  <1>8. QED BY <1>2, <1>3, <1>4, <1>5, <1>6, <1>7 DEF Thread

LEMMA TypeStep == TypeOK /\ [Next]_vars => TypeOK'
  <1>1. CASE UNCHANGED vars
    BY <1>1 DEF TypeOK, vars
  <1>2. QED BY <1>1, RequestTypes, ThreadTypes DEF Next

\* Types of the logs, their threads and what the request counts.
THEOREM TypeCorrect == Spec => []TypeOK
  <1>1. Init => TypeOK
    <2> SUFFICES ASSUME Init PROVE TypeOK
      OBVIOUS
    <2>1. state \in [Logs -> States]
      BY DEF Init, States
    <2>2. QED BY <2>1 DEF Init, TypeOK
  <1>2. QED BY <1>1, TypeStep, PTL DEF Spec

-----------------------------------------------------------------------------
(* The inductive invariant, of one log: the others are left alone. *)

\* A step of the thread of one log touches nothing of the others.
LEMMA OthersAlone ==
  ASSUME TypeOK, NEW l \in Logs, Thread(l), NEW k \in Logs, k # l
  PROVE  /\ UNCHANGED <<groups[k], state[k], row[k], pc[k], group[k]>>
         /\ k \in failed' <=> k \in failed
         /\ k \in reported' <=> k \in reported
  BY DEF TypeOK, Thread, StartGroup, PrepareRaises, GroupEnds, SaveLog, ExecuteReturns, KeepLog

LEMMA ThreadInv ==
  ASSUME ForcedEmpty = {}, TypeOK, NEW l \in Logs, LogInv(l), Thread(l)
  PROVE  LogInv(l)'
  <1>1. /\ Len(groups[l]) \in 0 .. 2 /\ (Len(groups[l]) = 0 <=> groups[l] = <<>>)
        /\ group[l] \in 0 .. 2
    BY GroupCount DEF TypeOK
  <1>2. CASE StartGroup(l)
    BY <1>1, <1>2 DEF StartGroup, LogInv, TypeOK
  <1>3. CASE PrepareRaises(l)
    BY <1>1, <1>3 DEF PrepareRaises, LogInv, TypeOK, is_success
  <1>4. CASE GroupEnds(l)
    <2>1. PICK outcome \in {"SUCCESS", "FAILURE", "TIMEOUT", "ERROR"} :
            /\ state' = [state EXCEPT ![l] = outcome]
            /\ failed' = IF outcome = "SUCCESS" THEN failed ELSE failed \cup {l}
      BY <1>4 DEF GroupEnds, Outcomes
    <2>2. /\ pc[l] = "running" /\ pc' = [pc EXCEPT ![l] = "exited"]
          /\ UNCHANGED <<groups, row, group, reported>>
      BY <1>4 DEF GroupEnds
    <2>3. QED BY <2>1, <2>2 DEF LogInv, TypeOK
  <1>5. CASE SaveLog(l)
    BY <1>5 DEF SaveLog, LogInv, TypeOK
  <1>6. CASE ExecuteReturns(l)
    BY <1>1, <1>6 DEF ExecuteReturns, LogInv, TypeOK, is_success
  <1>7. CASE KeepLog(l)
    BY <1>7 DEF KeepLog, LogInv, TypeOK, is_success
  <1>8. QED BY <1>2, <1>3, <1>4, <1>5, <1>6, <1>7 DEF Thread

LEMMA ExecutionStep ==
  ASSUME ForcedEmpty = {}, TypeOK, ExecutionInv, [Next]_vars
  PROVE  ExecutionInv'
  <1>1. ASSUME NEW l \in Logs, Thread(l) PROVE ExecutionInv'
    <2> SUFFICES ASSUME NEW k \in Logs PROVE LogInv(k)'
      BY DEF ExecutionInv
    <2>1. CASE k = l
      BY <1>1, <2>1, ThreadInv DEF ExecutionInv
    <2>2. CASE k # l
      BY <1>1, <2>2, OthersAlone DEF ExecutionInv, LogInv
    <2>3. QED BY <2>1, <2>2
  <1>2. ASSUME NEW l \in Logs, Look(l) \/ LookAgain(l) PROVE ExecutionInv'
    BY <1>2 DEF Look, LookAgain, thread, ExecutionInv, LogInv
  <1>3. CASE UNCHANGED vars
    BY <1>3 DEF vars, ExecutionInv, LogInv
  <1>4. QED BY <1>1, <1>2, <1>3 DEF Next

\* What a log says of its script at every point of its execution.
THEOREM ExecutionInvariant == ASSUME ForcedEmpty = {} PROVE Spec => []ExecutionInv
  <1>1. Init => ExecutionInv
    BY DEF Init, ExecutionInv, LogInv
  <1>2. TypeOK /\ ExecutionInv /\ [Next]_vars => ExecutionInv'
    BY ExecutionStep
  <1>3. QED BY <1>1, <1>2, TypeCorrect, PTL DEF Spec

\* ServiceBackend.execute and keep_log: a log that ends as a success ran all its
\* groups of commands, and what is not a success is reported.
THEOREM SuccessIsEarned == ASSUME ForcedEmpty = {} PROVE Spec => []SuccessMeansAllRan
  <1>1. ExecutionInv => SuccessMeansAllRan
    BY DEF ExecutionInv, LogInv, SuccessMeansAllRan
  <1>2. QED BY <1>1, ExecutionInvariant, PTL

\* ServiceBackend.execute: the break after a group that did not succeed.
THEOREM StopsAtFailure == ASSUME ForcedEmpty = {} PROVE Spec => NothingRunsAfterFailure
  <1>1. ASSUME TypeOK, ExecutionInv, [Next]_vars, NEW l \in failed, l \in Logs
        PROVE  group'[l] = group[l]
    <2>1. ASSUME NEW k \in Logs, Thread(k) PROVE group'[l] = group[l]
      <3>1. CASE k # l
        BY <1>1, <2>1, <3>1, OthersAlone
      <3>2. CASE k = l
        BY <1>1, <2>1, <3>2 DEF Thread, StartGroup, PrepareRaises, GroupEnds, SaveLog,
           ExecuteReturns, KeepLog, ExecutionInv, LogInv
      <3>3. QED BY <3>1, <3>2
    <2>2. ASSUME NEW k \in Logs, Look(k) \/ LookAgain(k) PROVE group'[l] = group[l]
      BY <2>2 DEF Look, LookAgain, thread
    <2>3. CASE UNCHANGED vars
      BY <2>3 DEF vars
    <2>4. QED BY <1>1, <2>1, <2>2, <2>3 DEF Next
  <1>2. TypeOK /\ ExecutionInv /\ [Next]_vars
          => [\A l \in Logs : l \in failed => group'[l] = group[l]]_vars
    BY <1>1
  <1>3. QED BY <1>2, TypeCorrect, ExecutionInvariant, PTL DEF Spec, NothingRunsAfterFailure

-----------------------------------------------------------------------------
(* What the user is told *)

LEMMA ToldStep ==
  ASSUME Joined, TypeOK, ExecutionInv, ToldInv, [Next]_vars
  PROVE  ToldInv'
  <1>1. ASSUME NEW l \in Logs, Thread(l) PROVE ToldInv'
    <2>1. pc[l] # "done" /\ failed \subseteq failed' /\ UNCHANGED <<looking, counted>>
      BY <1>1 DEF Thread, StartGroup, PrepareRaises, GroupEnds, SaveLog, ExecuteReturns, KeepLog,
                  request
    <2>2. ErrorsToldAreReal'
      BY <2>1 DEF ToldInv, ErrorsToldAreReal
    <2>3. ASSUME NEW k \in Logs, pc'[k] \in {"returned", "done"}
          PROVE  is_success(state'[k]) \/ k \in failed'
      <3>1. CASE k # l
        BY <1>1, <2>3, <3>1, OthersAlone DEF ToldInv
      <3>2. CASE k = l
        <4>1. LogInv(l) /\ (pc[l] \in {"returned", "done"} => is_success(state[l]) \/ l \in failed)
          BY DEF ExecutionInv, ToldInv
        <4>2. CASE StartGroup(l) \/ GroupEnds(l)
          BY <2>3, <3>2, <4>2 DEF StartGroup, GroupEnds, TypeOK
        <4>3. CASE PrepareRaises(l)
          BY <3>2, <4>3 DEF PrepareRaises
        <4>4. CASE SaveLog(l)
          BY <2>3, <3>2, <4>4 DEF SaveLog
        <4>5. CASE ExecuteReturns(l)
          BY <3>2, <4>1, <4>5 DEF ExecuteReturns, LogInv, is_success
        <4>6. CASE KeepLog(l)
          BY <3>2, <4>1, <4>6 DEF KeepLog
        <4>7. QED BY <1>1, <4>2, <4>3, <4>4, <4>5, <4>6 DEF Thread
      <3>3. QED BY <3>1, <3>2
    <2>4. ASSUME NEW k \in looking' PROVE pc'[k] = "done" /\ ~is_success(state'[k])
      <3>1. k \in looking /\ k \in Logs /\ pc[k] = "done" /\ ~is_success(state[k])
        BY <2>1 DEF ToldInv, TypeOK
      <3>2. QED BY <1>1, <2>1, <3>1, OthersAlone
    <2>5. QED BY <2>2, <2>3, <2>4 DEF ToldInv
  <1>2. ASSUME NEW l \in Logs, Look(l) PROVE ToldInv'
    <2>1. /\ pc[l] = "done" /\ UNCHANGED <<state, pc, failed>>
          /\ counted'["error"] = counted["error"]
          /\ looking' = looking \/ (looking' = {l} /\ ~is_success(state[l]))
      BY <1>2 DEF Look, thread, TypeOK
    <2>2. QED BY <2>1 DEF ToldInv, ErrorsToldAreReal
  <1>3. ASSUME NEW l \in Logs, LookAgain(l) PROVE ToldInv'
    <2>1. /\ looking = {l} /\ looking' = {} /\ UNCHANGED <<state, pc, failed>>
          /\ counted'["error"] \subseteq counted["error"] \cup {l}
      BY <1>3 DEF LookAgain, thread, TypeOK
    <2>2. l \in failed
      BY <2>1 DEF ToldInv
    <2>3. QED BY <2>1, <2>2 DEF ToldInv, ErrorsToldAreReal
  <1>4. CASE UNCHANGED vars
    BY <1>4 DEF vars, ToldInv, ErrorsToldAreReal
  <1>5. QED BY <1>1, <1>2, <1>3, <1>4 DEF Next

\* get_messages: a user whose request joined the threads is told of errors that are so.
THEOREM ToldOfRealErrors ==
  ASSUME Joined, ForcedEmpty = {} PROVE Spec => []ErrorsToldAreReal
  <1>1. Init => ToldInv
    BY DEF Init, ToldInv, ErrorsToldAreReal
  <1>2. TypeOK /\ ExecutionInv /\ ToldInv /\ [Next]_vars => ToldInv'
    BY ToldStep
  <1>3. ToldInv => ErrorsToldAreReal
    BY DEF ToldInv
  <1>4. QED BY <1>1, <1>2, <1>3, TypeCorrect, ExecutionInvariant, PTL DEF Spec
=============================================================================
