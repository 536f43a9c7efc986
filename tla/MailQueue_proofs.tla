--------------------------- MODULE MailQueue_proofs ---------------------------
(***************************************************************************)
(* What the queue of mails records is what was delivered, and what is SENT *)
(* stays so, for any messages, senders, delays, expiries of the lock and   *)
(* deaths of processes; but for messages that two senders had, and two     *)
(* only have the same after the lock expired under one or both took it.    *)
(***************************************************************************)
EXTENDS MailQueue, TLAPS

\* One sender at work, and its lock is fresh, unless it expired under a sender or
\* two took it.
Alone ==
  overrun \/ \A s \in Senders :
    Busy(s) => lock = "fresh" /\ \A r \in Senders \ {s} : phase[r] = "idle"

\* A message is in one batch, but for the doubled.
Sole ==
  \A m \in Messages \ doubled : \A s, r \in Senders :
    Has(s, m) /\ Has(r, m) => s = r

\* Senders have messages while they are at work, threads their own only.
Hands ==
  /\ \A p \in Processes : step[p] = "none" <=> hand[p] = None
  /\ \A s \in Senders : ~Busy(s) => hand[s] = None /\ todo[s] = {}
  /\ \A c \in Critical : hand[c] # None => hand[c].msg = c /\ state[c] # "none"

\* A batch has each message once, the one being sent left out; a deferred message
\* has a delay for its number of retries.
Batches ==
  \A s \in Senders : \A a \in todo[s] :
    /\ \A b \in todo[s] : a.msg = b.msg => a = b
    /\ hand[s] # None => hand[s].msg # a.msg
    /\ a.state = "DEFERRED" => a.retries < Tries

\* Copies are as the rows of the messages that only senders send.
Rows ==
  \A m \in Messages \ (Critical \cup doubled) : \A s \in Senders :
    /\ \A a \in todo[s] : a.msg = m => state[m] = a.state /\ retries[m] = a.retries
    /\ InHand(s, m) => state[m] \in {"QUEUED", "DEFERRED"} /\ hand[s].retries = retries[m]

\* What a sender and what its thread may still deliver of a critical message.
Sends(m) ==
  IF \/ \E s \in Senders : InHand(s, m) /\ step[s] # "delivered"
     \/ /\ \A s \in Senders : ~InHand(s, m)
        /\ \/ state[m] \in {"none", "QUEUED", "DEFERRED"}
           \/ \E s \in Senders : \E a \in todo[s] : a.msg = m
  THEN 1 ELSE 0

ThreadSends(c) == IF state[c] = "none" \/ step[c] \in {"tried", "refused"} THEN 1 ELSE 0

Twice ==
  \A c \in Critical \ doubled : delivered[c] + Sends(c) + ThreadSends(c) <= 2 + cut[c]

LastTries ==
  \A m \in Messages \ (left \cup Critical \cup unsendable \cup doubled) :
    state[m] = "DEFERRED" /\ retries[m] >= Tries => \E s \in Senders : InHand(s, m)

SendersInv == TypeOK /\ Hands /\ Batches

QueueInv == SendersInv /\ Alone /\ Sole /\ Rows
-----------------------------------------------------------------------------
\* Types are kept by each step, whatever the number of senders at work.
LEMMA TypesHold ==
  ASSUME SendersInv, [Next]_vars
  PROVE  TypeOK'
<1> USE MailQueueAssumption DEF SendersInv, TypeOK, Hands, Batches, Processes, Copies, Copy, queue, batch, mail, accidents, Idle, Reads, Others, Done, Has, Busy
<1>1. ASSUME NEW m \in Messages, Enqueue(m) PROVE TypeOK'
  BY <1>1 DEF Enqueue
<1>2. ASSUME NEW m \in Messages, DelayPasses(m) PROVE TypeOK'
  BY <1>2 DEF DelayPasses
<1>3. ASSUME NEW m \in Messages, Cleanup(m) PROVE TypeOK'
  BY <1>3 DEF Cleanup
<1>4. ASSUME NEW c \in Critical, SendAtOnce(c) PROVE TypeOK'
  BY <1>4 DEF SendAtOnce
<1>5. ASSUME NEW c \in Critical, ThreadRaises(c) PROVE TypeOK'
  BY <1>5 DEF ThreadRaises
<1>6. ASSUME NEW s \in Senders, Acquire(s) PROVE TypeOK'
  BY <1>6 DEF Acquire
<1>7. ASSUME NEW s \in Senders, Touch(s) PROVE TypeOK'
  BY <1>7 DEF Touch
<1>8. ASSUME NEW s \in Senders, Pick(s) PROVE TypeOK'
  BY <1>8 DEF Pick
<1>9. ASSUME NEW s \in Senders, Retry(s) PROVE TypeOK'
  BY <1>9 DEF Retry
<1>10. ASSUME NEW s \in Senders, Release(s) PROVE TypeOK'
  BY <1>10 DEF Release, Leaves
<1>11. ASSUME NEW s \in Senders, SenderRaises(s) PROVE TypeOK'
  BY <1>11 DEF SenderRaises, Leaves
<1>12. ASSUME NEW p \in Processes, Open(p) PROVE TypeOK'
  BY <1>12 DEF Open
<1>13. ASSUME NEW p \in Processes, Deliver(p) PROVE TypeOK'
  BY <1>13 DEF Deliver
<1>14. ASSUME NEW p \in Processes, Refuse(p) PROVE TypeOK'
  BY <1>14 DEF Refuse
<1>15. ASSUME NEW p \in Processes, Sent(p) PROVE TypeOK'
  BY <1>15 DEF Sent
<1>16. ASSUME NEW p \in Processes, Defer(p) PROVE TypeOK'
  BY <1>16 DEF Defer
<1>17. ASSUME NEW p \in Processes, Crash(p) PROVE TypeOK'
  BY <1>17 DEF Crash
<1>18. CASE LockExpires
  BY <1>18 DEF LockExpires
<1>19. CASE UNCHANGED vars
  BY <1>19 DEF vars
<1> QED
  BY <1>1, <1>2, <1>3, <1>4, <1>5, <1>6, <1>7, <1>8, <1>9, <1>10, <1>11, <1>12, <1>13, <1>14, <1>15, <1>16, <1>17, <1>18, <1>19 DEF Next, SendMessage, SendPending

\* A sender starts when no other is at work, and its lock does not expire before
\* it ends, so that it stays alone.
LEMMA AloneHolds ==
  ASSUME QueueInv, [Next]_vars
  PROVE  Alone'
<1> USE MailQueueAssumption DEF QueueInv, SendersInv, TypeOK, Alone, Hands, Processes, queue, batch, mail, accidents, Idle, Reads, Others, Done, Has, Busy
<1>1. ASSUME NEW m \in Messages, Enqueue(m) PROVE Alone'
  BY <1>1 DEF Enqueue
<1>2. ASSUME NEW m \in Messages, DelayPasses(m) PROVE Alone'
  BY <1>2 DEF DelayPasses
<1>3. ASSUME NEW m \in Messages, Cleanup(m) PROVE Alone'
  BY <1>3 DEF Cleanup
<1>4. ASSUME NEW c \in Critical, SendAtOnce(c) PROVE Alone'
  BY <1>4 DEF SendAtOnce
<1>5. ASSUME NEW c \in Critical, ThreadRaises(c) PROVE Alone'
  BY <1>5 DEF ThreadRaises
<1>6. ASSUME NEW s \in Senders, Acquire(s) PROVE Alone'
  BY <1>6 DEF Acquire
<1>7. ASSUME NEW s \in Senders, Touch(s) PROVE Alone'
  <2> SUFFICES ASSUME ~overrun' PROVE Alone'
    OBVIOUS
  <2>1. ~overrun /\ \A r \in Senders \ {s} : phase[r] # "acquiring"
    BY <1>7 DEF Touch
  <2>2. \A r \in Senders \ {s} : ~Busy(r)
    BY <1>7, <2>1 DEF Touch
  <2>3. \A r \in Senders \ {s} : phase[r] = "idle"
    BY <2>1, <2>2
  <2> QED
    BY <1>7, <2>3 DEF Touch
<1>8. ASSUME NEW s \in Senders, Pick(s) PROVE Alone'
  BY <1>8 DEF Pick
<1>9. ASSUME NEW s \in Senders, Retry(s) PROVE Alone'
  BY <1>9 DEF Retry
<1>10. ASSUME NEW s \in Senders, Release(s) PROVE Alone'
  BY <1>10 DEF Release, Leaves
<1>11. ASSUME NEW s \in Senders, SenderRaises(s) PROVE Alone'
  BY <1>11 DEF SenderRaises, Leaves
<1>12. ASSUME NEW p \in Processes, Open(p) PROVE Alone'
  BY <1>12 DEF Open
<1>13. ASSUME NEW p \in Processes, Deliver(p) PROVE Alone'
  BY <1>13 DEF Deliver
<1>14. ASSUME NEW p \in Processes, Refuse(p) PROVE Alone'
  BY <1>14 DEF Refuse
<1>15. ASSUME NEW p \in Processes, Sent(p) PROVE Alone'
  BY <1>15 DEF Sent
<1>16. ASSUME NEW p \in Processes, Defer(p) PROVE Alone'
  BY <1>16 DEF Defer
<1>17. ASSUME NEW p \in Processes, Crash(p) PROVE Alone'
  BY <1>17 DEF Crash
<1>18. CASE LockExpires
  BY <1>18 DEF LockExpires
<1>19. CASE UNCHANGED vars
  BY <1>19 DEF vars
<1> QED
  BY <1>1, <1>2, <1>3, <1>4, <1>5, <1>6, <1>7, <1>8, <1>9, <1>10, <1>11, <1>12, <1>13, <1>14, <1>15, <1>16, <1>17, <1>18, <1>19 DEF Next, SendMessage, SendPending

\* Messages are in the hands of who works on them.
LEMMA HandsHold ==
  ASSUME SendersInv, [Next]_vars
  PROVE  Hands'
<1> USE MailQueueAssumption DEF SendersInv, TypeOK, Hands, Processes, Copies, Copy, queue, batch, mail, accidents, Idle, Reads, Others, Done, Has, Busy
<1>1. ASSUME NEW m \in Messages, Enqueue(m) PROVE Hands'
  BY <1>1 DEF Enqueue
<1>2. ASSUME NEW m \in Messages, DelayPasses(m) PROVE Hands'
  BY <1>2 DEF DelayPasses
<1>3. ASSUME NEW m \in Messages, Cleanup(m) PROVE Hands'
  BY <1>3 DEF Cleanup
<1>4. ASSUME NEW c \in Critical, SendAtOnce(c) PROVE Hands'
  BY <1>4 DEF SendAtOnce
<1>5. ASSUME NEW c \in Critical, ThreadRaises(c) PROVE Hands'
  BY <1>5 DEF ThreadRaises
<1>6. ASSUME NEW s \in Senders, Acquire(s) PROVE Hands'
  BY <1>6 DEF Acquire
<1>7. ASSUME NEW s \in Senders, Touch(s) PROVE Hands'
  BY <1>7 DEF Touch
<1>8. ASSUME NEW s \in Senders, Pick(s) PROVE Hands'
  <2>1. PICK copy \in todo[s] :
          hand' = [hand EXCEPT ![s] = [msg |-> copy.msg, state |-> copy.state,
            retries |-> IF copy.state = "QUEUED" THEN copy.retries ELSE copy.retries + 1]]
    BY <1>8 DEF Pick
  <2> DEFINE new == [msg |-> copy.msg, state |-> copy.state,
            retries |-> IF copy.state = "QUEUED" THEN copy.retries ELSE copy.retries + 1]
  <2>2. new \in Copies
    BY DEF Batches
  <2> HIDE DEF new
  <2> QED
    <3>1. hand' = [hand EXCEPT ![s] = new]
      BY <2>1 DEF new
    <3> QED
      BY <1>8, <2>2, <3>1 DEF Pick
<1>9. ASSUME NEW s \in Senders, Retry(s) PROVE Hands'
  BY <1>9 DEF Retry
<1>10. ASSUME NEW s \in Senders, Release(s) PROVE Hands'
  BY <1>10 DEF Release, Leaves
<1>11. ASSUME NEW s \in Senders, SenderRaises(s) PROVE Hands'
  BY <1>11 DEF SenderRaises, Leaves
<1>12. ASSUME NEW p \in Processes, Open(p) PROVE Hands'
  BY <1>12 DEF Open
<1>13. ASSUME NEW p \in Processes, Deliver(p) PROVE Hands'
  BY <1>13 DEF Deliver
<1>14. ASSUME NEW p \in Processes, Refuse(p) PROVE Hands'
  BY <1>14 DEF Refuse
<1>15. ASSUME NEW p \in Processes, Sent(p) PROVE Hands'
  BY <1>15 DEF Sent
<1>16. ASSUME NEW p \in Processes, Defer(p) PROVE Hands'
  BY <1>16 DEF Defer
<1>17. ASSUME NEW p \in Processes, Crash(p) PROVE Hands'
  BY <1>17 DEF Crash
<1>18. CASE LockExpires
  BY <1>18 DEF LockExpires
<1>19. CASE UNCHANGED vars
  BY <1>19 DEF vars
<1> QED
  BY <1>1, <1>2, <1>3, <1>4, <1>5, <1>6, <1>7, <1>8, <1>9, <1>10, <1>11, <1>12, <1>13, <1>14, <1>15, <1>16, <1>17, <1>18, <1>19 DEF Next, SendMessage, SendPending

\* Batches are read from the rows, and lose the message that is picked.
LEMMA BatchesHold ==
  ASSUME SendersInv, [Next]_vars
  PROVE  Batches'
<1> USE MailQueueAssumption DEF SendersInv, TypeOK, Hands, Batches, Processes, Copies, Copy, queue, batch, mail, accidents, Idle, Reads, Others, Done, Has, Busy
<1>1. ASSUME NEW m \in Messages, Enqueue(m) PROVE Batches'
  BY <1>1 DEF Enqueue
<1>2. ASSUME NEW m \in Messages, DelayPasses(m) PROVE Batches'
  BY <1>2 DEF DelayPasses
<1>3. ASSUME NEW m \in Messages, Cleanup(m) PROVE Batches'
  BY <1>3 DEF Cleanup
<1>4. ASSUME NEW c \in Critical, SendAtOnce(c) PROVE Batches'
  BY <1>4 DEF SendAtOnce
<1>5. ASSUME NEW c \in Critical, ThreadRaises(c) PROVE Batches'
  BY <1>5 DEF ThreadRaises
<1>6. ASSUME NEW s \in Senders, Acquire(s) PROVE Batches'
  BY <1>6 DEF Acquire
<1>7. ASSUME NEW s \in Senders, Touch(s) PROVE Batches'
  BY <1>7 DEF Touch
<1>8. ASSUME NEW s \in Senders, Pick(s) PROVE Batches'
  BY <1>8 DEF Pick
<1>9. ASSUME NEW s \in Senders, Retry(s) PROVE Batches'
  BY <1>9 DEF Retry
<1>10. ASSUME NEW s \in Senders, Release(s) PROVE Batches'
  BY <1>10 DEF Release, Leaves
<1>11. ASSUME NEW s \in Senders, SenderRaises(s) PROVE Batches'
  BY <1>11 DEF SenderRaises, Leaves
<1>12. ASSUME NEW p \in Processes, Open(p) PROVE Batches'
  BY <1>12 DEF Open
<1>13. ASSUME NEW p \in Processes, Deliver(p) PROVE Batches'
  BY <1>13 DEF Deliver
<1>14. ASSUME NEW p \in Processes, Refuse(p) PROVE Batches'
  BY <1>14 DEF Refuse
<1>15. ASSUME NEW p \in Processes, Sent(p) PROVE Batches'
  BY <1>15 DEF Sent
<1>16. ASSUME NEW p \in Processes, Defer(p) PROVE Batches'
  BY <1>16 DEF Defer
<1>17. ASSUME NEW p \in Processes, Crash(p) PROVE Batches'
  BY <1>17 DEF Crash
<1>18. CASE LockExpires
  BY <1>18 DEF LockExpires
<1>19. CASE UNCHANGED vars
  BY <1>19 DEF vars
<1> QED
  BY <1>1, <1>2, <1>3, <1>4, <1>5, <1>6, <1>7, <1>8, <1>9, <1>10, <1>11, <1>12, <1>13, <1>14, <1>15, <1>16, <1>17, <1>18, <1>19 DEF Next, SendMessage, SendPending

\* What a sender reads while another has it is doubled; batches only shrink then.
LEMMA SoleHolds ==
  ASSUME QueueInv, [Next]_vars
  PROVE  Sole'
<1> USE MailQueueAssumption DEF QueueInv, SendersInv, TypeOK, Sole, Batches, InHand, Copy, Copies, Hands, Processes, queue, batch, mail, accidents, Idle, Reads, Others, Done, Has, Busy
<1>1. ASSUME NEW m \in Messages, Enqueue(m) PROVE Sole'
  BY <1>1 DEF Enqueue
<1>2. ASSUME NEW m \in Messages, DelayPasses(m) PROVE Sole'
  BY <1>2 DEF DelayPasses
<1>3. ASSUME NEW m \in Messages, Cleanup(m) PROVE Sole'
  BY <1>3 DEF Cleanup
<1>4. ASSUME NEW c \in Critical, SendAtOnce(c) PROVE Sole'
  BY <1>4 DEF SendAtOnce
<1>5. ASSUME NEW c \in Critical, ThreadRaises(c) PROVE Sole'
  BY <1>5 DEF ThreadRaises
<1>6. ASSUME NEW s \in Senders, Acquire(s) PROVE Sole'
  BY <1>6 DEF Acquire
<1>7. ASSUME NEW s \in Senders, Touch(s) PROVE Sole'
  BY <1>7 DEF Touch
<1>8. ASSUME NEW s \in Senders, Pick(s) PROVE Sole'
  BY <1>8 DEF Pick
<1>9. ASSUME NEW s \in Senders, Retry(s) PROVE Sole'
  BY <1>9 DEF Retry
<1>10. ASSUME NEW s \in Senders, Release(s) PROVE Sole'
  BY <1>10 DEF Release, Leaves
<1>11. ASSUME NEW s \in Senders, SenderRaises(s) PROVE Sole'
  BY <1>11 DEF SenderRaises, Leaves
<1>12. ASSUME NEW p \in Processes, Open(p) PROVE Sole'
  BY <1>12 DEF Open
<1>13. ASSUME NEW p \in Processes, Deliver(p) PROVE Sole'
  BY <1>13 DEF Deliver
<1>14. ASSUME NEW p \in Processes, Refuse(p) PROVE Sole'
  BY <1>14 DEF Refuse
<1>15. ASSUME NEW p \in Processes, Sent(p) PROVE Sole'
  BY <1>15 DEF Sent
<1>16. ASSUME NEW p \in Processes, Defer(p) PROVE Sole'
  BY <1>16 DEF Defer
<1>17. ASSUME NEW p \in Processes, Crash(p) PROVE Sole'
  BY <1>17 DEF Crash
<1>18. CASE LockExpires
  BY <1>18 DEF LockExpires
<1>19. CASE UNCHANGED vars
  BY <1>19 DEF vars
<1> QED
  BY <1>1, <1>2, <1>3, <1>4, <1>5, <1>6, <1>7, <1>8, <1>9, <1>10, <1>11, <1>12, <1>13, <1>14, <1>15, <1>16, <1>17, <1>18, <1>19 DEF Next, SendMessage, SendPending

\* Nobody but the sender changes the rows of which it has copies.
LEMMA RowsHold ==
  ASSUME QueueInv, [Next]_vars
  PROVE  Rows'
<1> USE MailQueueAssumption DEF QueueInv, SendersInv, TypeOK, Sole, Hands, Batches, Rows, Processes, InHand, Copies, Copy, queue, batch, mail, accidents, Idle, Reads, Others, Done, Has, Busy
<1>1. ASSUME NEW m \in Messages, Enqueue(m) PROVE Rows'
  BY <1>1 DEF Enqueue
<1>2. ASSUME NEW m \in Messages, DelayPasses(m) PROVE Rows'
  BY <1>2 DEF DelayPasses
<1>3. ASSUME NEW m \in Messages, Cleanup(m) PROVE Rows'
  BY <1>3 DEF Cleanup
<1>4. ASSUME NEW c \in Critical, SendAtOnce(c) PROVE Rows'
  BY <1>4 DEF SendAtOnce
<1>5. ASSUME NEW c \in Critical, ThreadRaises(c) PROVE Rows'
  BY <1>5 DEF ThreadRaises
<1>6. ASSUME NEW s \in Senders, Acquire(s) PROVE Rows'
  BY <1>6 DEF Acquire
<1>7. ASSUME NEW s \in Senders, Touch(s) PROVE Rows'
  BY <1>7 DEF Touch
<1>8. ASSUME NEW s \in Senders, Pick(s) PROVE Rows'
  <2>1. PICK copy \in todo[s] :
          LET tried == IF copy.state = "QUEUED" THEN copy.retries ELSE copy.retries + 1 IN
          /\ todo' = [todo EXCEPT ![s] = @ \ {copy}]
          /\ hand' = [hand EXCEPT ![s] = [msg |-> copy.msg, state |-> copy.state, retries |-> tried]]
          /\ retries' = [retries EXCEPT ![copy.msg] = IF copy.state = "QUEUED" THEN @ ELSE tried]
    BY ONLY <1>8 DEF Pick
  <2> DEFINE tried == IF copy.state = "QUEUED" THEN copy.retries ELSE copy.retries + 1
  <2>2. /\ state' = state /\ doubled' = doubled
        /\ \A r \in Senders \ {s} : todo'[r] = todo[r] /\ hand'[r] = hand[r]
    BY <1>8 DEF Pick
  <2>3. copy \in Copies /\ \A a \in todo[s] \ {copy} : a.msg # copy.msg
    BY <2>1
  <2>4. copy.msg \notin doubled => \A r \in Senders \ {s} : ~Has(r, copy.msg)
    BY <2>1, <2>3
  <2>5. \A m \in Messages : m # copy.msg => retries'[m] = retries[m]
    BY <2>1, <2>3
  <2> SUFFICES ASSUME NEW m \in Messages \ (Critical \cup doubled), NEW r \in Senders
               PROVE  /\ \A a \in todo'[r] : a.msg = m => state[m] = a.state /\ retries'[m] = a.retries
                      /\ InHand(r, m)' => state[m] \in {"QUEUED", "DEFERRED"} /\ hand'[r].retries = retries'[m]
    BY <2>2
  <2>6. CASE r # s
    <3>1. /\ \A a \in todo[r] : a.msg = m => m # copy.msg
          /\ InHand(r, m) => m # copy.msg
      BY <2>4, <2>6
    <3> QED
      BY <2>2, <2>5, <2>6, <3>1
  <2>7. CASE r = s /\ m # copy.msg
    <3>1. todo'[s] \subseteq todo[s] /\ ~InHand(s, m)'
      BY <2>1, <2>3, <2>7
    <3> QED
      BY <2>5, <2>7, <3>1
  <2>8. CASE r = s /\ m = copy.msg
    <3>1. \A a \in todo'[s] : a.msg # m
      BY <2>1, <2>3, <2>8
    <3>2. state[m] = copy.state /\ retries[m] = copy.retries
      BY <2>1, <2>8
    <3>3. retries'[m] = tried /\ hand'[s].retries = tried
      BY <2>1, <2>3, <2>8, <3>2
    <3> QED
      BY <2>3, <2>8, <3>1, <3>2, <3>3
  <2> QED
    BY <2>6, <2>7, <2>8
<1>9. ASSUME NEW s \in Senders, Retry(s) PROVE Rows'
  BY <1>9 DEF Retry
<1>10. ASSUME NEW s \in Senders, Release(s) PROVE Rows'
  BY <1>10 DEF Release, Leaves
<1>11. ASSUME NEW s \in Senders, SenderRaises(s) PROVE Rows'
  BY <1>11 DEF SenderRaises, Leaves
<1>12. ASSUME NEW p \in Processes, Open(p) PROVE Rows'
  BY <1>12 DEF Open
<1>13. ASSUME NEW p \in Processes, Deliver(p) PROVE Rows'
  BY <1>13 DEF Deliver
<1>14. ASSUME NEW p \in Processes, Refuse(p) PROVE Rows'
  BY <1>14 DEF Refuse
<1>15. ASSUME NEW p \in Processes, Sent(p) PROVE Rows'
  BY <1>15 DEF Sent
<1>16. ASSUME NEW p \in Processes, Defer(p) PROVE Rows'
  <2>1. hand[p] \in Copies /\ (p \in Critical => hand[p].msg \in Critical)
    BY <1>16 DEF Defer
  <2>2. \A n \in Messages : n # hand[p].msg => state'[n] = state[n]
    BY <1>16, <2>1 DEF Defer
  <2>3. hand' = [hand EXCEPT ![p] = None] /\ UNCHANGED <<todo, retries, doubled>>
    BY <1>16 DEF Defer
  <2>4. ASSUME hand[p].msg \notin Critical \cup doubled, NEW s \in Senders
        PROVE  /\ \A a \in todo[s] : a.msg # hand[p].msg
               /\ InHand(s, hand[p].msg) => s = p
    <3>1. p \in Senders /\ Has(p, hand[p].msg)
      BY <1>16, <2>1, <2>4 DEF Defer
    <3> QED
      BY <2>1, <2>4, <3>1
  <2> QED
    BY <2>1, <2>2, <2>3, <2>4
<1>17. ASSUME NEW p \in Processes, Crash(p) PROVE Rows'
  BY <1>17 DEF Crash
<1>18. CASE LockExpires
  BY <1>18 DEF LockExpires
<1>19. CASE UNCHANGED vars
  BY <1>19 DEF vars
<1> QED
  BY <1>1, <1>2, <1>3, <1>4, <1>5, <1>6, <1>7, <1>8, <1>9, <1>10, <1>11, <1>12, <1>13, <1>14, <1>15, <1>16, <1>17, <1>18, <1>19 DEF Next, SendMessage, SendPending

\* A delivery is counted by its record, or by the process that died before it.
LEMMA DeliveredOnceHolds ==
  ASSUME QueueInv, DeliveredOnce, [Next]_vars
  PROVE  DeliveredOnce'
<1> USE MailQueueAssumption DEF QueueInv, SendersInv, TypeOK, Sole, Hands, Batches, Rows, Processes, InHand, Copies, Copy, queue, batch, mail, accidents, Idle, Reads, Others, Done, Has, Busy, DeliveredOnce
<1>1. ASSUME NEW m \in Messages, Enqueue(m) PROVE DeliveredOnce'
  BY <1>1 DEF Enqueue
<1>2. ASSUME NEW m \in Messages, DelayPasses(m) PROVE DeliveredOnce'
  BY <1>2 DEF DelayPasses
<1>3. ASSUME NEW m \in Messages, Cleanup(m) PROVE DeliveredOnce'
  BY <1>3 DEF Cleanup
<1>4. ASSUME NEW c \in Critical, SendAtOnce(c) PROVE DeliveredOnce'
  BY <1>4 DEF SendAtOnce
<1>5. ASSUME NEW c \in Critical, ThreadRaises(c) PROVE DeliveredOnce'
  BY <1>5 DEF ThreadRaises
<1>6. ASSUME NEW s \in Senders, Acquire(s) PROVE DeliveredOnce'
  BY <1>6 DEF Acquire
<1>7. ASSUME NEW s \in Senders, Touch(s) PROVE DeliveredOnce'
  BY <1>7 DEF Touch
<1>8. ASSUME NEW s \in Senders, Pick(s) PROVE DeliveredOnce'
  BY <1>8 DEF Pick
<1>9. ASSUME NEW s \in Senders, Retry(s) PROVE DeliveredOnce'
  BY <1>9 DEF Retry
<1>10. ASSUME NEW s \in Senders, Release(s) PROVE DeliveredOnce'
  BY <1>10 DEF Release, Leaves
<1>11. ASSUME NEW s \in Senders, SenderRaises(s) PROVE DeliveredOnce'
  BY <1>11 DEF SenderRaises, Leaves
<1>12. ASSUME NEW p \in Processes, Open(p) PROVE DeliveredOnce'
  BY <1>12 DEF Open
<1>13. ASSUME NEW p \in Processes, Deliver(p) PROVE DeliveredOnce'
  BY <1>13 DEF Deliver
<1>14. ASSUME NEW p \in Processes, Refuse(p) PROVE DeliveredOnce'
  BY <1>14 DEF Refuse
<1>15. ASSUME NEW p \in Processes, Sent(p) PROVE DeliveredOnce'
  BY <1>15 DEF Sent
<1>16. ASSUME NEW p \in Processes, Defer(p) PROVE DeliveredOnce'
  BY <1>16 DEF Defer
<1>17. ASSUME NEW p \in Processes, Crash(p) PROVE DeliveredOnce'
  BY <1>17 DEF Crash
<1>18. CASE LockExpires
  BY <1>18 DEF LockExpires
<1>19. CASE UNCHANGED vars
  BY <1>19 DEF vars
<1> QED
  BY <1>1, <1>2, <1>3, <1>4, <1>5, <1>6, <1>7, <1>8, <1>9, <1>10, <1>11, <1>12, <1>13, <1>14, <1>15, <1>16, <1>17, <1>18, <1>19 DEF Next, SendMessage, SendPending

\* A message that was tried for the last time is in the hands of its sender until
\* it is given up.
LEMMA LastTriesHolds ==
  ASSUME QueueInv, LastTries, [Next]_vars
  PROVE  LastTries'
<1> USE MailQueueAssumption DEF QueueInv, SendersInv, TypeOK, Sole, Hands, Batches, Rows, Processes, InHand, Copies, Copy, queue, batch, mail, accidents, Idle, Reads, Others, Done, Has, Busy, LastTries
<1>1. ASSUME NEW m \in Messages, Enqueue(m) PROVE LastTries'
  BY <1>1 DEF Enqueue
<1>2. ASSUME NEW m \in Messages, DelayPasses(m) PROVE LastTries'
  BY <1>2 DEF DelayPasses
<1>3. ASSUME NEW m \in Messages, Cleanup(m) PROVE LastTries'
  BY <1>3 DEF Cleanup
<1>4. ASSUME NEW c \in Critical, SendAtOnce(c) PROVE LastTries'
  BY <1>4 DEF SendAtOnce
<1>5. ASSUME NEW c \in Critical, ThreadRaises(c) PROVE LastTries'
  BY <1>5 DEF ThreadRaises
<1>6. ASSUME NEW s \in Senders, Acquire(s) PROVE LastTries'
  BY <1>6 DEF Acquire
<1>7. ASSUME NEW s \in Senders, Touch(s) PROVE LastTries'
  BY <1>7 DEF Touch
<1>8. ASSUME NEW s \in Senders, Pick(s) PROVE LastTries'
  BY <1>8 DEF Pick
<1>9. ASSUME NEW s \in Senders, Retry(s) PROVE LastTries'
  BY <1>9 DEF Retry
<1>10. ASSUME NEW s \in Senders, Release(s) PROVE LastTries'
  BY <1>10 DEF Release, Leaves
<1>11. ASSUME NEW s \in Senders, SenderRaises(s) PROVE LastTries'
  BY <1>11 DEF SenderRaises, Leaves
<1>12. ASSUME NEW p \in Processes, Open(p) PROVE LastTries'
  BY <1>12 DEF Open
<1>13. ASSUME NEW p \in Processes, Deliver(p) PROVE LastTries'
  BY <1>13 DEF Deliver
<1>14. ASSUME NEW p \in Processes, Refuse(p) PROVE LastTries'
  BY <1>14 DEF Refuse
<1>15. ASSUME NEW p \in Processes, Sent(p) PROVE LastTries'
  BY <1>15 DEF Sent
<1>16. ASSUME NEW p \in Processes, Defer(p) PROVE LastTries'
  BY <1>16 DEF Defer
<1>17. ASSUME NEW p \in Processes, Crash(p) PROVE LastTries'
  BY <1>17 DEF Crash
<1>18. CASE LockExpires
  BY <1>18 DEF LockExpires
<1>19. CASE UNCHANGED vars
  BY <1>19 DEF vars
<1> QED
  BY <1>1, <1>2, <1>3, <1>4, <1>5, <1>6, <1>7, <1>8, <1>9, <1>10, <1>11, <1>12, <1>13, <1>14, <1>15, <1>16, <1>17, <1>18, <1>19 DEF Next, SendMessage, SendPending

\* The thread of a critical message delivers it once or defers it once; a sender
\* delivers it and takes it again only after the thread deferred it.
LEMMA TwiceHolds ==
  ASSUME QueueInv, Twice, [Next]_vars
  PROVE  Twice'
<1> USE MailQueueAssumption DEF QueueInv, SendersInv, TypeOK, Sole, Hands, Batches, Rows, Processes, InHand, Copies, Copy, queue, batch, mail, accidents, Idle, Reads, Others, Done, Has, Busy, Twice, Sends, ThreadSends
<1>1. ASSUME NEW m \in Messages, Enqueue(m) PROVE Twice'
  BY <1>1 DEF Enqueue
<1>2. ASSUME NEW m \in Messages, DelayPasses(m) PROVE Twice'
  BY <1>2 DEF DelayPasses
<1>3. ASSUME NEW m \in Messages, Cleanup(m) PROVE Twice'
  BY <1>3 DEF Cleanup
<1>4. ASSUME NEW c \in Critical, SendAtOnce(c) PROVE Twice'
  BY <1>4 DEF SendAtOnce
<1>5. ASSUME NEW c \in Critical, ThreadRaises(c) PROVE Twice'
  BY <1>5 DEF ThreadRaises
<1>6. ASSUME NEW s \in Senders, Acquire(s) PROVE Twice'
  BY <1>6 DEF Acquire
<1>7. ASSUME NEW s \in Senders, Touch(s) PROVE Twice'
  BY <1>7 DEF Touch
<1>8. ASSUME NEW s \in Senders, Pick(s) PROVE Twice'
  BY <1>8 DEF Pick
<1>9. ASSUME NEW s \in Senders, Retry(s) PROVE Twice'
  BY <1>9 DEF Retry
<1>10. ASSUME NEW s \in Senders, Release(s) PROVE Twice'
  BY <1>10 DEF Release, Leaves
<1>11. ASSUME NEW s \in Senders, SenderRaises(s) PROVE Twice'
  BY <1>11 DEF SenderRaises, Leaves
<1>12. ASSUME NEW p \in Processes, Open(p) PROVE Twice'
  BY <1>12 DEF Open
<1>13. ASSUME NEW p \in Processes, Deliver(p) PROVE Twice'
  <2> SUFFICES ASSUME NEW c \in Critical \ doubled'
               PROVE  (delivered[c] + Sends(c) + ThreadSends(c) <= 2 + cut[c])'
    BY DEF Twice
  <2>1. /\ hand[p] \in Copies /\ step[p] = "tried"
        /\ (p \in Critical => hand[p].msg = p)
    BY <1>13 DEF Deliver
  <2>2. /\ step' = [step EXCEPT ![p] = "delivered"]
        /\ delivered' = [delivered EXCEPT ![hand[p].msg] = @ + 1]
        /\ UNCHANGED <<state, hand, todo, cut, doubled>>
    BY <1>13 DEF Deliver
  <2>3. CASE hand[p].msg # c
    BY <2>1, <2>2, <2>3
  <2>4. CASE p = c
    <3>1. \A s \in Senders : s # c
      OBVIOUS
    <3>2. Sends(c)' = Sends(c)
      BY <2>2, <2>4, <3>1
    <3>3. ThreadSends(c) = 1 /\ ThreadSends(c)' = 0
      BY <2>1, <2>2, <2>4
    <3> QED
      BY <2>1, <2>2, <2>4, <3>2, <3>3
  <2>5. CASE p \in Senders /\ hand[p].msg = c
    <3>1. InHand(p, c) /\ \A s \in Senders \ {p} : ~InHand(s, c)
      BY <2>1, <2>2, <2>5
    <3>2. Sends(c) = 1 /\ Sends(c)' = 0 /\ ThreadSends(c)' = ThreadSends(c)
      BY <2>1, <2>2, <2>5, <3>1
    <3> QED
      BY <2>1, <2>2, <2>5, <3>2 DEF Twice
  <2> QED
    BY <2>1, <2>3, <2>4, <2>5
<1>14. ASSUME NEW p \in Processes, Refuse(p) PROVE Twice'
  BY <1>14 DEF Refuse
<1>15. ASSUME NEW p \in Processes, Sent(p) PROVE Twice'
  <2> SUFFICES ASSUME NEW c \in Critical \ doubled'
               PROVE  (delivered[c] + Sends(c) + ThreadSends(c) <= 2 + cut[c])'
    BY DEF Twice
  <2>1. hand[p] \in Copies /\ step[p] = "delivered" /\ (p \in Critical => hand[p].msg = p)
    BY <1>15 DEF Sent
  <2>2. /\ hand' = [hand EXCEPT ![p] = None] /\ step' = [step EXCEPT ![p] = "none"]
        /\ state' = [state EXCEPT ![hand[p].msg] = "SENT"]
        /\ UNCHANGED <<todo, delivered, cut, doubled>>
    BY <1>15 DEF Sent
  <2>3. ThreadSends(c)' <= ThreadSends(c)
    BY <2>1, <2>2
  <2>4. CASE hand[p].msg # c \/ p = c
    <3>1. Sends(c)' <= Sends(c)
      BY <2>1, <2>2, <2>4
    <3> QED
      BY <2>2, <2>3, <3>1 DEF Twice
  <2>5. CASE p \in Senders /\ hand[p].msg = c
    <3>1. \A s \in Senders : ~InHand(s, c)' /\ \A a \in todo[s] : a.msg # c
      BY <2>1, <2>2, <2>5
    <3>2. Sends(c)' = 0
      BY <2>1, <2>2, <2>5, <3>1
    <3> QED
      BY <2>2, <2>3, <3>2 DEF Twice
  <2> QED
    BY <2>1, <2>4, <2>5
<1>16. ASSUME NEW p \in Processes, Defer(p) PROVE Twice'
  BY <1>16 DEF Defer
<1>17. ASSUME NEW p \in Processes, Crash(p) PROVE Twice'
  <2> SUFFICES ASSUME NEW c \in Critical \ doubled'
               PROVE  (delivered[c] + Sends(c) + ThreadSends(c) <= 2 + cut[c])'
    BY DEF Twice
  <2>1. /\ hand' = [hand EXCEPT ![p] = None] /\ step' = [step EXCEPT ![p] = "none"]
        /\ \A s \in Senders : todo'[s] \subseteq todo[s]
        /\ UNCHANGED <<state, delivered, doubled>>
    BY <1>17 DEF Crash
  <2>2. cut' = IF step[p] = "delivered" THEN [cut EXCEPT ![hand[p].msg] = @ + 1] ELSE cut
    BY <1>17 DEF Crash
  <2>3. ThreadSends(c)' <= ThreadSends(c)
    BY <2>1
  <2>4. CASE p \in Senders /\ InHand(p, c) /\ step[p] = "delivered"
    <3>1. cut'[c] = cut[c] + 1 /\ Sends(c) = 0
      <4>1. \A s \in Senders \ {p} : ~InHand(s, c)
        BY <2>1, <2>4
      <4>2. \A s \in Senders : \A a \in todo[s] : a.msg # c
        BY <2>1, <2>4
      <4> QED
        BY <2>2, <2>4, <4>1, <4>2
    <3> QED
      BY <2>1, <2>3, <3>1
  <2>5. CASE ~(p \in Senders /\ InHand(p, c) /\ step[p] = "delivered")
    <3>1. Sends(c)' <= Sends(c)
      BY <2>1, <2>5
    <3>2. cut'[c] \in Nat /\ cut[c] <= cut'[c]
      BY <2>1, <2>2
    <3> QED
      BY <2>1, <2>3, <3>1, <3>2
  <2> QED
    BY <2>4, <2>5
<1>18. CASE LockExpires
  BY <1>18 DEF LockExpires
<1>19. CASE UNCHANGED vars
  BY <1>19 DEF vars
<1> QED
  BY <1>1, <1>2, <1>3, <1>4, <1>5, <1>6, <1>7, <1>8, <1>9, <1>10, <1>11, <1>12, <1>13, <1>14, <1>15, <1>16, <1>17, <1>18, <1>19 DEF Next, SendMessage, SendPending
-----------------------------------------------------------------------------
(* Theorems *)

\* In the beginning nobody works and nothing is delivered.
LEMMA Beginning == Init => QueueInv /\ DeliveredOnce /\ Twice /\ LastTries
<1> SUFFICES ASSUME Init PROVE QueueInv /\ DeliveredOnce /\ Twice /\ LastTries
  OBVIOUS
<1> USE MailQueueAssumption DEF Init
<1>1. SendersInv
  <2>1. TypeOK
    <3>1. delivered \in [Messages -> Nat] /\ cut \in [Messages -> Nat] /\ retries \in [Messages -> 0 .. Tries]
      OBVIOUS
    <3>2. crashes \in 0 .. MaxCrashes /\ beside \in 0 .. MaxBeside /\ cur \in [Senders -> 0 .. Bulk]
      OBVIOUS
    <3>3. scene \in Scenes /\ unsendable \subseteq Messages
      OBVIOUS
    <3> QED
      BY <3>1, <3>2, <3>3 DEF TypeOK, Processes
  <2> QED
    BY <2>1 DEF SendersInv, Hands, Batches, Processes, Busy
<1>2. Alone /\ Sole /\ Rows
  BY DEF Alone, Sole, Rows, Busy, Has, InHand, Processes
<1>3. DeliveredOnce
  <2>1. \A m \in Messages : delivered[m] = 0 /\ cut[m] = 0 /\ state[m] = "none"
    OBVIOUS
  <2>2. \A p \in Processes : step[p] = "none"
    OBVIOUS
  <2> SUFFICES ASSUME NEW m \in Messages \ (Critical \cup doubled)
               PROVE  delivered[m] = cut[m] +
                 (IF \/ state[m] \in {"SENT", "deleted"}
                     \/ \E p \in Processes : step[p] = "delivered" /\ InHand(p, m)
                  THEN 1 ELSE 0)
    BY DEF DeliveredOnce
  <2>3. ~(\/ state[m] \in {"SENT", "deleted"}
          \/ \E p \in Processes : step[p] = "delivered" /\ InHand(p, m))
    BY <2>1, <2>2
  <2> QED
    BY <2>1, <2>3
<1>4. ASSUME NEW c \in Critical PROVE Sends(c) = 1 /\ ThreadSends(c) = 1
  BY DEF Sends, ThreadSends, InHand, Processes
<1>5. Twice
  BY <1>4 DEF Twice
<1>6. LastTries
  BY DEF LastTries
<1> QED
  BY <1>1, <1>2, <1>3, <1>5, <1>6 DEF QueueInv

\* Types, and that a sender has only what it read.
THEOREM TypeCorrect == Spec => []TypeOK
<1>1. Init => SendersInv
  BY Beginning DEF QueueInv
<1>2. SendersInv /\ [Next]_vars => SendersInv'
  BY TypesHold, HandsHold, BatchesHold DEF SendersInv
<1>3. SendersInv => TypeOK
  BY DEF SendersInv
<1> QED
  BY <1>1, <1>2, <1>3, PTL DEF Spec

\* The inductive invariant: senders share only the doubled messages, and work on
\* copies of the others' rows as they are; one is at work while locks hold.
THEOREM QueueInvariant == Spec => []QueueInv
<1>1. Init => QueueInv
  BY Beginning
<1>2. QueueInv /\ [Next]_vars => QueueInv'
  BY TypesHold, HandsHold, BatchesHold, AloneHolds, SoleHolds, RowsHold DEF QueueInv, SendersInv
<1> QED
  BY <1>1, <1>2, PTL DEF Spec

\* The server of mails took what the queue says, critical messages twice at most,
\* but for messages that two senders had.
THEOREM RecordsAreTrue == Spec => []DeliveriesRecorded
<1>1. Init => DeliveredOnce /\ Twice
  BY Beginning
<1>2. QueueInv /\ DeliveredOnce /\ Twice /\ [Next]_vars => DeliveredOnce' /\ Twice'
  BY DeliveredOnceHolds, TwiceHolds
<1>3. QueueInv /\ Twice => CriticalTwiceAtMost
  BY MailQueueAssumption
  DEF QueueInv, SendersInv, TypeOK, Twice, Sends, ThreadSends, CriticalTwiceAtMost
<1> QED
  BY <1>1, <1>2, <1>3, QueueInvariant, PTL DEF Spec, DeliveriesRecorded

\* No two senders have a message while locks do not expire under who took them and
\* no two take one at once.
THEOREM DoubledByOverrunOnly == Spec => []DoubledByOverrun
<1>1. Init => DoubledByOverrun
  BY DEF Init, DoubledByOverrun
<1>2. QueueInv /\ DoubledByOverrun /\ [Next]_vars => DoubledByOverrun'
  <2> SUFFICES ASSUME QueueInv, DoubledByOverrun, [Next]_vars, ~overrun' PROVE doubled' = {}
    BY DEF DoubledByOverrun
  <2>1. ~overrun /\ doubled = {}
    <3>1. overrun => overrun'
      BY DEF Next, SendMessage, SendPending, vars, accidents, Enqueue, DelayPasses, Cleanup,
        SendAtOnce, ThreadRaises, Acquire, Touch, Pick, Retry, Release, SenderRaises, Open, Deliver,
        Refuse, Sent, Defer, Crash, LockExpires
    <3> QED
      BY <3>1 DEF DoubledByOverrun
  <2> USE MailQueueAssumption DEF QueueInv, SendersInv, TypeOK, Hands, Processes, Busy, Has, InHand
  <2>2. ASSUME NEW s \in Senders, Touch(s) \/ Retry(s) PROVE doubled' = {}
    <3>1. \A r \in Senders \ {s} : ~Busy(r)
      BY <2>1, <2>2 DEF Touch, Retry, Alone
    <3>2. \A r \in Senders \ {s}, m \in Messages : ~Has(r, m)
      BY <3>1
    <3> QED
      BY <2>1, <2>2, <3>2 DEF Touch, Retry, Reads
  <2>3. CASE UNCHANGED doubled
    BY <2>1, <2>3
  <2> QED
    BY <2>2, <2>3 DEF Next, SendMessage, SendPending, vars, accidents, Enqueue, DelayPasses, Cleanup,
      SendAtOnce, ThreadRaises, Acquire, Pick, Release, SenderRaises, Open, Deliver, Refuse,
      Sent, Defer, Crash, LockExpires
<1> QED
  BY <1>1, <1>2, QueueInvariant, PTL DEF Spec

\* Only the accidents StrandedByAccident names leave a message deferred for ever.
THEOREM StrandedByAccidentOnly == Spec => []StrandedByAccident
<1>1. Init => LastTries
  BY Beginning
<1>2. QueueInv /\ LastTries /\ [Next]_vars => LastTries'
  BY LastTriesHolds
<1>3. LastTries => StrandedByAccident
  BY DEF LastTries, StrandedByAccident, Stranded, Processes
<1> QED
  BY <1>1, <1>2, <1>3, QueueInvariant, PTL DEF Spec

\* What is SENT is never queued, deferred or failed again, but by a second sender
\* that had it.
THEOREM SentStaysSent == Spec => SentIsFinal
<1> DEFINE Kept == \A m \in Messages \ (Critical \cup doubled) :
                     state[m] = "SENT" => state'[m] \in {"SENT", "deleted"}
<1>1. QueueInv /\ [Next]_vars => [Kept]_vars
  <2> SUFFICES ASSUME QueueInv, Next PROVE Kept
    BY DEF vars
  <2> SUFFICES ASSUME NEW m \in Messages \ (Critical \cup doubled), state[m] = "SENT"
               PROVE  state'[m] \in {"SENT", "deleted"}
    OBVIOUS
  <2> USE DEF QueueInv, SendersInv, TypeOK, Hands, Rows, InHand, Processes, Copies
  <2>1. ASSUME NEW p \in Processes, Sent(p) \/ Defer(p) PROVE state'[m] = "SENT"
    <3>1. hand[p].msg # m
      BY <2>1, MailQueueAssumption DEF Sent, Defer
    <3> QED
      BY <2>1, <3>1 DEF Sent, Defer
  <2>2. \A n \in Messages : Enqueue(n) \/ DelayPasses(n) \/ Cleanup(n)
                             => state'[m] \in {"SENT", "deleted"}
    BY DEF Enqueue, DelayPasses, Cleanup, queue
  <2>3. \A c \in Critical : SendAtOnce(c) \/ ThreadRaises(c) => state'[m] = "SENT"
    BY DEF SendAtOnce, ThreadRaises, queue
  <2>4. \A s \in Senders : SendPending(s) => state'[m] = "SENT"
    BY DEF SendPending, Acquire, Touch, Pick, Retry, Release, SenderRaises, queue
  <2>5. \A p \in Processes : Open(p) \/ Deliver(p) \/ Refuse(p) \/ Crash(p)
                              => state'[m] = "SENT"
    BY DEF Open, Deliver, Refuse, Crash, queue
  <2>6. LockExpires => state'[m] = "SENT"
    BY DEF LockExpires, queue
  <2> QED
    BY <2>1, <2>2, <2>3, <2>4, <2>5, <2>6 DEF Next, SendMessage
<1> QED
  BY <1>1, QueueInvariant, PTL DEF Spec, SentIsFinal
===============================================================================
