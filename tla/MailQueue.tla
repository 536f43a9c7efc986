------------------------------ MODULE MailQueue -------------------------------
(***************************************************************************)
(* The queue of mails and who empties it: send_pending, which several      *)
(* processes may run, under a lock that is a file; and the threads that    *)
(* send critical messages as soon as they are written.                     *)
(*                                                                         *)
(* A process works on copies of the rows it read, and saves some columns   *)
(* of them.  Time is in what has run out: the delay of a deferred message, *)
(* and the five minutes of the lock.                                       *)
(***************************************************************************)
EXTENDS Naturals

CONSTANTS
  Messages,
  Critical,   \* messages a thread sends at once
  Priority,   \* the priority of each message
  Senders,    \* processes that run send_pending
  Tries,      \* len(MAILER_DEFERE_SECONDS)
  Bulk,       \* MAILER_BULK_MESSAGES
  MaxCrashes, \* processes that die
  MaxBeside,  \* senders that start beside one at work
  Scenes,     \* the messages that are written and the senders that run, together
  None

\* What is read of the row of a message to be sent.
Copies == [msg : Messages, state : {"QUEUED", "DEFERRED"}, retries : 0 .. Tries]

ASSUME MailQueueAssumption ==
  /\ Critical \subseteq Messages
  /\ Messages \cap Senders = {}
  /\ Priority \in [Messages -> Nat]
  /\ Tries \in Nat /\ Bulk \in Nat \ {0} /\ MaxCrashes \in Nat /\ MaxBeside \in Nat
  /\ Scenes \subseteq [messages : SUBSET Messages, senders : SUBSET Senders]
  /\ None \notin Copies

VARIABLES
  scene,      \* one of Scenes
  unsendable, \* messages whose addresses sendmail cannot encode, a fact of each
  state,     \* state[m]: the column state of m, "none" before it is written
  retries,   \* retries[m]: its column retries
  due,       \* deferred messages that waited as long as they have to
  lock,      \* the file of the lock: "none", "fresh" or "expired"
  phase,     \* phase[s]: where send_pending is
  todo,      \* todo[s]: copies of the rows of the query, not yet sent
  cur,       \* cur[s]: messages sent since the connection was closed
  hand,      \* hand[p]: the message send_message works on, a copy of its row
  step,      \* step[p]: where send_message is
  connection,\* connection[p]: "closed", "open" or "broken"
  delivered, \* history: how often the server of mails took m
  cut,       \* history: how often a process died after that and before sent()
  left,      \* history: messages a process died at work on
  crashes,   \* history: processes that died
  beside,    \* history: senders that started beside one at work
  overrun,   \* history: whether the lock expired under a sender or two looked at once
  doubled    \* history: messages a sender read while another had them

queue == <<scene, unsendable, state, retries, due>>
batch == <<phase, todo, cur>>
mail == <<hand, step, connection>>
accidents == <<cut, left, crashes, beside, overrun, doubled>>
vars == <<scene, unsendable, state, retries, due, lock, phase, todo, cur, hand, step, connection,
          delivered, cut, left, crashes, beside, overrun, doubled>>

\* A critical message names the thread that sends it.
Processes == Senders \cup Critical

TypeOK ==
  /\ scene \in Scenes
  /\ unsendable \subseteq Messages
  /\ state \in [Messages -> {"none", "QUEUED", "SENT", "DEFERRED", "FAILED", "deleted"}]
  /\ retries \in [Messages -> 0 .. Tries]
  /\ due \subseteq Messages
  /\ lock \in {"none", "fresh", "expired"}
  /\ phase \in [Senders -> {"idle", "acquiring", "queued", "deferred"}]
  /\ todo \in [Senders -> SUBSET Copies]
  /\ cur \in [Senders -> 0 .. Bulk]
  /\ hand \in [Processes -> Copies \cup {None}]
  /\ step \in [Processes -> {"none", "tried", "delivered", "refused"}]
  /\ connection \in [Processes -> {"closed", "open", "broken"}]
  /\ delivered \in [Messages -> Nat] /\ cut \in [Messages -> Nat]
  /\ left \subseteq Messages
  /\ crashes \in 0 .. MaxCrashes
  /\ beside \in 0 .. MaxBeside
  /\ overrun \in BOOLEAN
  /\ doubled \subseteq Messages

Init ==
  /\ scene \in Scenes
  /\ unsendable \in SUBSET scene.messages
  /\ state = [m \in Messages |-> "none"]
  /\ retries = [m \in Messages |-> 0]
  /\ due = {}
  /\ lock = "none"
  /\ phase = [s \in Senders |-> "idle"]
  /\ todo = [s \in Senders |-> {}]
  /\ cur = [s \in Senders |-> 0]
  /\ hand = [p \in Processes |-> None]
  /\ step = [p \in Processes |-> "none"]
  /\ connection = [p \in Processes |-> "closed"]
  /\ delivered = [m \in Messages |-> 0]
  /\ cut = [m \in Messages |-> 0]
  /\ left = {}
  /\ crashes = 0
  /\ beside = 0
  /\ overrun = FALSE
  /\ doubled = {}

\* A sender inside the block of its lock.
Busy(s) == phase[s] \in {"queued", "deferred"}

InHand(p, m) == hand[p] # None /\ hand[p].msg = m

Copy(m) == [msg |-> m, state |-> state[m], retries |-> retries[m]]

-----------------------------------------------------------------------------
(* Messages are written *)

\* EmailBackend.send_messages: a message that is not critical is saved with the
\* transaction of the request.
Enqueue(m) ==
  /\ m \in scene.messages \ Critical
  /\ state[m] = "none"
  /\ state' = [state EXCEPT ![m] = "QUEUED"]
  /\ UNCHANGED <<scene, unsendable, retries, due, lock, batch, mail, delivered, accidents>>

\* The thread of a critical message saves it, as any other, and starts to send it.
SendAtOnce(c) ==
  /\ c \in scene.messages
  /\ state[c] = "none"
  /\ state' = [state EXCEPT ![c] = "QUEUED"]
  /\ hand' = [hand EXCEPT ![c] = [msg |-> c, state |-> "QUEUED", retries |-> 0]]
  /\ step' = [step EXCEPT ![c] = "tried"]
  /\ UNCHANGED <<scene, unsendable, retries, due, lock, batch, connection, delivered, accidents>>

-----------------------------------------------------------------------------
(* LockFile *)

\* A slip: a lock that is there is taken as one that has expired.
AcquireAnyway(s) ==
  /\ s \in scene.senders
  /\ phase[s] = "idle"
  /\ phase' = [phase EXCEPT ![s] = "acquiring"]
  /\ UNCHANGED <<queue, lock, todo, cur, mail, delivered, accidents>>

\* acquire() looks at the file, and goes on if it is not there or has expired...
Acquire(s) ==
  /\ s \in scene.senders
  /\ phase[s] = "idle"
  /\ lock # "fresh"
  /\ phase' = [phase EXCEPT ![s] = "acquiring"]
  /\ UNCHANGED <<queue, lock, todo, cur, mail, delivered, accidents>>

\* Messages of others: read by s now, they are read twice.
Has(s, m) == InHand(s, m) \/ \E copy \in todo[s] : copy.msg = m

Reads(s, read) ==
  /\ todo' = [todo EXCEPT ![s] = {Copy(m) : m \in read}]
  /\ doubled' = doubled \cup {m \in read : \E r \in Senders \ {s} : Has(r, m)}

\* Whether another is at work when s starts.
Others(s) == IF \E r \in Senders \ {s} : Busy(r) THEN 1 ELSE 0

\* A slip: the query of queued messages has no state.
TouchForAll(s) ==
  /\ phase[s] = "acquiring"
  /\ lock' = "fresh"
  /\ overrun' = (overrun \/ \E r \in Senders \ {s} : phase[r] = "acquiring")
  /\ beside + Others(s) <= MaxBeside
  /\ beside' = beside + Others(s)
  /\ phase' = [phase EXCEPT ![s] = "queued"]
  /\ Reads(s, {m \in Messages : state[m] \in {"QUEUED", "SENT"}})
  /\ UNCHANGED <<queue, cur, mail, delivered, cut, left, crashes>>

\* ...and touches it, though another may have done so after that.  The query of
\* queued messages is done then.
Touch(s) ==
  /\ phase[s] = "acquiring"
  /\ lock' = "fresh"
  /\ overrun' = (overrun \/ \E r \in Senders \ {s} : phase[r] = "acquiring")
  /\ beside + Others(s) <= MaxBeside
  /\ beside' = beside + Others(s)
  /\ phase' = [phase EXCEPT ![s] = "queued"]
  /\ Reads(s, {m \in Messages : state[m] = "QUEUED"})
  /\ UNCHANGED <<queue, cur, mail, delivered, cut, left, crashes>>

\* Five minutes pass, whether who took the lock is dead or still at work.
LockExpires ==
  /\ lock = "fresh"
  /\ lock' = "expired"
  /\ overrun' = (overrun \/ \E s \in Senders : Busy(s))
  /\ UNCHANGED <<queue, batch, mail, delivered, cut, left, crashes, beside, doubled>>

-----------------------------------------------------------------------------
(* send_pending *)

Idle(s) == step[s] = "none"

\* A slip: the last delay is left out of the query.
RetryButLast(s) ==
  /\ phase[s] = "queued" /\ todo[s] = {} /\ Idle(s)
  /\ phase' = [phase EXCEPT ![s] = "deferred"]
  /\ Reads(s, {m \in due : state[m] = "DEFERRED" /\ retries[m] + 1 < Tries})
  /\ UNCHANGED <<queue, lock, cur, mail, delivered, cut, left, crashes, beside, overrun>>

\* After the queued messages, the deferred whose delay is over: there is a delay
\* for each number of retries below Tries.
Retry(s) ==
  /\ phase[s] = "queued" /\ todo[s] = {} /\ Idle(s)
  /\ phase' = [phase EXCEPT ![s] = "deferred"]
  /\ Reads(s, {m \in due : state[m] = "DEFERRED" /\ retries[m] < Tries})
  /\ UNCHANGED <<queue, lock, cur, mail, delivered, cut, left, crashes, beside, overrun>>

\* The next of the batch, by priority; the connection is closed after Bulk.  What
\* send_message saves first, last_try and, but for a message that was not tried
\* before, retries, is in this step.
Pick(s) ==
  /\ phase[s] \in {"queued", "deferred"} /\ Idle(s)
  /\ \E copy \in todo[s] :
       LET m == copy.msg
           tried == IF copy.state = "QUEUED" THEN copy.retries ELSE copy.retries + 1 IN
       /\ \A other \in todo[s] : Priority[m] <= Priority[other.msg]
       /\ todo' = [todo EXCEPT ![s] = @ \ {copy}]
       /\ hand' = [hand EXCEPT ![s] = [msg |-> m, state |-> copy.state, retries |-> tried]]
       /\ retries' = [retries EXCEPT ![m] = IF copy.state = "QUEUED" THEN @ ELSE tried]
       /\ due' = due \ {m}
  /\ step' = [step EXCEPT ![s] = "tried"]
  /\ cur' = [cur EXCEPT ![s] = IF @ >= Bulk THEN 1 ELSE @ + 1]
  /\ connection' = [connection EXCEPT ![s] = IF cur[s] >= Bulk THEN "closed" ELSE @]
  /\ UNCHANGED <<scene, unsendable, state, lock, phase, delivered, accidents>>

\* What ends send_pending, whether by an exception or not: release() removes the
\* file, or raises for there is none, and the connection is closed.
Leaves(s) ==
  /\ lock' = "none"
  /\ phase' = [phase EXCEPT ![s] = "idle"]
  /\ todo' = [todo EXCEPT ![s] = {}]
  /\ cur' = [cur EXCEPT ![s] = 0]
  /\ hand' = [hand EXCEPT ![s] = None]
  /\ step' = [step EXCEPT ![s] = "none"]
  /\ connection' = [connection EXCEPT ![s] = "closed"]

Release(s) ==
  /\ phase[s] = "deferred" /\ todo[s] = {} /\ Idle(s)
  /\ Leaves(s)
  /\ UNCHANGED <<queue, delivered, accidents>>

-----------------------------------------------------------------------------
(* send_message, in a sender or in a thread *)

\* send_message returns; the connection of a thread goes with it.
Done(p) ==
  /\ hand' = [hand EXCEPT ![p] = None]
  /\ step' = [step EXCEPT ![p] = "none"]
  /\ connection' = IF p \in Senders THEN connection ELSE [connection EXCEPT ![p] = "closed"]

\* open() may raise whatever.
Open(p) ==
  /\ step[p] = "tried" /\ connection[p] = "closed"
  /\ \/ connection' = [connection EXCEPT ![p] = "open"] /\ UNCHANGED step
     \/ step' = [step EXCEPT ![p] = "refused"] /\ UNCHANGED connection
  /\ UNCHANGED <<queue, lock, batch, hand, delivered, accidents>>

\* sendmail() returns.
Deliver(p) ==
  /\ step[p] = "tried" /\ connection[p] = "open"
  /\ hand[p].msg \notin unsendable
  /\ delivered' = [delivered EXCEPT ![hand[p].msg] = @ + 1]
  /\ step' = [step EXCEPT ![p] = "delivered"]
  /\ UNCHANGED <<queue, lock, batch, hand, connection, accidents>>

\* It raises an error of the network or of SMTP, both of which are OSErrors.
\* After a disconnection the connection is not None, and serves no more.
Refuse(p) ==
  /\ step[p] = "tried" /\ connection[p] # "closed"
  /\ step' = [step EXCEPT ![p] = "refused"]
  /\ connection' \in {connection, [connection EXCEPT ![p] = "broken"]}
  /\ UNCHANGED <<queue, lock, batch, hand, delivered, accidents>>

\* It raises another error: an address that is not ASCII in a sender...
SenderRaises(s) ==
  /\ step[s] = "tried" /\ connection[s] = "open"
  /\ hand[s].msg \in unsendable
  /\ Leaves(s)
  /\ UNCHANGED <<queue, delivered, accidents>>

\* ...and in a thread also None, as send_messages closes the connection.
ThreadRaises(c) ==
  /\ step[c] = "tried" /\ connection[c] # "closed"
  /\ Done(c)
  /\ UNCHANGED <<queue, lock, batch, delivered, accidents>>

\* A slip: the state is saved before the mail is sent.
SentEarly(p) ==
  /\ step[p] \in {"tried", "delivered"}
  /\ state' = [state EXCEPT ![hand[p].msg] = "SENT"]
  /\ Done(p)
  /\ UNCHANGED <<scene, unsendable, retries, due, lock, batch, delivered, accidents>>

Sent(p) ==
  /\ step[p] = "delivered"
  /\ state' = [state EXCEPT ![hand[p].msg] = "SENT"]
  /\ Done(p)
  /\ UNCHANGED <<scene, unsendable, retries, due, lock, batch, delivered, accidents>>

\* A slip: defer() compares with the delays as if there was one more.
DeferOnceMore(p) ==
  /\ step[p] = "refused"
  /\ state' = [state EXCEPT ![hand[p].msg] =
                 IF hand[p].retries > Tries THEN "FAILED" ELSE "DEFERRED"]
  /\ Done(p)
  /\ UNCHANGED <<scene, unsendable, retries, due, lock, batch, delivered, accidents>>

Defer(p) ==
  /\ step[p] = "refused"
  /\ state' = [state EXCEPT ![hand[p].msg] =
                 IF hand[p].retries >= Tries THEN "FAILED" ELSE "DEFERRED"]
  /\ Done(p)
  /\ UNCHANGED <<scene, unsendable, retries, due, lock, batch, delivered, accidents>>

-----------------------------------------------------------------------------
(* Time and accidents *)

\* The delay of a deferred message is over.
DelayPasses(m) ==
  /\ state[m] = "DEFERRED" /\ m \notin due
  /\ due' = due \cup {m}
  /\ UNCHANGED <<scene, unsendable, state, retries, lock, batch, mail, delivered, accidents>>

\* cleanup_messages, a week after: nobody works on the message any more.
Cleanup(m) ==
  /\ state[m] = "SENT"
  /\ \A p \in Processes : ~InHand(p, m)
  /\ \A s \in Senders : \A copy \in todo[s] : copy.msg # m
  /\ state' = [state EXCEPT ![m] = "deleted"]
  /\ UNCHANGED <<scene, unsendable, retries, due, lock, batch, mail, delivered, accidents>>

\* A process dies at work, and the file of its lock stays.
Crash(p) ==
  /\ crashes < MaxCrashes
  /\ crashes' = crashes + 1
  /\ step[p] # "none" \/ (p \in Senders /\ phase[p] # "idle")
  /\ cut' = IF step[p] = "delivered" THEN [cut EXCEPT ![hand[p].msg] = @ + 1] ELSE cut
  /\ left' = IF step[p] = "none" THEN left ELSE left \cup {hand[p].msg}
  /\ IF p \in Senders
     THEN /\ phase' = [phase EXCEPT ![p] = "idle"]
          /\ todo' = [todo EXCEPT ![p] = {}]
          /\ cur' = [cur EXCEPT ![p] = 0]
     ELSE UNCHANGED batch
  /\ hand' = [hand EXCEPT ![p] = None]
  /\ step' = [step EXCEPT ![p] = "none"]
  /\ connection' = [connection EXCEPT ![p] = "closed"]
  /\ UNCHANGED <<queue, lock, delivered, beside, overrun, doubled>>

SendMessage(p) == Open(p) \/ Deliver(p) \/ Refuse(p) \/ Sent(p) \/ Defer(p)

SendPending(s) ==
  Acquire(s) \/ Touch(s) \/ Pick(s) \/ Retry(s) \/ Release(s) \/ SenderRaises(s)

Next ==
  \/ \E m \in Messages : Enqueue(m) \/ DelayPasses(m) \/ Cleanup(m)
  \/ \E c \in Critical : SendAtOnce(c) \/ ThreadRaises(c)
  \/ \E s \in Senders : SendPending(s)
  \/ \E p \in Processes : SendMessage(p) \/ Crash(p)
  \/ LockExpires

\* Cron starts send_pending again and again, and processes go on; time passes.
\* Nothing is assumed of the server of mails.
Fairness ==
  /\ \A s \in Senders : WF_vars(SendPending(s))
  /\ \A p \in Processes : WF_vars(SendMessage(p))
  /\ \A m \in Messages : WF_vars(DelayPasses(m))
  /\ WF_vars(LockExpires)

Spec == Init /\ [][Next]_vars /\ Fairness

-----------------------------------------------------------------------------
(* Properties *)

\* The server of mails took a message that no two senders had as often as the
\* database says: once if it is SENT, and once more for every process that died
\* between the delivery and its record.
DeliveredOnce ==
  \A m \in Messages \ (Critical \cup doubled) :
    delivered[m] = cut[m] +
      (IF \/ state[m] \in {"SENT", "deleted"}
          \/ \E p \in Processes : step[p] = "delivered" /\ InHand(p, m)
       THEN 1 ELSE 0)

\* A critical message is in the queue while its thread sends it: send_pending may
\* send it too, but it does not go out a third time, whatever they overwrite of
\* each other, unless a process dies or two senders had it.
CriticalTwiceAtMost ==
  \A m \in Critical \ doubled : delivered[m] <= 2 + cut[m]

\* Senders deliver nothing the records do not account for.
DeliveriesRecorded == DeliveredOnce /\ CriticalTwiceAtMost

\* Two senders only have the same message, to send it twice and to save their
\* states of it over each other's, after the lock expired under one at work or two
\* looked at it before either touched it (LockFile).
DoubledByOverrun == doubled # {} => overrun

\* Once a message that no two senders had is recorded as SENT it stays so, though
\* send_message saves the state of whatever copy it has.
SentIsFinal ==
  [][\A m \in Messages \ (Critical \cup doubled) :
       state[m] = "SENT" => state'[m] \in {"SENT", "deleted"}]_vars

\* A deferred message that was retried as often as there are delays is of no
\* query: it would stay deferred for ever.
Stranded(m) ==
  /\ state[m] = "DEFERRED" /\ retries[m] >= Tries
  /\ \A p \in Processes : ~InHand(p, m)

\* Only the death of a process between the record of its last try and defer(), an
\* exception there, a thread that defers late what a sender gave up, or a second
\* sender strands a message.
StrandedByAccident ==
  \A m \in Messages : Stranded(m) => m \in left \cup Critical \cup unsendable \cup doubled

\* What is queued is sent or given up in the end, however often servers refuse
\* it, processes die and locks stay behind; unless a message whose address
\* cannot be encoded is queued, which ends all batches for those after it.
QueueDrains ==
  \A m \in Messages :
    state[m] = "QUEUED" ~> \/ state[m] \in {"SENT", "FAILED", "deleted"}
                           \/ Stranded(m)
                           \/ \E x \in unsendable : state[x] = "QUEUED"
=============================================================================
