---------------------------- MODULE TrafficMonitor -----------------------------
(***************************************************************************)
(* How traffic is counted: a monitor reads, in logs that rotate, the lines *)
(* between the last data of an object and now, and stores their sum; sums  *)
(* of months make the use of a resource, and old data is aggregated.       *)
(*                                                                         *)
(* A line of the log is worth 1.  Time is in the ticks of the logs.        *)
(* Monitorings run one at a time under a lock, but for those somebody asks *)
(* for an object, which go without.                                        *)
(***************************************************************************)
EXTENDS Integers, FiniteSets, Sequences, FiniteSetsExt

CONSTANTS
  Objects,
  Monitorings,  \* runs of the task monitor, one after another in each
  Asked,        \* those that were asked for one object: unlocked
  MaxTime,
  Day,          \* ticks of what is read when there is no data yet
  Month,        \* ticks of a month
  Old,          \* RESOURCES_OLD_MONITOR_DATA_DAYS
  MaxRows,      \* of data of an object, when a monitoring begins, deleted ones included
  None

VARIABLES
  now,
  logs,     \* logs[i][o]: times of lines about o in the log (1) and its rotation (2)
  data,     \* data[o]: the rows of MonitorData of o by id, those that were deleted too
  lock,     \* who took the lock that is there, or None
  phase,    \* phase[m]
  window,   \* window[m]: the current_date and the last dates a monitoring began with
  output,   \* output[m]: the lines its script printed and that are not stored yet
  counted,  \* history: counted[o][t]: how often the line of o at t was counted
  edges,    \* history: edges[o]: dates windows of o began or ended with
  moved,    \* history: moved[o]: lines rotated between the two logs were read
  overlaps  \* history: objects two monitorings were at work on

vars == <<now, logs, data, lock, phase, window, output, counted, edges, moved, overlaps>>
time == <<now, logs, moved>>
history == <<counted, edges, overlaps>>

Times == 0 .. MaxTime
Rows == [created_at : Times, value : Nat, there : BOOLEAN]

\* What is left of a row that was deleted is its id.
Deleted == [created_at |-> 0, value |-> 0, there |-> FALSE]

\* What a monitoring began with, the lines its script found, and found again in the
\* other log.
Dates == [end : Times, ini : UNION {[S -> -Day .. MaxTime] : S \in SUBSET Objects}]
Found == [end : Times, ini : UNION {[S -> -Day .. MaxTime] : S \in SUBSET Objects},
          value : UNION {[S -> SUBSET Times] : S \in SUBSET Objects},
          again : UNION {[S -> SUBSET Times] : S \in SUBSET Objects}]

Assumption ==
  /\ MaxTime \in Nat /\ Day \in Nat
  /\ None \notin Dates \cup Found \cup Monitorings

TypeOK ==
  /\ now \in Times
  /\ logs \in [{1, 2} -> [Objects -> SUBSET Times]]
  /\ data \in [Objects -> Seq(Rows)]
  /\ lock \in Monitorings \cup {None}
  /\ phase \in [Monitorings -> {"idle", "generated", "reads", "stores", "updates"}]
  /\ window \in [Monitorings -> Dates \cup Found \cup {None}]
  /\ output \in [Monitorings -> SUBSET Objects]
  /\ counted \in [Objects -> [Times -> Nat]]
  /\ edges \in [Objects -> SUBSET (-Day .. MaxTime)]
  /\ moved \in [Objects -> SUBSET Times]
  /\ overlaps \subseteq Objects

Init ==
  /\ now = 0
  /\ logs = [i \in {1, 2} |-> [o \in Objects |-> {}]]
  /\ data = [o \in Objects |-> << >>]
  /\ lock = None
  /\ phase = [m \in Monitorings |-> "idle"]
  /\ window = [m \in Monitorings |-> None]
  /\ output = [m \in Monitorings |-> {}]
  /\ counted = [o \in Objects |-> [t \in Times |-> 0]]
  /\ edges = [o \in Objects |-> {}]
  /\ moved = [o \in Objects |-> {}]
  /\ overlaps = {}

MonthOf(t) == t \div Month

Present(rows) == {i \in DOMAIN rows : rows[i].there}

Sum(rows, some) == MapThenSumSet(LAMBDA i : rows[i].value, some)

\* MonthlySum
Usage(rows, month) == Sum(rows, {i \in Present(rows) : MonthOf(rows[i].created_at) = month})

-----------------------------------------------------------------------------
(* The world *)

\* Traffic, and the passing of time.
Tick ==
  /\ now < MaxTime
  /\ now' = now + 1
  /\ \E who \in SUBSET Objects :
       logs' = [logs EXCEPT ![1] = [o \in Objects |-> @[o] \cup {t \in {now} : o \in who}]]
  /\ UNCHANGED <<data, lock, phase, window, output, moved, history>>

\* A script has read the log, and not its rotation yet.
IsReading(m, o) == phase[m] = "reads" /\ o \in DOMAIN window[m].ini

\* logrotate
Rotate ==
  /\ logs[1] # [o \in Objects |-> {}]
  /\ logs' = [i \in {1, 2} |-> IF i = 1 THEN [o \in Objects |-> {}] ELSE logs[1]]
  /\ moved' = [o \in Objects |->
       IF \E m \in Monitorings : IsReading(m, o) THEN moved[o] \cup logs[1][o] ELSE moved[o]]
  /\ UNCHANGED <<now, data, lock, phase, window, output, history>>

-----------------------------------------------------------------------------
(* The task monitor *)

\* A slip: the window begins a day ago, whatever was stored.
DayBefore(o) == now - Day

\* The latest row is the one of the last id.
latest(rows) == rows[Max(Present(rows))]

get_last_date(o) == IF Present(data[o]) = {} THEN now - Day ELSE latest(data[o]).created_at

\* The script is generated: the dates are those of now.
Generates(m, who) ==
  /\ phase[m] = "idle" /\ \A o \in who : Len(data[o]) < MaxRows
  /\ window' = [window EXCEPT ![m] = [end |-> now, ini |-> [o \in who |-> get_last_date(o)]]]
  /\ phase' = [phase EXCEPT ![m] = "generated"]
  /\ overlaps' = overlaps \cup {o \in who :
       \E n \in Monitorings \ {m} : window[n] # None /\ o \in DOMAIN window[n].ini}
  /\ UNCHANGED <<time, data, output, counted, edges>>

\* The periodic task, under its lock.
Monitor(m) ==
  /\ m \notin Asked
  /\ lock = None
  /\ Generates(m, Objects)
  /\ lock' = m

\* Somebody asks for one object.
MonitorObject(m) ==
  /\ m \in Asked
  /\ \E o \in Objects : Generates(m, {o})
  /\ UNCHANGED lock

\* The lock expires after an hour.
LockExpires ==
  /\ lock # None
  /\ lock' = None
  /\ UNCHANGED <<time, data, phase, window, output, history>>

Inside(t, o, w) == w.ini[o] < t /\ t < w.end

\* The script opens the log.
Reads(m) ==
  /\ phase[m] = "generated"
  /\ LET w == window[m]
         who == DOMAIN w.ini IN
     window' = [window EXCEPT ![m] = [end |-> w.end, ini |-> w.ini,
       value |-> [o \in who |-> {t \in logs[1][o] : Inside(t, o, w)}],
       again |-> [o \in who |-> {}]]]
  /\ phase' = [phase EXCEPT ![m] = "reads"]
  /\ UNCHANGED <<time, data, lock, output, history>>

\* Then its rotation, which has lines that were read if it was rotated meanwhile.
Execute(m) ==
  /\ phase[m] = "reads"
  /\ LET w == window[m]
         who == DOMAIN w.ini
         rotated == [o \in who |-> {t \in logs[2][o] : Inside(t, o, w)}] IN
     /\ output' = [output EXCEPT ![m] = who]
     /\ window' = [window EXCEPT ![m] = [end |-> w.end, ini |-> w.ini,
          value |-> [o \in who |-> w.value[o] \cup rotated[o]],
          again |-> [o \in who |-> w.value[o] \cap rotated[o]]]]
  /\ phase' = [phase EXCEPT ![m] = "stores"]
  /\ UNCHANGED <<time, data, lock, history>>

\* The script fails, and nothing is stored.
ScriptFails(m) ==
  /\ phase[m] \in {"generated", "reads"}
  /\ phase' = [phase EXCEPT ![m] = "updates"]
  /\ UNCHANGED <<time, data, lock, window, output, history>>

\* store(): a row for each line of output, each on its own.
Store(m) ==
  /\ phase[m] = "stores"
  /\ \E o \in output[m] :
       LET w == window[m]
           lines == w.value[o]
           again == w.again[o] IN
       /\ output' = [output EXCEPT ![m] = @ \ {o}]
       /\ data' = [data EXCEPT ![o] = Append(@,
            [created_at |-> w.end, value |-> Cardinality(lines) + Cardinality(again),
             there |-> TRUE])]
       /\ counted' = [counted EXCEPT ![o] = [t \in Times |->
            @[t] + (IF t \in lines THEN 1 ELSE 0) + (IF t \in again THEN 1 ELSE 0)]]
       /\ edges' = [edges EXCEPT ![o] = @ \cup {w.ini[o], w.end}]
  /\ UNCHANGED <<time, lock, phase, window, overlaps>>

\* A line of output cannot be stored: those that follow are not.
StoreRaises(m) ==
  /\ phase[m] = "stores" /\ output[m] # {}
  /\ output' = [output EXCEPT ![m] = {}]
  /\ UNCHANGED <<time, data, lock, phase, window, history>>

\* ResourceData.update takes the Usage of the month and release() the lock, whoever
\* took it.
Update(m) ==
  /\ phase[m] = "updates" \/ (phase[m] = "stores" /\ output[m] = {})
  /\ window' = [window EXCEPT ![m] = None]
  /\ phase' = [phase EXCEPT ![m] = "idle"]
  /\ lock' = IF m \in Asked THEN lock ELSE None
  /\ UNCHANGED <<time, data, output, history>>

\* The process of the task dies, and its lock stays.
Crash(m) ==
  /\ phase[m] # "idle"
  /\ window' = [window EXCEPT ![m] = None]
  /\ output' = [output EXCEPT ![m] = {}]
  /\ phase' = [phase EXCEPT ![m] = "idle"]
  /\ UNCHANGED <<time, data, lock, history>>

-----------------------------------------------------------------------------
(* The task cleanup_old_monitors *)

IsOld(row) == row.created_at < now - Old

\* order_by('created_at')
Follows(rows, j, i) ==
  \/ rows[j].created_at > rows[i].created_at
  \/ rows[j].created_at = rows[i].created_at /\ j > i

\* A slip: the row that is kept is left out of the sum.
AggregateOthers(rows, some, i) ==
  IF \E j \in some : Follows(rows, j, i) THEN Deleted
  ELSE [created_at |-> rows[i].created_at, value |-> Sum(rows, some \ {i}), there |-> TRUE]

\* The rows of a month become the last of them, with their sum.
Aggregate(rows, some, i) ==
  IF \E j \in some : Follows(rows, j, i) THEN Deleted
  ELSE [created_at |-> rows[i].created_at, value |-> Sum(rows, some), there |-> TRUE]

\* The old rows of an object, and those of them in the month of the row i.
OldRows(o) == {i \in Present(data[o]) : IsOld(data[o][i])}
OldOfMonth(o, i) ==
  {j \in OldRows(o) : MonthOf(data[o][j].created_at) = MonthOf(data[o][i].created_at)}

\* monthly_sum_old_values: each month of each object but the last of all, whose
\* turn never comes.
IsSummed(o, i, last) ==
  /\ i \in OldRows(o)
  /\ \/ o # last
     \/ \E j \in OldRows(o) : MonthOf(data[o][j].created_at) > MonthOf(data[o][i].created_at)

Cleanup ==
  /\ \E last \in {o \in Objects : OldRows(o) # {}} :
       data' = [o \in Objects |-> [i \in DOMAIN data[o] |->
         IF IsSummed(o, i, last) THEN Aggregate(data[o], OldOfMonth(o, i), i) ELSE data[o][i]]]
  /\ data' # data
  /\ UNCHANGED <<time, lock, phase, window, output, history>>

Next ==
  \/ Tick \/ Rotate \/ LockExpires \/ Cleanup
  \/ \E m \in Monitorings :
       \/ Monitor(m) \/ MonitorObject(m) \/ Reads(m) \/ Execute(m) \/ ScriptFails(m)
       \/ Store(m) \/ StoreRaises(m) \/ Update(m) \/ Crash(m)

Spec == Init /\ [][Next]_vars

-----------------------------------------------------------------------------
(* Properties *)

\* No line is counted twice, however monitorings fail and are retried, locks expire and
\* data is aggregated; but for those that were rotated between the two logs were read,
\* and those of an object two monitorings were at work on at once: what was asked for has
\* no lock, and the lock of the others expires.
CountedOnce ==
  \A o \in Objects \ overlaps : \A t \in Times :
    counted[o][t] <= IF t \in moved[o] THEN 2 ELSE 1

\* What is behind the last data of an object has been counted, unless it is at the
\* edge of a window, of which the lines of neither side are counted; or was rotated
\* away twice; or is older than the first window.
NothingForgotten ==
  \A o \in Objects \ overlaps : Present(data[o]) # {} =>
    \A t \in logs[1][o] \cup logs[2][o] :
      t < latest(data[o]).created_at /\ (\A e \in edges[o] : e # t) /\ (\E e \in edges[o] : e < t)
        => counted[o][t] >= 1

\* The use of a month is what was counted in it: aggregation of old data, which
\* deletes rows and changes others, changes no sum.
SumsAreKept ==
  [][\A o \in Objects, month \in 0 .. MonthOf(MaxTime) :
       LET before == Usage(data[o], month) IN
       \/ Usage(data'[o], month) = before
       \/ counted' # counted /\ Usage(data'[o], month) > before]_vars
=============================================================================
