------------------------------ MODULE WebServer -------------------------------
(***************************************************************************)
(* The scripts that configure Apache, of three backends, and how they      *)
(* agree on who reloads it: each writes its line in reload.apache2 when it *)
(* starts; when it ends it takes the file away, which is the lock, and     *)
(* reloads if nobody else is at work, or leaves a mark for them to.        *)
(*                                                                         *)
(* A step is a command that touches the two files, the configuration or    *)
(* Apache.  A file is the set of its lines, or None: who wrote a line is    *)
(* kept, though it says no more than the backend, and the order is not.     *)
(***************************************************************************)
EXTENDS Naturals, FiniteSets

CONSTANTS
  Scripts,    \* the scripts that are executed, each once
  BackendOf,  \* the backend of each
  Contents,   \* what a file of configuration may hold
  MaxTries,   \* five in the code: sleeps for the lock before giving up
  MaxDeaths,  \* scripts that end before their last command
  None

Backends == {"Apache2Controller", "PHPController", "Apache2ControllerAnubis"}

VARIABLES
  file,     \* /dev/shm/reload.apache2
  locked,   \* /dev/shm/reload.apache2.locked
  pc,       \* pc[s]: the command script s is at
  updated,  \* scripts with UPDATED_APACHE=1
  tries,    \* tries[s]: its counter
  others,   \* others[s]: its variable state, the lines of others
  disk,     \* disk[b]: what Apache would read of the files of backend b
  loaded,   \* loaded[b]: what it read
  accidents \* history: what went wrong with the files or the scripts

files == <<file, locked>>
script == <<updated, tries, others>>
vars == <<file, locked, pc, updated, tries, others, disk, loaded, accidents>>

\* Each script writes one line when it starts, and a mark when it leaves the rest to others.
Line(s, reload) == [script |-> s, reload |-> reload]
Lines == [script : Scripts, reload : BOOLEAN]

Assumption ==
  /\ MaxTries \in Nat /\ \A lines \in SUBSET Lines : lines # None
  /\ None \notin Contents /\ BackendOf \in [Scripts -> Backends]

TypeOK ==
  /\ file \in {None} \cup SUBSET Lines /\ locked \in {None} \cup SUBSET Lines
  /\ pc \in [Scripts -> {"new", "prepared", "saved", "took", "last", "reloaded", "shared",
                         "written", "marked", "ended", "deadlocked", "failed", "dead"}]
  /\ updated \subseteq Scripts
  /\ tries \in [Scripts -> 0 .. MaxTries]
  /\ others \in [Scripts -> SUBSET Lines]
  /\ disk \in [Backends -> Contents \cup {None}]
  /\ loaded \in [Backends -> Contents \cup {None}]
  /\ accidents \subseteq {"overwritten", "twin", "mark", "slow", "options", "death"}

Init ==
  /\ file = None /\ locked = None
  /\ pc = [s \in Scripts |-> "new"]
  /\ updated = {}
  /\ tries = [s \in Scripts |-> 0]
  /\ others = [s \in Scripts |-> {}]
  /\ disk \in [Backends -> Contents \cup {None}] /\ loaded = disk
  /\ accidents = {}

Goes(s, place) == pc' = [pc EXCEPT ![s] = place]

Fails(s, place, accident) ==
  /\ Goes(s, place)
  /\ accidents' = accidents \cup accident

\* echo ... >> file
Echo(f, line) == IF f = None THEN {line} ELSE f \cup {line}

\* What mv does to what was there.
Overwrites(f) == IF f = None THEN {} ELSE {"overwritten"}

-----------------------------------------------------------------------------
(* The configuration *)

\* prepare(): the script is at work for others to know.
Prepare(s) ==
  /\ pc[s] = "new"
  /\ file' = Echo(file, Line(s, FALSE))
  /\ Goes(s, "prepared")
  /\ UNCHANGED <<locked, script, disk, loaded, accidents>>

Writes(s, content) ==
  /\ pc[s] = "prepared"
  /\ disk' = [disk EXCEPT ![BackendOf[s]] = content]
  /\ Goes(s, "saved")
  /\ UNCHANGED <<files, tries, others, loaded>>

Differs(s, content) == disk[BackendOf[s]] # content

\* A site is written and enabled: diff and a2ensite tell whether that changes anything.
SaveSite(s) ==
  /\ BackendOf[s] = "Apache2Controller"
  /\ \E content \in Contents :
       /\ Writes(s, content)
       /\ updated' = updated \cup {t \in {s} : Differs(s, content)}
  /\ UNCHANGED accidents

\* It is disabled, and removed.
DeleteSite(s) ==
  /\ BackendOf[s] = "Apache2Controller"
  /\ Writes(s, None)
  /\ updated' = updated \cup {t \in {s} : Differs(s, None)}
  /\ UNCHANGED accidents

\* The local site behind Anubis, and the redirection to it.
SaveFirewalled(s) ==
  /\ BackendOf[s] = "Apache2ControllerAnubis"
  /\ \E content \in Contents \cup {None} :
       /\ Writes(s, content)
       /\ updated' = updated \cup {t \in {s} : Differs(s, content)}
  /\ UNCHANGED accidents

\* The options of FCGID of a mounted application.  When there are none left, rm
\* removes the file and nobody is told.
SaveOptions(s) ==
  /\ BackendOf[s] = "PHPController"
  /\ \E content \in Contents \cup {None} :
       /\ Writes(s, content)
       /\ updated' = updated \cup {t \in {s} : content # None /\ Differs(s, content)}
       /\ accidents' = IF content = None /\ Differs(s, None)
                       THEN accidents \cup {"options"} ELSE accidents

-----------------------------------------------------------------------------
(* coordinate_apache_reload *)

\* mv file file.locked
Take(s) ==
  /\ pc[s] = "saved"
  /\ file # None
  /\ locked' = file
  /\ file' = None
  /\ Goes(s, "took")
  /\ accidents' = accidents \cup Overwrites(locked)
  /\ UNCHANGED <<script, disk, loaded>>

Wait(s) ==
  /\ pc[s] = "saved"
  /\ file = None
  /\ tries[s] < MaxTries
  /\ tries' = [tries EXCEPT ![s] = @ + 1]
  /\ UNCHANGED <<files, pc, updated, others, disk, loaded, accidents>>

\* exit 10.  That somebody has the file for so long is no fault of the lines.
GiveUp(s) ==
  /\ pc[s] = "saved"
  /\ file = None
  /\ tries[s] = MaxTries
  /\ Fails(s, "deadlocked", IF locked = None THEN {} ELSE {"slow"})
  /\ UNCHANGED <<files, script, disk, loaded>>

\* grep finds the lines of the backend of a script, whoever wrote them.
Own(s) == {l \in locked : BackendOf[l.script] = BackendOf[s]}
NotOwn(s) == IF locked = None THEN {} ELSE locked \ Own(s)

\* A slip: those that left a mark count as at work.
LookForAny(s) ==
  /\ pc[s] = "took"
  /\ others' = [others EXCEPT ![s] = NotOwn(s)]
  /\ Goes(s, IF NotOwn(s) = {} THEN "last" ELSE "shared")
  /\ UNCHANGED <<files, updated, tries, disk, loaded, accidents>>

\* The lines of other backends, and whether all of them are marks: grep drops
\* all lines of this backend, those of a twin at work and the mark of an earlier
\* script among them.
Look(s) ==
  /\ pc[s] = "took"
  /\ others' = [others EXCEPT ![s] = NotOwn(s)]
  /\ Goes(s, IF \A l \in NotOwn(s) : l.reload THEN "last" ELSE "shared")
  /\ accidents' = accidents
       \cup {a \in {"twin"} : locked # None /\ \E l \in Own(s) : ~l.reload /\ l.script # s}
       \cup {a \in {"mark"} : locked # None /\ s \notin updated /\ \E l \in Own(s) : l.reload}
  /\ UNCHANGED <<files, updated, tries, disk, loaded>>

\* The last one reloads if it, or the last line, asks for it: a mark, as all lines of
\* others are then.
Reload(s) ==
  /\ pc[s] = "last"
  /\ loaded' = IF s \in updated \/ \E l \in others[s] : l.reload THEN disk ELSE loaded
  /\ Goes(s, "reloaded")
  /\ UNCHANGED <<files, script, disk, accidents>>

\* rm file.locked, with set -e
Unlock(s) ==
  /\ pc[s] = "reloaded"
  /\ locked' = None
  /\ Goes(s, IF locked = None THEN "failed" ELSE "ended")
  /\ UNCHANGED <<file, script, disk, loaded, accidents>>

\* Others are at work: their lines are written back...
WriteBack(s) ==
  /\ pc[s] = "shared"
  /\ locked' = others[s]
  /\ Goes(s, "written")
  /\ UNCHANGED <<file, script, disk, loaded, accidents>>

\* ...with a mark, if Apache has to be reloaded...
Mark(s) ==
  /\ pc[s] = "written"
  /\ locked' = IF s \in updated THEN Echo(locked, Line(s, TRUE)) ELSE locked
  /\ Goes(s, "marked")
  /\ UNCHANGED <<file, script, disk, loaded, accidents>>

\* ...and the file is put back.
PutBack(s) ==
  /\ pc[s] = "marked"
  /\ IF locked = None
     THEN Fails(s, "failed", {}) /\ UNCHANGED files
     ELSE /\ file' = locked /\ locked' = None
          /\ Fails(s, "ended", Overwrites(file))
  /\ UNCHANGED <<script, disk, loaded>>

\* Another command of the script fails, or its connection is lost.
Dies(s) ==
  /\ Cardinality({t \in Scripts : pc[t] = "dead"}) < MaxDeaths
  /\ pc[s] \in {"prepared", "saved"}
  /\ Fails(s, "dead", {"death"})
  /\ UNCHANGED <<files, script, disk, loaded>>

Commit(s) ==
  \/ Take(s) \/ Wait(s) \/ GiveUp(s) \/ Look(s) \/ Reload(s) \/ Unlock(s)
  \/ WriteBack(s) \/ Mark(s) \/ PutBack(s)

Next ==
  \E s \in Scripts :
    \/ Prepare(s) \/ Commit(s) \/ Dies(s)
    \/ SaveSite(s) \/ DeleteSite(s) \/ SaveFirewalled(s) \/ SaveOptions(s)

Spec == Init /\ [][Next]_vars

-----------------------------------------------------------------------------
(* Properties *)

AtWork(s) == pc[s] \notin {"new", "ended", "deadlocked", "failed", "dead"}

\* Once no script is at work Apache serves what is configured, whoever changed it
\* and whoever was left to reload it.  Six things undo it: a script that dies, or
\* takes its time with the file; the removal of options; and what the lines
\* cannot tell: a twin at work, the mark of an earlier script of the backend, and
\* a file that is written while another is put in its place.
ServedAsConfigured ==
  (\A s \in Scripts : ~AtWork(s)) => loaded = disk \/ accidents # {}
=============================================================================
