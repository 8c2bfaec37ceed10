------------------------------ MODULE Logging ------------------------------
(***************************************************************************)
(* The log of the agent: its level, which administrators override for good *)
(* or for a while, and its file, which the log rotation renames.  A reload *)
(* and a rotation both create the logger anew, without a lock.             *)
(***************************************************************************)
EXTENDS Naturals, FiniteSets

CONSTANTS
    Levels,
    FirstLevel,  \* the level of the first configuration
    None

\* A handle is its number and the file it was opened for.
Handle == [n : Nat, ino : Nat]

ASSUME LoggingAssumption ==
    FirstLevel \in Levels /\ None \notin Levels /\ None \notin Nat /\ None \notin Handle

VARIABLES
    conf,      \* the level of the configuration in use
    level,     \* restoreLevel
    timers,    \* restores that are scheduled, or have fired and wait for the mutex
    timer,     \* logLevelTimer: the number of one of them, or None
    final,     \* the level Finalize is about to set again, or None
    file,      \* the file that has the name of the log file, or None
    handle,    \* LogFileHandle
    output,    \* the handle the lines are written to
    closed,    \* handles that were closed
    maker,     \* what the rotation and the reload are about to do
    count,     \* numbers handles, files and timers
    want,      \* the level that was last set for good
    odd,       \* the level may stay wrong, for a reason named below
    broken     \* the file may stay wrong, for a reason named below
levelVars == <<level, timers, timer, final, want, odd>>
fileVars == <<file, handle, output, closed, broken>>
logVars == <<conf, levelVars, fileVars, maker, count>>

Makers == {"rotate", "reload"}
Idle == [pc |-> "idle", conf |-> None, h |-> None]

Opened == [n |-> count + 1, ino |-> IF file = None THEN count + 1 ELSE file]

LogInit ==
    /\ conf = FirstLevel /\ level = conf /\ want = conf
    /\ timers = {} /\ timer = None /\ final = None
    /\ file = 1 /\ handle = [n |-> 1, ino |-> 1] /\ output = handle /\ closed = {}
    /\ maker = [m \in Makers |-> Idle]
    /\ count = 1
    /\ odd = FALSE /\ broken = FALSE

----------------------------------------------------------------------------
(* The level.                                                              *)

\* A plausible slip: the restore of the override before stays scheduled.
Scheduled == timers
\* The timers that are left when the current one is stopped, which is too
\* late for one that has fired.
StopTimer == {t \in timers : t.n # timer \/ t.fired}

\* A restore that waits for the mutex, or that a late one has made the agent
\* forget.
Late == \E t \in timers : t.fired \/ t.n # timer

\* SetLogLevelOverride without a duration.
OverrideForGood(l) ==
    /\ level' = l /\ want' = l
    /\ timers' = StopTimer /\ timer' = None
    /\ odd' = (Late \/ final # None)
    /\ UNCHANGED <<conf, final, fileVars, maker, count>>

\* With a duration: the level before is the one to restore.  That is a
\* temporary one if another override has not ended yet.
OverrideForAWhile(l) ==
    /\ level' = l
    /\ timers' = StopTimer \union {[n |-> count + 1, to |-> level, fired |-> FALSE]}
    /\ timer' = count + 1 /\ count' = count + 1
    /\ odd' = (odd \/ level # want \/ Late \/ final # None)
    /\ UNCHANGED <<conf, final, want, fileVars, maker>>

\* The timer starts a function, which has to wait for the mutex.
Fire ==
    /\ \E t \in timers :
         ~t.fired /\ timers' = (timers \ {t}) \union {[t EXCEPT !.fired = TRUE]}
    /\ UNCHANGED <<conf, level, timer, final, want, odd, fileVars, maker, count>>

Restore ==
    /\ \E t \in timers : t.fired /\ level' = t.to /\ timers' = timers \ {t}
    /\ timer' = None
    /\ odd' = (odd \/ final # None)
    /\ UNCHANGED <<conf, final, want, fileVars, maker, count>>

\* Finalize of every check sets the level again that it reads, without the
\* mutex.
FinalizeReads ==
    /\ final = None /\ final' = level
    /\ UNCHANGED <<conf, level, timers, timer, want, odd, fileVars, maker, count>>

FinalizeWrites ==
    /\ final # None /\ level' = final /\ final' = None
    /\ UNCHANGED <<conf, timers, timer, want, odd, fileVars, maker, count>>

----------------------------------------------------------------------------
(* createLogger, for the rotation and the reload.                          *)

Goes(m, pc) == maker' = [maker EXCEPT ![m].pc = pc]
\* The reload goes on with the modules.
Ends(m) == maker' = [maker EXCEPT ![m] =
    IF m = "reload" THEN [Idle EXCEPT !.pc = "modules", !.conf = maker[m].conf] ELSE Idle]

\* applyLogLevel and the start of setLogFile.  A restore stays scheduled.
SetLevel(m) ==
    /\ maker[m].pc = "level"
    /\ LET l == IF m = "reload" THEN maker[m].conf ELSE conf
       IN /\ level' = l /\ want' = l
          /\ odd' = (final # None \/ \E t \in timers : t.to # l)
    /\ handle' = None
    /\ Goes(m, "open")
    /\ UNCHANGED <<conf, timers, timer, final, file, output, closed, broken, count>>

Open(m) ==
    /\ maker[m].pc = "open"
    /\ file' = Opened.ino
    /\ count' = count + 1
    /\ maker' = [maker EXCEPT ![m].pc = "assign", ![m].h = Opened]
    /\ UNCHANGED <<conf, levelVars, handle, output, closed, broken>>

\* A file that cannot be opened leaves the output as it is.
OpenFails(m) ==
    /\ maker[m].pc = "open"
    /\ broken' = TRUE
    /\ Ends(m)
    /\ UNCHANGED <<conf, levelVars, file, handle, output, closed, count>>

Assign(m) ==
    /\ maker[m].pc = "assign"
    /\ handle' = maker[m].h /\ output' = maker[m].h
    /\ Ends(m)
    /\ UNCHANGED <<conf, levelVars, file, closed, broken, count>>

----------------------------------------------------------------------------
(* The rotation.  How large the file is, is left open.                     *)

RotateBegins ==
    /\ maker["rotate"].pc = "idle"
    /\ handle # None /\ file # None
    /\ Goes("rotate", "close")
    /\ broken' = (broken \/ maker["reload"].pc \notin {"idle", "modules"})
    /\ UNCHANGED <<conf, levelVars, file, handle, output, closed, count>>

\* A handle that is closed already ends the rotation.
CloseHandle ==
    /\ maker["rotate"].pc = "close"
    /\ IF handle \in closed THEN Ends("rotate") ELSE Goes("rotate", "rename")
    /\ closed' = IF handle = None THEN closed ELSE {handle} \union (closed \intersect {output})
    /\ UNCHANGED <<conf, levelVars, file, handle, output, broken, count>>

\* A plausible slip: the logger is not created anew.
RenameOnly ==
    /\ maker["rotate"].pc = "rename" /\ file # None
    /\ file' = None
    /\ Ends("rotate")
    /\ UNCHANGED <<conf, levelVars, handle, output, closed, broken, count>>

Rename ==
    /\ maker["rotate"].pc = "rename" /\ file # None
    /\ file' = None
    /\ Goes("rotate", "level")
    /\ UNCHANGED <<conf, levelVars, handle, output, closed, broken, count>>

\* The closed handle stays in use.
RenameFails ==
    /\ maker["rotate"].pc = "rename"
    /\ broken' = TRUE
    /\ Ends("rotate")
    /\ UNCHANGED <<conf, levelVars, file, handle, output, closed, count>>

----------------------------------------------------------------------------
(* The reload, which repairs what is broken unless a rotation overlaps, and *)
(* the start of a new process.                                             *)

LogReloads ==
    /\ maker["reload"].pc = "idle"
    /\ \E c \in Levels :
         maker' = [maker EXCEPT !["reload"] = [Idle EXCEPT !.pc = "level", !.conf = c]]
    /\ broken' = (maker["rotate"].pc # "idle")
    /\ UNCHANGED <<conf, levelVars, file, handle, output, closed, count>>

LogReloaded ==
    /\ conf' = maker["reload"].conf
    /\ maker' = [maker EXCEPT !["reload"] = Idle]
    /\ UNCHANGED <<levelVars, fileVars, count>>

LogRestarts ==
    /\ level' = conf /\ want' = conf
    /\ timers' = {} /\ timer' = None /\ final' = None
    /\ file' = Opened.ino /\ handle' = Opened /\ output' = Opened /\ closed' = {}
    /\ maker' = [m \in Makers |-> Idle]
    /\ count' = count + 1
    /\ odd' = FALSE /\ broken' = FALSE
    /\ UNCHANGED conf

LogEvent ==
    \/ \E l \in Levels : OverrideForGood(l) \/ OverrideForAWhile(l)
    \/ FinalizeReads \/ RotateBegins
    \/ \E m \in Makers : OpenFails(m)
    \/ RenameFails
LogStep ==
    \/ Fire \/ Restore \/ FinalizeWrites
    \/ \E m \in Makers : SetLevel(m) \/ Open(m) \/ Assign(m)
    \/ CloseHandle \/ Rename

----------------------------------------------------------------------------
LogTypeOK ==
    /\ conf \in Levels /\ level \in Levels /\ want \in Levels
    /\ timers \subseteq [n : Nat, to : Levels, fired : BOOLEAN] /\ timer \in Nat \union {None}
    /\ final \in Levels \union {None}
    /\ file \in Nat \union {None} /\ handle \in Handle \union {None}
    /\ output \in Handle /\ closed \subseteq Handle
    /\ maker \in [Makers -> [pc : {"idle", "close", "rename", "level", "open", "assign", "modules"},
                             conf : Levels \union {None}, h : Handle \union {None}]]
    /\ maker["rotate"].pc # "modules" /\ maker["reload"].pc \notin {"close", "rename"}
    /\ maker["reload"].pc # "idle" => maker["reload"].conf \in Levels
    /\ \A m \in Makers : maker[m].pc = "assign" => maker[m].h \in Handle
    /\ count \in Nat /\ odd \in BOOLEAN /\ broken \in BOOLEAN

(* A level that was set for a while ends with the level that was set for    *)
(* good, by an override or by the configuration, and a level set for good   *)
(* stays (SetLogLevelOverride, logger.go 113-144).  Left out are the cases  *)
(* where the code restores something else: a second override for a while    *)
(* before the first has ended, or while its restore waits for the mutex; a  *)
(* logger created while a restore to another level is scheduled; a check    *)
(* that ends meanwhile and sets the level it has read before.               *)
TimedLevelEnds == <>[](odd \/ level = want)

(* With no rotation and no reload under way the lines go to the open file   *)
(* that has the name of the log file, and the rotation has its handle       *)
(* (rotate, task_logrotate.go 115-141; setLogFile, logger.go 182-250).      *)
(* After a file that could not be renamed or opened, or a rotation and a    *)
(* reload at the same time, this takes the next reload.                     *)
LogsIntoFile ==
    maker["rotate"].pc = "idle" /\ maker["reload"].pc \in {"idle", "modules"} =>
        broken \/ ( /\ output = handle /\ handle # None
                    /\ output.ino = file /\ output \notin closed )
=============================================================================
