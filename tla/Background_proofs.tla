------------------------- MODULE Background_proofs -------------------------
(***************************************************************************)
(* For all levels, generations and bounds: outside a rotation and a reload *)
(* the lines go to the log file, a level set for a while is gone with its  *)
(* timer, and the loops of older exporter generations run down.            *)
(***************************************************************************)
EXTENDS Background, FiniteSetTheorems, TLAPS

Rotation == maker["rotate"].pc
Reloading == maker["reload"].pc \in {"level", "open", "assign"}

\* Numbers are given out once.
Numbered ==
    /\ output.n <= count
    /\ handle # None => handle.n <= count
    /\ \A h \in closed : h.n <= count
    /\ \A m \in Makers : maker[m].pc = "assign" => maker[m].h.n <= count

\* The log as it should be.
InUse == output = handle /\ handle # None /\ output.ino = file
\* A logger is created by one of the two at a time, and each step of it
\* leaves what the next one needs.
Orderly ==
    /\ Rotation = "idle" \/ ~Reloading
    /\ Rotation \in {"idle", "close"} /\ ~Reloading => InUse /\ output \notin closed
    /\ \A m \in Makers : maker[m].pc = "assign" => maker[m].h.ino = file /\ maker[m].h \notin closed
FileInv == Numbered /\ (broken \/ Orderly)

\* What is scheduled and what a check will set again is what is wanted, or
\* what is there.
LevelInv == odd \/ ( /\ \A t \in timers : t.to = want
                     /\ final # None => final = level
                     /\ timers = {} => level = want )

\* The loop of a module that was stopped is told so before the next starts.
KeepInv ==
    /\ \A g \in Generations : loop[g].keep => g = gen
    /\ killer["stop"].pc # "idle" => ~loop[gen].keep
\* Finitely many processes run and have been found by anyone.
FiniteProcs == IsFiniteSet(procs) /\ \A g \in Generations : IsFiniteSet(loop[g].found)
IInv == TypeOK /\ FileInv /\ LevelInv /\ KeepInv /\ FiniteProcs

----------------------------------------------------------------------------
(* Types of the log.                                                        *)

Pcs == {"idle", "close", "rename", "level", "open", "assign", "modules"}
MakerType == [pc : Pcs, conf : Levels \union {None}, h : Handle \union {None}]
TimerType == [n : Nat, to : Levels, fired : BOOLEAN]
LogTyped ==
    /\ conf \in Levels /\ level \in Levels /\ want \in Levels
    /\ timers \subseteq TimerType /\ timer \in Nat \union {None}
    /\ final \in Levels \union {None}
    /\ file \in Nat \union {None} /\ handle \in Handle \union {None}
    /\ output \in Handle /\ closed \subseteq Handle
    /\ count \in Nat /\ odd \in BOOLEAN /\ broken \in BOOLEAN
MakerTyped ==
    /\ maker \in [Makers -> MakerType]
    /\ maker["rotate"].pc # "modules" /\ maker["reload"].pc \notin {"close", "rename"}
    /\ maker["reload"].pc # "idle" => maker["reload"].conf \in Levels
    /\ \A m \in Makers : maker[m].pc = "assign" => maker[m].h \in Handle
LEMMA LogTypeIs == LogTypeOK <=> LogTyped /\ MakerTyped
BY DEF LogTypeOK, LogTyped, MakerTyped, MakerType, TimerType, Pcs

LEMMA OpenedType ==
    ASSUME LogTyped
    PROVE  /\ Opened \in Handle /\ Opened.n = count + 1 /\ Opened.ino \in Nat
           /\ count + 1 \in Nat
BY LoggingAssumption DEF LogTyped, Opened, Handle

\* What the steps of createLogger make of the two makers.
LEMMA GoesMaker ==
    ASSUME MakerTyped, NEW m \in Makers, NEW pc \in Pcs \ {"idle", "assign", "modules"},
           m = "reload" => maker[m].pc # "idle" /\ pc \notin {"close", "rename"},
           Goes(m, pc)
    PROVE  /\ MakerTyped' /\ maker'[m].pc = pc
           /\ \A k \in Makers : k # m => maker'[k] = maker[k]
BY DEF MakerTyped, MakerType, Goes, Makers, Pcs

LEMMA EndsMaker ==
    ASSUME MakerTyped, NEW m \in Makers, m = "reload" => maker[m].pc # "idle", Ends(m)
    PROVE  /\ MakerTyped' /\ maker'[m].pc = IF m = "reload" THEN "modules" ELSE "idle"
           /\ \A k \in Makers : k # m => maker'[k] = maker[k]
<1> DEFINE done == IF m = "reload" THEN [Idle EXCEPT !.pc = "modules", !.conf = maker[m].conf] ELSE Idle
<1>1. done \in MakerType /\ done.pc = (IF m = "reload" THEN "modules" ELSE "idle")
      /\ (m = "reload" => done.conf \in Levels)
  BY DEF MakerTyped, MakerType, Idle, Makers, Pcs
<1>2. maker' = [maker EXCEPT ![m] = done]
  BY DEF Ends
<1> HIDE DEF done
<1> QED BY <1>1, <1>2 DEF MakerTyped, Makers

LEMMA OpenMaker ==
    ASSUME LogTyped, MakerTyped, NEW m \in Makers, Open(m)
    PROVE  /\ MakerTyped' /\ maker'[m].pc = "assign" /\ maker'[m].h = Opened
           /\ \A k \in Makers : k # m => maker'[k] = maker[k]
BY OpenedType DEF MakerTyped, MakerType, Open, Makers, Pcs

LEMMA MakerReset ==
    ASSUME maker' = [m \in Makers |-> Idle]
    PROVE  MakerTyped' /\ \A m \in Makers : maker'[m].pc = "idle"
BY DEF MakerTyped, MakerType, Idle, Makers, Pcs

LEMMA LogEventType == LogTypeOK /\ LogEvent => LogTypeOK'
<1> SUFFICES ASSUME LogTyped, MakerTyped, LogEvent PROVE LogTyped' /\ MakerTyped'
  <2>1. LogTypeOK' <=> LogTyped' /\ MakerTyped'
    BY DEF LogTypeOK, LogTyped, MakerTyped, MakerType, TimerType, Pcs
  <2> QED BY <2>1, LogTypeIs
<1> USE DEF levelVars, fileVars
<1>1. ASSUME NEW l \in Levels, OverrideForGood(l) PROVE LogTyped' /\ MakerTyped'
  BY <1>1 DEF OverrideForGood, StopTimer, Late, LogTyped, MakerTyped
<1>2. ASSUME NEW l \in Levels, OverrideForAWhile(l) PROVE LogTyped' /\ MakerTyped'
  <2>1. [n |-> count + 1, to |-> level, fired |-> FALSE] \in TimerType
    BY DEF TimerType, LogTyped
  <2>2. timers' \subseteq TimerType
    BY <1>2, <2>1 DEF OverrideForAWhile, StopTimer, LogTyped
  <2>3. odd' \in BOOLEAN
    BY <1>2 DEF OverrideForAWhile
  <2> QED BY <1>2, <2>2, <2>3 DEF OverrideForAWhile, LogTyped, MakerTyped
<1>3. CASE FinalizeReads
  BY <1>3 DEF FinalizeReads, LogTyped, MakerTyped
<1>4. CASE RotateBegins
  BY <1>4, GoesMaker DEF RotateBegins, LogTyped, Makers, Pcs
<1>5. ASSUME NEW m \in Makers, OpenFails(m) PROVE LogTyped' /\ MakerTyped'
  BY <1>5, EndsMaker DEF OpenFails, LogTyped
<1>6. CASE RenameFails
  BY <1>6, EndsMaker DEF RenameFails, LogTyped, Makers
<1> QED BY <1>1, <1>2, <1>3, <1>4, <1>5, <1>6 DEF LogEvent

LEMMA LogStepType == LogTypeOK /\ LogStep => LogTypeOK'
<1> SUFFICES ASSUME LogTyped, MakerTyped, LogStep PROVE LogTyped' /\ MakerTyped'
  <2>1. LogTypeOK' <=> LogTyped' /\ MakerTyped'
    BY DEF LogTypeOK, LogTyped, MakerTyped, MakerType, TimerType, Pcs
  <2> QED BY <2>1, LogTypeIs
<1> USE DEF levelVars, fileVars
<1>1. CASE Fire
  BY <1>1 DEF Fire, LogTyped, MakerTyped, TimerType
<1>2. CASE Restore
  BY <1>2 DEF Restore, LogTyped, MakerTyped, TimerType
<1>3. CASE FinalizeWrites
  BY <1>3 DEF FinalizeWrites, LogTyped, MakerTyped
<1>4. ASSUME NEW m \in Makers, SetLevel(m) PROVE LogTyped' /\ MakerTyped'
  <2>1. level' \in Levels /\ want' \in Levels
    BY <1>4 DEF SetLevel, LogTyped, MakerTyped
  <2>2. odd' \in BOOLEAN
    BY <1>4 DEF SetLevel
  <2> QED BY <1>4, <2>1, <2>2, GoesMaker DEF SetLevel, LogTyped, Pcs
<1>5. ASSUME NEW m \in Makers, Open(m) PROVE LogTyped' /\ MakerTyped'
  BY <1>5, OpenMaker, OpenedType DEF Open, LogTyped
<1>6. ASSUME NEW m \in Makers, Assign(m) PROVE LogTyped' /\ MakerTyped'
  <2>1. maker[m].h \in Handle
    BY <1>6 DEF Assign, MakerTyped
  <2> QED BY <1>6, <2>1, EndsMaker DEF Assign, LogTyped
<1>7. CASE CloseHandle
  <2>1. MakerTyped'
    BY <1>7, EndsMaker, GoesMaker DEF CloseHandle, Makers, Pcs
  <2> QED BY <1>7, <2>1 DEF CloseHandle, LogTyped
<1>8. CASE Rename
  BY <1>8, GoesMaker DEF Rename, LogTyped, Makers, Pcs
<1> QED BY <1>1, <1>2, <1>3, <1>4, <1>5, <1>6, <1>7, <1>8 DEF LogStep

LEMMA LogReloadType ==
    LogTypeOK /\ (LogReloads \/ (maker["reload"].pc = "modules" /\ LogReloaded) \/ LogRestarts)
    => LogTypeOK'
<1> SUFFICES ASSUME LogTyped, MakerTyped,
                    LogReloads \/ (maker["reload"].pc = "modules" /\ LogReloaded) \/ LogRestarts
             PROVE LogTyped' /\ MakerTyped'
  <2>1. LogTypeOK' <=> LogTyped' /\ MakerTyped'
    BY DEF LogTypeOK, LogTyped, MakerTyped, MakerType, TimerType, Pcs
  <2> QED BY <2>1, LogTypeIs
<1> USE DEF levelVars, fileVars
<1>1. CASE LogReloads
  <2>1. PICK c \in Levels :
          maker' = [maker EXCEPT !["reload"] = [Idle EXCEPT !.pc = "level", !.conf = c]]
    BY <1>1 DEF LogReloads
  <2>2. MakerTyped'
    BY <2>1 DEF MakerTyped, MakerType, Idle, Makers, Pcs
  <2> QED BY <1>1, <2>2 DEF LogReloads, LogTyped
<1>2. CASE maker["reload"].pc = "modules" /\ LogReloaded
  <2>1. MakerTyped'
    BY <1>2 DEF LogReloaded, MakerTyped, MakerType, Idle, Makers, Pcs
  <2>2. conf' \in Levels
    BY <1>2 DEF LogReloaded, MakerTyped
  <2> QED BY <1>2, <2>1, <2>2 DEF LogReloaded, LogTyped
<1>3. CASE LogRestarts
  BY <1>3, MakerReset, OpenedType DEF LogRestarts, LogTyped
<1> QED BY <1>1, <1>2, <1>3

----------------------------------------------------------------------------
(* Types of the exporters.                                                  *)

LoopType == [pc : {"none", "check", "list", "start", "assign", "wait", "done", "failed"},
             keep : BOOLEAN, proc : Proc \union {Nobody}, found : SUBSET Proc]
KillerType == [pc : {"idle", "kill", "wait", "clear", "done"}, gen : Generations \union {0}]
MaybeProc == Proc \union {Nobody}
ExporterTyped ==
    /\ gen \in Generations
    /\ loop \in [Generations -> LoopType]
    /\ cmd \in [Generations -> MaybeProc]
    /\ killer \in [Killers -> KillerType]
    /\ \A k \in Killers : killer[k].pc # "idle" => killer[k].gen \in Generations
    /\ procs \subseteq Proc /\ port \in MaybeProc
LEMMA ExporterTypeIs == ExporterTypeOK <=> ExporterTyped
BY DEF ExporterTypeOK, ExporterTyped, LoopType, KillerType, MaybeProc

LEMMA ImageIsFinite ==
    ASSUME NEW S, IsFiniteSet(S), NEW f, f = [x \in S |-> f[x]]
    PROVE  IsFiniteSet({f[x] : x \in S})
<1> DEFINE T == {f[x] : x \in S}
<1>1. f \in Surjection(S, T)
  BY DEF Surjection
<1> QED BY <1>1, FS_Surjection

\* Among one number more than are used one is free.
LEMMA SomeFree ==
    ASSUME NEW used, IsFiniteSet(used)
    PROVE  \E n \in 1..(Cardinality(used) + 1) : n \notin used
<1> DEFINE k == Cardinality(used)
<1>1. k \in Nat
  BY FS_CardinalityType
<1>2. IsFiniteSet(1..(k + 1)) /\ Cardinality(1..(k + 1)) = k + 1
  BY <1>1, FS_Interval
<1>3. ASSUME 1..(k + 1) \subseteq used PROVE FALSE
  <2>1. k + 1 <= k
    BY <1>2, <1>3, FS_Subset
  <2> QED BY <1>1, <2>1
<1> QED BY <1>3

LEMMA FreeNumberIsFree ==
    ASSUME ExporterTyped, FiniteProcs, NEW g \in Generations
    PROVE  FreeNumber(g) \in Nat \ {0} /\ [n |-> FreeNumber(g), gen |-> g] \notin procs
<1> DEFINE inUse == {q \in (procs \union Known) \ {Nobody} : q.gen = g}
           used == {p.n : p \in inUse}
<1>1. IsFiniteSet(Generations)
  BY FS_Interval, ExporterAssumption DEF Generations
<1>2. IsFiniteSet({loop[h].proc : h \in Generations}) /\ IsFiniteSet({cmd[h] : h \in Generations})
  <2> DEFINE known == [h \in Generations |-> loop[h].proc]
  <2>1. IsFiniteSet({known[h] : h \in Generations})
    BY <1>1, ImageIsFinite
  <2>2. {known[h] : h \in Generations} = {loop[h].proc : h \in Generations}
    OBVIOUS
  <2>3. cmd = [h \in Generations |-> cmd[h]]
    BY DEF ExporterTyped
  <2> QED BY <1>1, <2>1, <2>2, <2>3, ImageIsFinite
<1> DEFINE orphans == {loop[h].found : h \in Generations}
<1>11. IsFiniteSet(UNION orphans)
  <2> DEFINE orphansOf == [h \in Generations |-> loop[h].found]
  <2>1. IsFiniteSet({orphansOf[h] : h \in Generations})
    BY <1>1, ImageIsFinite
  <2>2. {orphansOf[h] : h \in Generations} = orphans
    OBVIOUS
  <2>3. \A T \in orphans : IsFiniteSet(T)
    BY DEF FiniteProcs
  <2>4. IsFiniteSet(orphans)
    BY <2>1, <2>2
  <2> HIDE DEF orphans
  <2> QED BY <2>3, <2>4, FS_UNION
<1>3. IsFiniteSet(Known)
  <2> DEFINE A == {loop[h].proc : h \in Generations}
             B == {cmd[h] : h \in Generations}
             C == UNION orphans
  <2>1. Known = (A \union B) \union C
    BY DEF Known
  <2>2. IsFiniteSet(A) /\ IsFiniteSet(B) /\ IsFiniteSet(C)
    BY <1>2, <1>11
  <2> HIDE DEF A, B, C
  <2> QED BY <2>1, <2>2, FS_Union
<1>4. IsFiniteSet(procs \union Known)
  BY <1>3, FS_Union DEF FiniteProcs
<1>5. IsFiniteSet(inUse)
  BY <1>4, FS_Subset
<1> HIDE DEF inUse
<1>6. IsFiniteSet(used)
  <2> DEFINE number == [p \in inUse |-> p.n]
  <2>1. IsFiniteSet({number[p] : p \in inUse})
    BY <1>5, ImageIsFinite
  <2>2. {number[p] : p \in inUse} = used
    OBVIOUS
  <2> QED BY <2>1, <2>2
<1> HIDE DEF used
<1>7. FreeNumber(g) \in 1..(Cardinality(used) + 1) /\ FreeNumber(g) \notin used
  BY <1>6, SomeFree DEF FreeNumber, used, inUse
<1>8. Cardinality(used) \in Nat
  BY <1>6, FS_CardinalityType
<1>9. \A p \in procs : p.gen = g => p.n \in used
  BY ExporterAssumption DEF used, inUse, ExporterTyped
<1>10. ASSUME [n |-> FreeNumber(g), gen |-> g] \in procs PROVE FALSE
  <2>1. [n |-> FreeNumber(g), gen |-> g].n = FreeNumber(g) /\ [n |-> FreeNumber(g), gen |-> g].gen = g
    OBVIOUS
  <2> QED BY <1>7, <1>9, <1>10, <2>1
<1> QED BY <1>7, <1>8, <1>10

LEMMA SurviveType ==
    ASSUME NEW P, P \subseteq procs, ExporterTyped, IsFiniteSet(procs), Survive(P)
    PROVE  procs' \subseteq Proc /\ port' \in MaybeProc /\ IsFiniteSet(procs')
BY FS_Subset DEF Survive, ExporterTyped, MaybeProc

LEMMA ToType ==
    ASSUME ExporterTyped, NEW g \in Generations,
           NEW pc \in {"none", "check", "list", "start", "assign", "wait", "done", "failed"}, To(g, pc)
    PROVE  /\ loop' \in [Generations -> LoopType]
           /\ \A h \in Generations : loop'[h].found = loop[h].found
BY DEF ExporterTyped, LoopType, To

LEMMA ProceedsType ==
    ASSUME ExporterTyped, NEW k \in Killers, killer[k].pc # "idle",
           NEW pc \in {"kill", "wait", "clear", "done"}, Proceeds(k, pc)
    PROVE  /\ killer' \in [Killers -> KillerType]
           /\ \A j \in Killers : killer'[j].pc # "idle" => killer'[j].gen \in Generations
BY DEF ExporterTyped, KillerType, Proceeds

LEMMA StopByType ==
    ASSUME ExporterTyped, NEW k \in Killers, NEW g \in Generations, StopBy(k, g)
    PROVE  /\ killer' \in [Killers -> KillerType]
           /\ \A j \in Killers : killer'[j].pc # "idle" => killer'[j].gen \in Generations
BY DEF ExporterTyped, KillerType, StopBy

LEMMA NotKillingType == NotKilling \in KillerType /\ NotKilling.pc = "idle"
BY DEF NotKilling, KillerType

LEMMA NextGenerationType ==
    ASSUME ExporterTyped, NEW left \in [Generations -> LoopType], NextGeneration(left)
    PROVE  /\ gen' \in Generations /\ loop' \in [Generations -> LoopType]
           /\ \A h \in Generations : loop'[h].found \in {left[h].found, {}}
<1>1. gen' \in Generations
  BY ExporterAssumption DEF ExporterTyped, NextGeneration, Generations
<1>2. [NoLoop EXCEPT !.pc = "check", !.keep = TRUE] \in LoopType
  BY DEF NoLoop, LoopType
<1>3. [NoLoop EXCEPT !.pc = "check", !.keep = TRUE].found = {}
  BY DEF NoLoop
<1> QED BY <1>1, <1>2, <1>3 DEF NextGeneration

ExporterFine == ExporterTyped /\ FiniteProcs

\* What a step leaves alone, or empties, stays finite.
LEMMA FiniteKept ==
    ASSUME FiniteProcs, IsFiniteSet(procs'),
           \A g \in Generations : loop'[g].found \in {loop[g].found, procs, {}}
    PROVE  FiniteProcs'
BY FS_EmptySet DEF FiniteProcs

LEMMA LoopUpdate ==
    ASSUME ExporterTyped, NEW g \in Generations, NEW r \in LoopType,
           loop' = [loop EXCEPT ![g] = r], r.found \in {procs, {}}
    PROVE  /\ loop' \in [Generations -> LoopType]
           /\ \A h \in Generations : loop'[h].found \in {loop[h].found, procs, {}}
BY DEF ExporterTyped

LEMMA LoopStepType ==
    ASSUME ExporterFine, NEW g \in Generations, LoopStep(g) \/ StartFails(g)
    PROVE  ExporterFine'
<1> USE DEF ExporterFine
<1>0. IsFiniteSet(procs)
  BY DEF FiniteProcs
<1>1. CASE LoopEnds(g) \/ KeepsOn(g) \/ WaitProc(g)
  BY <1>0, <1>1, ToType, FiniteKept DEF LoopEnds, KeepsOn, WaitProc, ExporterTyped
<1>2. CASE ListProcs(g) \/ StartFails(g)
  <2>1. PICK pc \in {"start", "failed"}, found \in {procs, {}} :
          loop' = [loop EXCEPT ![g].pc = pc, ![g].found = found]
    BY <1>2 DEF ListProcs, StartFails
  <2>2. UNCHANGED <<gen, cmd, killer, procs, port>>
    BY <1>2 DEF ListProcs, StartFails
  <2>3. found \subseteq Proc
    BY DEF ExporterTyped
  <2> DEFINE r == [loop[g] EXCEPT !.pc = pc, !.found = found]
  <2>5. r \in LoopType /\ r.found = found
    <3>1. loop[g] \in LoopType
      BY DEF ExporterTyped
    <3> QED BY <2>3, <3>1 DEF LoopType
  <2>6. loop' = [loop EXCEPT ![g] = r]
    BY <2>1
  <2> HIDE DEF r
  <2>4. /\ loop' \in [Generations -> LoopType]
        /\ \A h \in Generations : loop'[h].found \in {loop[h].found, procs, {}}
    BY <2>5, <2>6, LoopUpdate
  <2> QED BY <1>0, <2>2, <2>4, FiniteKept DEF ExporterTyped
<1>6. CASE KillOrphan(g)
  <2>1. PICK p : Survive(procs \ {p})
    BY <1>6 DEF KillOrphan
  <2>2. procs' \subseteq Proc /\ port' \in MaybeProc /\ IsFiniteSet(procs')
    BY <1>0, <2>1, SurviveType
  <2> QED BY <1>6, <2>2, FiniteKept DEF KillOrphan, ExporterTyped
<1>3. CASE StartProc(g)
  <2> DEFINE p == [n |-> FreeNumber(g), gen |-> g]
  <2>1. p \in Proc
    BY FreeNumberIsFree DEF Proc
  <2>2. /\ procs' = procs \union {p}
        /\ loop' = [loop EXCEPT ![g].pc = "assign", ![g].proc = p, ![g].found = {}]
        /\ UNCHANGED <<gen, cmd, killer, port>>
    BY <1>3 DEF StartProc
  <2> HIDE DEF p
  <2> DEFINE r == [loop[g] EXCEPT !.pc = "assign", !.proc = p, !.found = {}]
  <2>5. r \in LoopType /\ r.found = {}
    <3>1. loop[g] \in LoopType
      BY DEF ExporterTyped
    <3> QED BY <2>1, <3>1 DEF LoopType
  <2>6. loop' = [loop EXCEPT ![g] = r]
    BY <2>2
  <2> HIDE DEF r
  <2>3. /\ loop' \in [Generations -> LoopType]
        /\ \A h \in Generations : loop'[h].found \in {loop[h].found, procs, {}}
    BY <2>5, <2>6, LoopUpdate
  <2>4. IsFiniteSet(procs')
    BY <1>0, <2>2, FS_AddElement
  <2> QED BY <2>1, <2>2, <2>3, <2>4, FiniteKept DEF ExporterTyped
<1>4. CASE AssignCmd(g)
  <2>1. cmd' \in [Generations -> MaybeProc]
    BY <1>4 DEF AssignCmd, ExporterTyped, LoopType, MaybeProc
  <2> QED BY <1>0, <1>4, <2>1, ToType, FiniteKept DEF AssignCmd, ExporterTyped
<1> QED BY <1>1, <1>2, <1>3, <1>4, <1>6 DEF LoopStep

LEMMA KillerStepType ==
    ASSUME ExporterFine, NEW k \in Killers, KillerStep(k) PROVE ExporterFine'
<1> USE DEF ExporterFine
<1>0. IsFiniteSet(procs)
  BY DEF FiniteProcs
<1>1. CASE Kill(k)
  <2>1. procs' \subseteq Proc /\ port' \in MaybeProc /\ IsFiniteSet(procs')
    BY <1>0, <1>1, SurviveType DEF Kill
  <2> QED BY <1>1, <2>1, ProceedsType, FiniteKept DEF Kill, ExporterTyped
<1>2. CASE WaitKilled(k)
  BY <1>2, ProceedsType DEF WaitKilled, ExporterTyped, FiniteProcs
<1>3. CASE ClearCmd(k)
  <2>1. cmd' \in [Generations -> MaybeProc]
    BY <1>3 DEF ClearCmd, ExporterTyped, MaybeProc
  <2> QED BY <1>3, <2>1, ProceedsType DEF ClearCmd, ExporterTyped, FiniteProcs
<1>4. CASE WatchOn
  <2>1. killer' = [killer EXCEPT !["watch"] = NotKilling]
    BY <1>4 DEF WatchOn
  <2>2. /\ killer' \in [Killers -> KillerType]
        /\ \A j \in Killers : killer'[j].pc # "idle" => killer'[j].gen \in Generations
    BY <2>1, NotKillingType DEF ExporterTyped
  <2> QED BY <1>4, <2>2 DEF WatchOn, ExporterTyped, FiniteProcs
<1> QED BY <1>1, <1>2, <1>3, <1>4 DEF KillerStep

LEMMA ExporterStepType ==
    ASSUME ExporterFine, ExporterStep \/ ExporterEvent PROVE ExporterFine'
<1> USE DEF ExporterFine
<1>1. CASE Bind
  BY <1>1 DEF Bind, ExporterTyped, MaybeProc, FiniteProcs
<1>2. CASE PortTaken \/ Dies
  <2>1. PICK p : Survive(procs \ {p})
    BY <1>2 DEF PortTaken, Dies
  <2>2. procs' \subseteq Proc /\ port' \in MaybeProc /\ IsFiniteSet(procs')
    BY <2>1, SurviveType DEF FiniteProcs
  <2> QED BY <1>2, <2>2, FiniteKept DEF PortTaken, Dies, ExporterTyped
<1>3. CASE MemoryExceeded
  BY <1>3, StopByType DEF MemoryExceeded, ExporterTyped, Killers, FiniteProcs
<1> QED BY <1>1, <1>2, <1>3, LoopStepType, KillerStepType DEF ExporterStep, ExporterEvent

LEMMA ModuleType ==
    ASSUME ExporterFine, StopModule \/ StartModule \/ ExporterRestarts PROVE ExporterFine'
<1> USE DEF ExporterFine
<1>0. IsFiniteSet(procs)
  BY DEF FiniteProcs
<1>1. CASE StopModule
  <2>1. /\ loop' \in [Generations -> LoopType]
        /\ \A h \in Generations : loop'[h].found = loop[h].found
    BY <1>1 DEF StopModule, ExporterTyped, LoopType
  <2> QED BY <1>0, <1>1, <2>1, StopByType, FiniteKept DEF StopModule, ExporterTyped, Killers
<1>2. CASE StartModule
  <2>1. killer' = [killer EXCEPT !["stop"] = NotKilling]
    BY <1>2 DEF StartModule
  <2>2. /\ killer' \in [Killers -> KillerType]
        /\ \A j \in Killers : killer'[j].pc # "idle" => killer'[j].gen \in Generations
    BY <2>1, NotKillingType DEF ExporterTyped
  <2>3. /\ gen' \in Generations /\ loop' \in [Generations -> LoopType]
        /\ \A h \in Generations : loop'[h].found \in {loop[h].found, {}}
    BY <1>2, NextGenerationType DEF StartModule, ExporterTyped
  <2> QED BY <1>0, <1>2, <2>2, <2>3, FiniteKept DEF StartModule, ExporterTyped
<1>3. CASE ExporterRestarts
  <2>1. [g \in Generations |-> NoLoop] \in [Generations -> LoopType]
    BY DEF NoLoop, LoopType
  <2>4. \A h \in Generations : [g \in Generations |-> NoLoop][h].found = {}
    BY DEF NoLoop
  <2>2. /\ gen' \in Generations /\ loop' \in [Generations -> LoopType]
        /\ \A h \in Generations : loop'[h].found = {}
    BY <1>3, <2>1, <2>4, NextGenerationType DEF ExporterRestarts
  <2>3. cmd' \in [Generations -> MaybeProc] /\ killer' \in [Killers -> KillerType]
        /\ \A j \in Killers : killer'[j].pc = "idle"
    BY <1>3, NotKillingType DEF ExporterRestarts, MaybeProc
  <2> QED BY <1>0, <1>3, <2>2, <2>3, FiniteKept DEF ExporterRestarts, ExporterTyped
<1> QED BY <1>1, <1>2, <1>3

LEMMA TypeInit == Init => TypeOK /\ FiniteProcs
<1> SUFFICES ASSUME Init PROVE TypeOK /\ FiniteProcs
  OBVIOUS
<1>1. LogTypeOK
  <2>1. MakerTyped
    BY DEF Init, LogInit, MakerTyped, MakerType, Idle, Makers, Pcs
  <2>2. [n |-> 1, ino |-> 1] \in Handle
    BY DEF Handle
  <2> QED BY <2>1, <2>2, LoggingAssumption, LogTypeIs DEF Init, LogInit, LogTyped
<1>2. ExporterTypeOK
  <2>1. 1 \in Generations /\ First \in Proc
    BY ExporterAssumption DEF First, Proc, Generations
  <2>2. loop \in [Generations -> LoopType]
    BY <2>1 DEF Init, ExporterInit, NoLoop, LoopType
  <2>3. killer \in [Killers -> KillerType] /\ \A k \in Killers : killer[k].pc = "idle"
    BY NotKillingType DEF Init, ExporterInit
  <2> QED BY <2>1, <2>2, <2>3, ExporterTypeIs DEF Init, ExporterInit, ExporterTyped, MaybeProc
<1>3. FiniteProcs
  BY FS_Singleton, FS_EmptySet DEF Init, ExporterInit, FiniteProcs, NoLoop
<1>4. events \in 0..MaxEvents
  BY BackgroundAssumption DEF Init
<1> QED BY <1>1, <1>2, <1>3, <1>4 DEF TypeOK

LEMMA TypeNext == TypeOK /\ FiniteProcs /\ [Next]_vars => TypeOK' /\ FiniteProcs'
<1> SUFFICES ASSUME TypeOK, FiniteProcs, [Next]_vars PROVE TypeOK' /\ FiniteProcs'
  OBVIOUS
<1>0. LogTypeOK /\ ExporterFine
  BY ExporterTypeIs DEF TypeOK, ExporterFine
<1>1. UNCHANGED logVars => LogTypeOK'
  BY <1>0 DEF logVars, levelVars, fileVars, LogTypeOK
<1>2. UNCHANGED exporterVars => ExporterFine'
  BY <1>0 DEF exporterVars, ExporterFine, ExporterTyped, FiniteProcs
<1> DEFINE Goal == LogTypeOK' /\ ExporterFine' /\ events' \in 0..MaxEvents
<1>3. ASSUME UNCHANGED vars PROVE Goal
  BY <1>0, <1>1, <1>2, <1>3 DEF vars, TypeOK
<1>4. Happens \/ UNCHANGED events => events' \in 0..MaxEvents
  BY BackgroundAssumption DEF Happens, TypeOK
<1>5. ASSUME Event PROVE Goal
  BY <1>0, <1>1, <1>2, <1>4, <1>5, LogEventType, ExporterStepType DEF Event
<1>6. ASSUME Step PROVE Goal
  BY <1>0, <1>1, <1>2, <1>4, <1>6, LogStepType, ExporterStepType DEF Step
<1>7. ASSUME Reload PROVE Goal
  BY <1>0, <1>2, <1>4, <1>7, LogReloadType DEF Reload
<1>8. ASSUME StopModules PROVE Goal
  BY <1>0, <1>1, <1>4, <1>8, ModuleType DEF StopModules
<1>9. ASSUME StartModules PROVE Goal
  BY <1>0, <1>4, <1>9, LogReloadType, ModuleType DEF StartModules
<1>10. ASSUME Panic \/ Crash PROVE Goal
  BY <1>0, <1>4, <1>10, LogReloadType, ModuleType DEF Panic, Crash, Restart
<1>11. Goal
  BY <1>3, <1>5, <1>6, <1>7, <1>8, <1>9, <1>10 DEF Next
<1>12. ExporterFine' => ExporterTypeOK' /\ FiniteProcs'
  BY DEF ExporterFine, ExporterTyped, ExporterTypeOK, LoopType, KillerType, MaybeProc
<1> QED BY <1>11, <1>12 DEF TypeOK

(* Theorem: every variable of the log and of the exporters keeps its type,  *)
(* and finitely many processes run and have been found as orphans.          *)
THEOREM TypesHold == Spec => [](TypeOK /\ FiniteProcs)
BY TypeInit, TypeNext, PTL DEF Spec

----------------------------------------------------------------------------
(* The file of the log.                                                     *)

\* What a handle that is opened now has.
LEMMA OpenedIsNew ==
    ASSUME LogTyped, Numbered
    PROVE  /\ Opened \notin closed /\ Opened # None /\ Opened.n = count + 1
           /\ count <= count + 1 /\ ~(count + 1 <= count)
<1>1. /\ Opened \in Handle /\ Opened.n = count + 1 /\ count \in Nat
  BY OpenedType DEF LogTyped
<1> QED BY <1>1, LoggingAssumption DEF Numbered

\* The numbers stay below the count, which never falls.
LEMMA NumberedKept ==
    ASSUME LogTyped, Numbered, MakerTyped, count' \in {count, count + 1},
           output' = output, handle' \in {handle, None},
           closed' \subseteq closed \union ({handle} \ {None}),
           \A m \in Makers : maker'[m].pc = "assign" =>
               \/ maker'[m] = maker[m]
               \/ maker'[m].h = Opened /\ count' = count + 1
    PROVE  Numbered'
<1>1. count \in Nat /\ count <= count'
  BY DEF LogTyped
<1>2. /\ output \in Handle /\ closed \subseteq Handle /\ (handle # None => handle \in Handle)
      /\ \A m \in Makers : maker[m].pc = "assign" => maker[m].h \in Handle
  BY DEF LogTyped, MakerTyped
<1>3. \A h \in Handle : h.n <= count => h.n <= count'
  BY <1>1 DEF Handle
<1>4. output'.n <= count' /\ (handle' # None => handle'.n <= count')
  BY <1>2, <1>3 DEF Numbered
<1>5. \A h \in closed' : h.n <= count'
  <2> SUFFICES ASSUME NEW h \in closed' PROVE h.n <= count'
    OBVIOUS
  <2>1. h \in closed \/ (h = handle /\ handle # None)
    OBVIOUS
  <2>2. h \in Handle /\ h.n <= count
    BY <1>2, <2>1 DEF Numbered
  <2> QED BY <1>3, <2>2
<1>6. \A m \in Makers : maker'[m].pc = "assign" => maker'[m].h.n <= count'
  BY <1>1, <1>2, <1>3, OpenedType DEF Numbered
<1> QED BY <1>4, <1>5, <1>6 DEF Numbered

LEMMA FileUnchanged ==
    ASSUME FileInv, UNCHANGED <<file, handle, output, closed, broken, maker>>, count' \in {count, count + 1},
           LogTyped, MakerTyped
    PROVE  FileInv'
<1>1. Numbered'
  BY NumberedKept DEF FileInv
<1>2. Orderly => Orderly'
  BY DEF Orderly, Rotation, Reloading, InUse
<1> QED BY <1>1, <1>2 DEF FileInv

LEMMA FileNext ==
    ASSUME LogTyped, MakerTyped, FileInv,
           LogEvent \/ LogStep \/ LogReloads \/ (maker["reload"].pc = "modules" /\ LogReloaded) \/ LogRestarts
    PROVE  FileInv'
<1> USE DEF levelVars, fileVars
<1>0. Numbered /\ (broken \/ Orderly)
  BY DEF FileInv
<1>0a. "rotate" \in Makers /\ "reload" \in Makers /\ \A m \in Makers : m \in {"rotate", "reload"}
  BY DEF Makers
<1>1. CASE \/ \E l \in Levels : OverrideForGood(l) \/ OverrideForAWhile(l)
           \/ FinalizeReads \/ Fire \/ Restore \/ FinalizeWrites
  BY <1>1, FileUnchanged
     DEF OverrideForGood, OverrideForAWhile, FinalizeReads, Fire, Restore, FinalizeWrites
<1>2. CASE RotateBegins
  <2>1. maker'["rotate"].pc = "close" /\ maker'["reload"] = maker["reload"]
    BY <1>2, GoesMaker DEF RotateBegins, Makers, Pcs
  <2>2. Numbered'
    BY <1>0, <1>0a, <1>2, <2>1, NumberedKept DEF RotateBegins
  <2>3. CASE broken \/ Reloading
    <3>1. broken'
      BY <1>2, <2>3 DEF RotateBegins, Reloading
    <3> QED BY <2>2, <3>1 DEF FileInv
  <2>4. CASE ~broken /\ ~Reloading
    <3>1. Orderly'
      BY <1>0, <1>0a, <1>2, <2>1, <2>4 DEF RotateBegins, Orderly, Rotation, Reloading, InUse
    <3> QED BY <2>2, <3>1 DEF FileInv
  <2> QED BY <2>3, <2>4
<1>3. ASSUME NEW m \in Makers, OpenFails(m) PROVE FileInv'
  <2>1. maker'[m].pc # "assign" /\ \A k \in Makers : k # m => maker'[k] = maker[k]
    BY <1>3, EndsMaker DEF OpenFails
  <2>2. Numbered'
    BY <1>0, <1>3, <2>1, NumberedKept DEF OpenFails
  <2> QED BY <1>3, <2>2 DEF FileInv, OpenFails
<1>4. CASE RenameFails
  <2>1. maker'["rotate"].pc # "assign" /\ maker'["reload"] = maker["reload"]
    BY <1>4, EndsMaker DEF RenameFails, Makers
  <2>2. Numbered'
    BY <1>0, <1>0a, <1>4, <2>1, NumberedKept DEF RenameFails
  <2> QED BY <1>4, <2>2 DEF FileInv, RenameFails
<1>5. ASSUME NEW m \in Makers, SetLevel(m) PROVE FileInv'
  <2>1. maker'[m].pc = "open" /\ \A k \in Makers : k # m => maker'[k] = maker[k]
    BY <1>5, GoesMaker DEF SetLevel, Pcs
  <2>2. Numbered'
    BY <1>0, <1>5, <2>1, NumberedKept DEF SetLevel
  <2>3. Orderly => Orderly'
    BY <1>0a, <1>5, <2>1 DEF SetLevel, Orderly, Rotation, Reloading, InUse
  <2> QED BY <1>0, <1>5, <2>2, <2>3 DEF FileInv, SetLevel
<1>6. ASSUME NEW m \in Makers, Open(m) PROVE FileInv'
  <2>1. /\ maker'[m].pc = "assign" /\ maker'[m].h = Opened
        /\ \A k \in Makers : k # m => maker'[k] = maker[k]
    BY <1>6, OpenMaker
  <2>2. Numbered'
    BY <1>0, <1>6, <2>1, NumberedKept DEF Open
  <2>3. Opened \notin closed
    BY <1>0, OpenedIsNew
  <2>4. ASSUME Orderly PROVE Orderly'
    <3>1. Rotation' = "idle" \/ ~Reloading'
      BY <1>0a, <1>6, <2>1, <2>4 DEF Open, Orderly, Rotation, Reloading
    <3>2. ~(Rotation' \in {"idle", "close"} /\ ~Reloading')
      BY <1>0a, <1>6, <2>1, <2>4 DEF Open, Orderly, Rotation, Reloading
    <3>3. \A k \in Makers : k # m => maker[k].pc # "assign"
      BY <1>0a, <1>6, <2>4 DEF Open, Orderly, Rotation, Reloading
    <3>4. \A k \in Makers : maker'[k].pc = "assign" =>
              maker'[k].h.ino = file' /\ maker'[k].h \notin closed'
      <4>1. file' = Opened.ino /\ closed' = closed
        BY <1>6 DEF Open
      <4> QED BY <2>1, <2>3, <3>3, <4>1
    <3> QED BY <3>1, <3>2, <3>4 DEF Orderly
  <2> QED BY <1>0, <1>6, <2>2, <2>4 DEF FileInv, Open
<1>7. ASSUME NEW m \in Makers, Assign(m) PROVE FileInv'
  <2>1. /\ maker'[m].pc = IF m = "reload" THEN "modules" ELSE "idle"
        /\ \A k \in Makers : k # m => maker'[k] = maker[k]
    BY <1>7, EndsMaker DEF Assign
  <2>2. Numbered'
    <3>1. m \in {k \in Makers : maker[k].pc = "assign"}
      BY <1>7 DEF Assign
    <3>2. handle' = maker[m].h /\ output' = maker[m].h /\ UNCHANGED <<closed, count>>
      BY <1>7 DEF Assign
    <3>3. \A k \in Makers : maker'[k].pc = "assign" => maker'[k] = maker[k]
      BY <2>1
    <3>4. output'.n <= count /\ handle'.n <= count
      BY <1>0, <3>1, <3>2 DEF Numbered
    <3> QED BY <1>0, <3>2, <3>3, <3>4 DEF Numbered
  <2>3. maker[m].h # None
    BY <1>7, LoggingAssumption DEF Assign, MakerTyped
  <2>4. Orderly => Orderly'
    BY <1>0a, <1>7, <2>1, <2>3 DEF Assign, Orderly, Rotation, Reloading, InUse
  <2> QED BY <1>0, <1>7, <2>2, <2>4 DEF FileInv, Assign
<1>8. CASE CloseHandle
  <2>1. /\ maker'["rotate"].pc = IF handle \in closed THEN "idle" ELSE "rename"
        /\ maker'["reload"] = maker["reload"]
    BY <1>8, EndsMaker, GoesMaker DEF CloseHandle, Makers, Pcs
  <2>2. closed' \subseteq closed \union ({handle} \ {None})
    BY <1>8 DEF CloseHandle
  <2>3. Numbered'
    BY <1>0, <1>0a, <1>8, <2>1, <2>2, NumberedKept DEF CloseHandle
  <2>4. Orderly => Orderly'
    BY <1>0a, <1>8, <2>1 DEF CloseHandle, Orderly, Rotation, Reloading, InUse
  <2> QED BY <1>0, <1>8, <2>3, <2>4 DEF FileInv, CloseHandle
<1>9. CASE Rename
  <2>1. maker'["rotate"].pc = "level" /\ maker'["reload"] = maker["reload"]
    BY <1>9, GoesMaker DEF Rename, Makers, Pcs
  <2>2. Numbered'
    BY <1>0, <1>0a, <1>9, <2>1, NumberedKept DEF Rename
  <2>3. Orderly => Orderly'
    BY <1>0a, <1>9, <2>1 DEF Rename, Orderly, Rotation, Reloading, InUse
  <2> QED BY <1>0, <1>9, <2>2, <2>3 DEF FileInv, Rename
<1>10. CASE LogReloads
  <2>1. maker'["reload"].pc = "level" /\ maker'["rotate"] = maker["rotate"]
    BY <1>10 DEF LogReloads, MakerTyped, MakerType, Idle, Makers
  <2>2. Numbered'
    BY <1>0, <1>0a, <1>10, <2>1, NumberedKept DEF LogReloads
  <2>3. broken' = (Rotation # "idle")
    BY <1>10 DEF LogReloads, Rotation
  <2>4. Rotation = "idle" => Orderly'
    BY <1>0a, <2>1 DEF Orderly, Rotation, Reloading
  <2> QED BY <2>2, <2>3, <2>4 DEF FileInv
<1>11. CASE maker["reload"].pc = "modules" /\ LogReloaded
  <2>1. maker'["reload"].pc = "idle" /\ maker'["rotate"] = maker["rotate"]
    BY <1>11 DEF LogReloaded, MakerTyped, MakerType, Idle, Makers
  <2>2. Numbered'
    BY <1>0, <1>0a, <1>11, <2>1, NumberedKept DEF LogReloaded
  <2>3. Orderly => Orderly'
    BY <1>0a, <1>11, <2>1 DEF LogReloaded, Orderly, Rotation, Reloading, InUse
  <2> QED BY <1>0, <1>11, <2>2, <2>3 DEF FileInv, LogReloaded
<1>12. CASE LogRestarts
  <2>1. \A m \in Makers : maker'[m].pc = "idle"
    BY <1>12, MakerReset DEF LogRestarts
  <2>2. Opened.n = count + 1 /\ count + 1 \in Nat /\ Opened # None
    BY OpenedType, LoggingAssumption
  <2>3. Numbered' /\ Orderly'
    BY <1>0a, <1>12, <2>1, <2>2 DEF LogRestarts, Numbered, Orderly, Rotation, Reloading, InUse
  <2> QED BY <2>3 DEF FileInv
<1> QED BY <1>1, <1>2, <1>3, <1>4, <1>5, <1>6, <1>7, <1>8, <1>9, <1>10, <1>11, <1>12
        DEF LogEvent, LogStep

----------------------------------------------------------------------------
(* The level of the log.                                                    *)

LEMMA LevelNext ==
    ASSUME LogTyped, MakerTyped, LevelInv,
           LogEvent \/ LogStep \/ LogReloads \/ LogReloaded \/ LogRestarts
    PROVE  LevelInv'
<1> USE DEF levelVars, fileVars
\* A timer that is neither late nor fired is the current one, and is stopped.
<1>0. ~Late => StopTimer = {}
  BY DEF Late, StopTimer
<1>1. ASSUME UNCHANGED levelVars PROVE LevelInv'
  BY <1>1 DEF LevelInv
<1>2. ASSUME NEW l \in Levels, OverrideForGood(l) PROVE LevelInv'
  BY <1>0, <1>2 DEF OverrideForGood, LevelInv
<1>3. ASSUME NEW l \in Levels, OverrideForAWhile(l) PROVE LevelInv'
  <2> DEFINE new == [n |-> count + 1, to |-> level, fired |-> FALSE]
  <2>1. new.to = level
    OBVIOUS
  <2>2. /\ odd' \/ (~odd /\ level = want /\ ~Late /\ final = None)
        /\ want' = want /\ final' = final /\ timers' = StopTimer \union {new}
    BY <1>3 DEF OverrideForAWhile
  <2> HIDE DEF new
  <2> QED BY <1>0, <2>1, <2>2 DEF LevelInv
<1>4. CASE FinalizeReads
  BY <1>4 DEF FinalizeReads, LevelInv
<1>5. CASE Fire
  <2>1. PICK t \in timers : timers' = (timers \ {t}) \union {[t EXCEPT !.fired = TRUE]}
    BY <1>5 DEF Fire
  <2> DEFINE new == [t EXCEPT !.fired = TRUE]
  <2>2. new.to = t.to
    BY DEF LogTyped, TimerType
  <2> HIDE DEF new
  <2>3. timers' = (timers \ {t}) \union {new} /\ UNCHANGED <<level, final, want, odd>>
    BY <1>5, <2>1 DEF Fire, new
  <2> QED BY <2>2, <2>3 DEF LevelInv
<1>6. CASE Restore
  <2>1. PICK t \in timers : level' = t.to /\ timers' = timers \ {t}
    BY <1>6 DEF Restore
  <2>2. UNCHANGED <<final, want>> /\ (odd' \/ (~odd /\ final = None))
    BY <1>6 DEF Restore
  <2> QED BY <2>1, <2>2 DEF LevelInv
<1>7. CASE FinalizeWrites
  BY <1>7 DEF FinalizeWrites, LevelInv
<1>8. ASSUME NEW m \in Makers, SetLevel(m) PROVE LevelInv'
  BY <1>8 DEF SetLevel, LevelInv
<1>9. CASE LogRestarts
  BY <1>9 DEF LogRestarts, LevelInv
<1> QED BY <1>1, <1>2, <1>3, <1>4, <1>5, <1>6, <1>7, <1>8, <1>9
        DEF LogEvent, LogStep, RotateBegins, OpenFails, RenameFails, Open, Assign, CloseHandle,
            Rename, LogReloads, LogReloaded

----------------------------------------------------------------------------
(* The generations of an exporter.                                          *)

LEMMA KeepNext ==
    ASSUME ExporterTyped, KeepInv,
           ExporterEvent \/ ExporterStep \/ StopModule \/ StartModule \/ ExporterRestarts
    PROVE  KeepInv'
<1>0. "stop" \in Killers /\ "watch" \in Killers /\ gen \in Generations
  BY DEF Killers, ExporterTyped
<1>1. ASSUME UNCHANGED gen, \A g \in Generations : loop'[g].keep => loop[g].keep,
             killer'["stop"].pc # "idle" => killer["stop"].pc # "idle"
      PROVE  KeepInv'
  BY <1>0, <1>1 DEF KeepInv
<1>2. ASSUME NEW g \in Generations, LoopStep(g) \/ StartFails(g) PROVE KeepInv'
  <2>1. \A h \in Generations : loop'[h].keep = loop[h].keep
    BY <1>2 DEF LoopStep, LoopEnds, KeepsOn, ListProcs, KillOrphan, StartProc, AssignCmd,
         WaitProc, StartFails, To, ExporterTyped, LoopType
  <2> QED BY <1>1, <1>2, <2>1
          DEF LoopStep, LoopEnds, KeepsOn, ListProcs, KillOrphan, StartProc, AssignCmd, WaitProc,
              StartFails
<1>3. ASSUME NEW k \in Killers, KillerStep(k) PROVE KeepInv'
  <2>1. killer'["stop"].pc # "idle" => killer["stop"].pc # "idle"
    BY <1>0, <1>3 DEF KillerStep, Kill, WaitKilled, ClearCmd, WatchOn, Proceeds, ExporterTyped
  <2> QED BY <1>1, <1>3, <2>1 DEF KillerStep, Kill, WaitKilled, ClearCmd, WatchOn
<1>4. CASE MemoryExceeded
  <2>1. killer'["stop"] = killer["stop"]
    BY <1>0, <1>4 DEF MemoryExceeded, StopBy, ExporterTyped
  <2> QED BY <1>1, <1>4, <2>1 DEF MemoryExceeded
<1>5. CASE Bind \/ PortTaken \/ Dies
  BY <1>1, <1>5 DEF Bind, PortTaken, Dies
<1>6. CASE StopModule
  <2>1. ~loop'[gen].keep /\ \A g \in Generations : g # gen => loop'[g] = loop[g]
    BY <1>0, <1>6 DEF StopModule, ExporterTyped, LoopType
  <2> QED BY <1>6, <2>1 DEF KeepInv, StopModule
<1> DEFINE started == [NoLoop EXCEPT !.pc = "check", !.keep = TRUE]
<1>7. CASE StartModule
  <2>1. \A g \in Generations : ~loop[g].keep
    BY <1>7 DEF StartModule, KeepInv
  <2>2. killer'["stop"].pc = "idle"
    BY <1>0, <1>7, NotKillingType DEF StartModule, ExporterTyped
  <2>3. gen' = gen + 1 /\ loop' = [loop EXCEPT ![gen + 1] = started]
    BY <1>7 DEF StartModule, NextGeneration
  <2> HIDE DEF started
  <2>4. \A g \in Generations : g # gen' => loop'[g] = loop[g]
    BY <2>3 DEF ExporterTyped
  <2> QED BY <2>1, <2>2, <2>4 DEF KeepInv
<1>8. CASE ExporterRestarts
  <2>1. killer'["stop"].pc = "idle"
    BY <1>0, <1>8, NotKillingType DEF ExporterRestarts
  <2>2. gen' = gen + 1 /\ loop' = [[g \in Generations |-> NoLoop] EXCEPT ![gen + 1] = started]
    BY <1>8 DEF ExporterRestarts, NextGeneration
  <2> HIDE DEF started
  <2>3. \A g \in Generations : g # gen' => ~loop'[g].keep
    BY <2>2 DEF NoLoop
  <2> QED BY <2>1, <2>3 DEF KeepInv
<1> QED BY <1>2, <1>3, <1>4, <1>5, <1>6, <1>7, <1>8 DEF ExporterEvent, ExporterStep

\* How far a loop that was told to end is from its end: it may have passed the
\* test of keepRunning before.
StepsLeft == [list |-> 5, start |-> 4, assign |-> 3, wait |-> 2, check |-> 1,
              done |-> 0, failed |-> 0, none |-> 0]
RunsDown(g) ==
    \/ loop'[g] \in {loop[g], NoLoop}
    \/ StepsLeft[loop'[g].pc] < StepsLeft[loop[g].pc]

LEMMA OlderLoopsRunDown ==
    ASSUME ExporterTyped, KeepInv,
           ExporterEvent \/ ExporterStep \/ StopModule \/ StartModule \/ ExporterRestarts,
           NEW g \in Generations, g # gen, g # gen'
    PROVE  RunsDown(g)
<1>0. ~loop[g].keep /\ gen \in Generations
  BY DEF KeepInv, ExporterTyped
<1>1. ASSUME loop'[g] = loop[g] PROVE RunsDown(g)
  BY <1>1 DEF RunsDown
<1>2. ASSUME NEW h \in Generations, LoopStep(h) \/ StartFails(h) PROVE RunsDown(g)
  <2>1. CASE h # g
    <3>1. loop'[g] = loop[g]
      BY <1>2, <2>1 DEF LoopStep, LoopEnds, KeepsOn, ListProcs, KillOrphan, StartProc, AssignCmd,
           WaitProc, StartFails, To, ExporterTyped
    <3> QED BY <1>1, <3>1
  <2>2. CASE h = g
    <3>1. CASE LoopEnds(g)
      BY <3>1 DEF LoopEnds, To, ExporterTyped, LoopType, RunsDown, StepsLeft
    <3>2. CASE ListProcs(g)
      BY <3>2 DEF ListProcs, ExporterTyped, LoopType, RunsDown, StepsLeft
    <3>3. CASE KillOrphan(g)
      BY <1>1, <3>3 DEF KillOrphan
    <3>4. CASE StartProc(g)
      BY <3>4 DEF StartProc, OrphansGone, ExporterTyped, LoopType, RunsDown, StepsLeft
    <3>5. CASE StartFails(g)
      BY <3>5 DEF StartFails, OrphansGone, ExporterTyped, LoopType, RunsDown, StepsLeft
    <3>6. CASE AssignCmd(g)
      BY <3>6 DEF AssignCmd, To, ExporterTyped, LoopType, RunsDown, StepsLeft
    <3>7. CASE WaitProc(g)
      BY <3>7 DEF WaitProc, To, ExporterTyped, LoopType, RunsDown, StepsLeft
    <3>8. ~KeepsOn(g)
      BY <1>0 DEF KeepsOn
    <3> QED BY <1>2, <2>2, <3>1, <3>2, <3>3, <3>4, <3>5, <3>6, <3>7, <3>8 DEF LoopStep
  <2> QED BY <2>1, <2>2
<1>3. CASE (\E k \in Killers : KillerStep(k)) \/ MemoryExceeded \/ Bind \/ PortTaken \/ Dies
  <2>1. UNCHANGED loop
    BY <1>3 DEF KillerStep, Kill, WaitKilled, ClearCmd, WatchOn, MemoryExceeded, Bind, PortTaken, Dies
  <2> QED BY <1>1, <2>1
<1>4. CASE StopModule
  <2>1. loop'[g] = loop[g]
    BY <1>0, <1>4 DEF StopModule, ExporterTyped
  <2> QED BY <1>1, <2>1
<1>5. CASE StartModule
  <2>1. loop'[g] = loop[g]
    BY <1>5 DEF StartModule, NextGeneration, ExporterTyped
  <2> QED BY <1>1, <2>1
<1>6. CASE ExporterRestarts
  <2>1. loop'[g] = NoLoop
    BY <1>6 DEF ExporterRestarts, NextGeneration
  <2> QED BY <2>1 DEF RunsDown
<1> QED BY <1>2, <1>3, <1>4, <1>5, <1>6 DEF ExporterEvent, ExporterStep

----------------------------------------------------------------------------
(* The agent.                                                               *)

LEMMA InvInit == Init => IInv
<1> SUFFICES ASSUME Init PROVE IInv
  OBVIOUS
<1>1. \A m \in Makers : maker[m].pc = "idle"
  BY DEF Init, LogInit, Idle
<1>2. output = [n |-> 1, ino |-> 1] /\ output # None
  BY TypeInit, LogTypeIs, LoggingAssumption DEF Init, LogInit, TypeOK, LogTyped
<1>3. output.n = 1 /\ output.ino = 1
  BY <1>2
<1>4. Numbered
  BY <1>1, <1>3 DEF Init, LogInit, Numbered
<1>5. Orderly
  BY <1>1, <1>2, <1>3 DEF Init, LogInit, Orderly, Rotation, Reloading, InUse, Makers
<1>6. LevelInv
  BY DEF Init, LogInit, LevelInv
<1>7. KeepInv
  BY DEF Init, ExporterInit, KeepInv, NoLoop, NotKilling, Killers
<1> QED BY <1>4, <1>5, <1>6, <1>7, TypeInit DEF IInv, FileInv

\* Every step is one of the log, of the exporters, or of both.
LogMoves ==
    LogEvent \/ LogStep \/ LogReloads \/ (maker["reload"].pc = "modules" /\ LogReloaded) \/ LogRestarts
ExporterMoves == ExporterEvent \/ ExporterStep \/ StopModule \/ StartModule \/ ExporterRestarts
LEMMA StepIs ==
    [Next]_vars => (LogMoves \/ UNCHANGED logVars) /\ (ExporterMoves \/ UNCHANGED exporterVars)
BY DEF Next, vars, Event, Step, Reload, StopModules, StartModules, Panic, Crash, Restart,
   LogMoves, ExporterMoves

LEMMA InvNext == IInv /\ [Next]_vars => IInv'
<1> SUFFICES ASSUME IInv, [Next]_vars PROVE IInv'
  OBVIOUS
<1>1. TypeOK' /\ FiniteProcs'
  BY TypeNext DEF IInv
<1>2. LogTyped /\ MakerTyped /\ ExporterTyped
  BY LogTypeIs, ExporterTypeIs DEF IInv, TypeOK
<1>3. FileInv' /\ LevelInv'
  <2>1. CASE LogMoves
    BY <1>2, <2>1, FileNext, LevelNext DEF LogMoves, IInv
  <2>2. CASE UNCHANGED logVars
    <3>1. UNCHANGED <<file, handle, output, closed, broken, maker, count>> /\ UNCHANGED levelVars
      BY <2>2 DEF logVars, fileVars
    <3>2. FileInv'
      BY <1>2, <3>1, FileUnchanged DEF IInv
    <3> QED BY <3>1, <3>2 DEF levelVars, LevelInv, IInv
  <2> QED BY <2>1, <2>2, StepIs
<1>4. KeepInv'
  <2>1. CASE ExporterMoves
    BY <1>2, <2>1, KeepNext DEF ExporterMoves, IInv
  <2>2. CASE UNCHANGED exporterVars
    BY <2>2 DEF exporterVars, IInv, KeepInv
  <2> QED BY <2>1, <2>2, StepIs
<1> QED BY <1>1, <1>3, <1>4 DEF IInv

(* Theorem: outside a rotation and a reload the lines go to the open file   *)
(* that has the name of the log file, unless a file could not be renamed or *)
(* opened, or a rotation and a reload overlapped, since the last reload     *)
(* (rotate, task_logrotate.go 115-141; setLogFile, logger.go 182-250).      *)
THEOREM LinesReachTheFile == Spec => []LogsIntoFile
<1>1. IInv => LogsIntoFile
  BY DEF IInv, FileInv, Orderly, Rotation, Reloading, InUse, LogsIntoFile
<1> QED BY <1>1, InvInit, InvNext, PTL DEF Spec

(* Theorem: when no restore is scheduled the level is the one that was last *)
(* set for good, except for the reasons odd names: the safety half of       *)
(* TimedLevelEnds, without fairness (SetLogLevelOverride, logger.go         *)
(* 113-144; restoreLogLevel, logger.go 159-161).                            *)
THEOREM LevelReturns == Spec => [](timers = {} => odd \/ level = want)
<1>1. IInv => (timers = {} => odd \/ level = want)
  BY DEF IInv, LevelInv
<1> QED BY <1>1, InvInit, InvNext, PTL DEF Spec

(* Theorem: what the goroutine of an older generation still does takes it   *)
(* closer to its end: it looks for orphans at most once more and starts at  *)
(* most one more process, and does not come round again.  In that round it  *)
(* may well kill the process of the newer generation, because it does not   *)
(* look at keepRunning in between (procMainLoop, listen_managedexporter.go  *)
(* 219-288; killOrphanedExporters, 378-447).                                *)
THEOREM OlderGenerationsEnd ==
    Spec => [][\A g \in Generations : g # gen /\ g # gen' => RunsDown(g)]_vars
<1>1. IInv /\ [Next]_vars => [\A g \in Generations : g # gen /\ g # gen' => RunsDown(g)]_vars
  <2> SUFFICES ASSUME IInv, [Next]_vars, NEW g \in Generations, g # gen, g # gen'
               PROVE  RunsDown(g)
    OBVIOUS
  <2>1. ExporterTyped /\ KeepInv
    BY ExporterTypeIs DEF IInv, TypeOK
  <2>2. CASE ExporterMoves
    BY <2>1, <2>2, OlderLoopsRunDown DEF ExporterMoves
  <2>3. CASE UNCHANGED exporterVars
    BY <2>3 DEF exporterVars, RunsDown
  <2> QED BY <2>2, <2>3, StepIs
<1> QED BY <1>1, InvInit, InvNext, PTL DEF Spec
=============================================================================
