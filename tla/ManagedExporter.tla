-------------------------- MODULE ManagedExporter --------------------------
(***************************************************************************)
(* A managed exporter: a process the agent starts, watches, and stops with *)
(* the module.  Each reload starts a new generation of the module; the     *)
(* goroutine of the one before may still be about to start its process.    *)
(*                                                                         *)
(* A process is its number and the generation that started it.  All of     *)
(* them want the same port, which "agent args" names, and exit without it. *)
(***************************************************************************)
EXTENDS Naturals, FiniteSets

CONSTANTS
    Nobody,
    MaxGeneration  \* bound on the generations of the module

Generations == 1..MaxGeneration
Proc == [n : Nat \ {0}, gen : Generations]

ASSUME ExporterAssumption == MaxGeneration \in Nat \ {0} /\ Nobody \notin Proc

VARIABLES
    gen,      \* the generation that was started last
    loop,     \* of a generation: procMainLoop, with keepRunningA, the process it
              \* knows and the orphans it has found
    cmd,      \* of a generation: its field cmd, or Nobody
    killer,   \* who runs StopProc: Stop, or the watcher of the memory
    procs,    \* the processes that run
    port      \* the process that has the port, or Nobody
exporterVars == <<gen, loop, cmd, killer, procs, port>>

Killers == {"stop", "watch"}
NoLoop == [pc |-> "none", keep |-> FALSE, proc |-> Nobody, found |-> {}]
NotKilling == [pc |-> "idle", gen |-> 0]

\* The exporter has been started already.
First == [n |-> 1, gen |-> 1]
ExporterInit ==
    /\ gen = 1
    /\ loop = [g \in Generations |->
                 IF g = 1 THEN [NoLoop EXCEPT !.pc = "wait", !.keep = TRUE, !.proc = First] ELSE NoLoop]
    /\ cmd = [g \in Generations |-> IF g = 1 THEN First ELSE Nobody]
    /\ killer = [k \in Killers |-> NotKilling]
    /\ procs = {First} /\ port = First

----------------------------------------------------------------------------
(* procMainLoop.                                                           *)

To(g, pc) == loop' = [loop EXCEPT ![g].pc = pc]

\* The port is free when its process is gone.
Survive(P) ==
    /\ procs' = P
    /\ port' = IF port \in P THEN port ELSE Nobody

LoopEnds(g) ==
    /\ loop[g].pc = "check" /\ ~loop[g].keep
    /\ To(g, "done")
    /\ UNCHANGED <<gen, cmd, killer, procs, port>>

\* From here on the goroutine does not look at keepRunning until its process
\* has ended: Stop and the start of the next generation may come in between.
KeepsOn(g) ==
    /\ loop[g].pc = "check" /\ loop[g].keep
    /\ To(g, "list")
    /\ UNCHANGED <<gen, cmd, killer, procs, port>>

\* A plausible slip: orphans are looked for before the first start only.
ListBeforeFirst(g) ==
    /\ loop[g].pc = "list"
    /\ loop' = [loop EXCEPT ![g].pc = "start",
                           ![g].found = IF loop[g].proc = Nobody THEN procs ELSE {}]
    /\ UNCHANGED <<gen, cmd, killer, procs, port>>
\* killOrphanedExporters finds every process with the name of the program and
\* the mark in its environment, whoever started it,
ListProcs(g) ==
    /\ loop[g].pc = "list"
    /\ loop' = [loop EXCEPT ![g].pc = "start", ![g].found = procs]
    /\ UNCHANGED <<gen, cmd, killer, procs, port>>

\* and kills one after the other what is still there of them.
KillOrphan(g) ==
    /\ loop[g].pc = "start"
    /\ \E p \in loop[g].found :
          p \in procs /\ Survive(procs \ {p})
    /\ UNCHANGED <<gen, loop, cmd, killer>>
OrphansGone(g) == loop[g].pc = "start" /\ loop[g].found \intersect procs = {}

\* The lowest number of a generation's process that nothing refers to.
Known == {loop[g].proc : g \in Generations} \union {cmd[g] : g \in Generations}
             \union UNION {loop[g].found : g \in Generations}
FreeNumber(g) ==
    LET used == {p.n : p \in {q \in (procs \union Known) \ {Nobody} : q.gen = g}}
    IN CHOOSE n \in 1..(Cardinality(used) + 1) : n \notin used

StartProc(g) ==
    /\ OrphansGone(g)
    /\ LET p == [n |-> FreeNumber(g), gen |-> g]
       IN /\ procs' = procs \union {p}
          /\ loop' = [loop EXCEPT ![g].pc = "assign", ![g].proc = p,
                                     ![g].found = {}]
    /\ UNCHANGED <<gen, cmd, killer, port>>

\* The command cannot be built or started; there is no second attempt.
StartFails(g) ==
    /\ loop[g].pc = "list" \/ OrphansGone(g)
    /\ loop' = [loop EXCEPT ![g].pc = "failed", ![g].found = {}]
    /\ UNCHANGED <<gen, cmd, killer, procs, port>>

AssignCmd(g) ==
    /\ loop[g].pc = "assign"
    /\ cmd' = [cmd EXCEPT ![g] = loop[g].proc]
    /\ To(g, "wait")
    /\ UNCHANGED <<gen, killer, procs, port>>

WaitProc(g) ==
    /\ loop[g].pc = "wait" /\ loop[g].proc \notin procs
    /\ To(g, "check")
    /\ UNCHANGED <<gen, cmd, killer, procs, port>>

----------------------------------------------------------------------------
(* StopProc, by Stop and by the watcher of the memory, without a lock.     *)

\* What every StopProc of k does next; it is done if there is no command.
StopBy(k, g) == killer' = [killer EXCEPT ![k] =
    [pc |-> IF cmd[g] = Nobody THEN "done" ELSE "kill", gen |-> g]]
Proceeds(k, pc) == killer' = [killer EXCEPT ![k].pc = pc]
Cmd(k) == cmd[killer[k].gen]

StopModule ==
    /\ killer["stop"].pc = "idle"
    /\ loop' = [loop EXCEPT ![gen].keep = FALSE]
    /\ StopBy("stop", gen)
    /\ UNCHANGED <<gen, cmd, procs, port>>

\* procMemWatcher: the process has grown beyond the limit.
MemoryExceeded ==
    /\ killer["watch"].pc = "idle"
    /\ loop[gen].keep /\ loop[gen].pc = "wait" /\ loop[gen].proc \in procs
    /\ StopBy("watch", gen)
    /\ UNCHANGED <<gen, loop, cmd, procs, port>>

Kill(k) ==
    /\ killer[k].pc = "kill" /\ Cmd(k) # Nobody
    /\ Survive(procs \ {Cmd(k)})
    /\ Proceeds(k, "wait")
    /\ UNCHANGED <<gen, loop, cmd>>

WaitKilled(k) ==
    /\ killer[k].pc = "wait" /\ Cmd(k) # Nobody /\ Cmd(k) \notin procs
    /\ Proceeds(k, "clear")
    /\ UNCHANGED <<gen, loop, cmd, procs, port>>

\* This may be the command of the process that was started meanwhile.
ClearCmd(k) ==
    /\ killer[k].pc = "clear"
    /\ cmd' = [cmd EXCEPT ![killer[k].gen] = Nobody]
    /\ Proceeds(k, "done")
    /\ UNCHANGED <<gen, loop, procs, port>>

WatchOn ==
    /\ killer["watch"].pc = "done"
    /\ killer' = [killer EXCEPT !["watch"] = NotKilling]
    /\ UNCHANGED <<gen, loop, cmd, procs, port>>

\* The other StopProc has taken the command away: the agent panics.
Panics == \E k \in Killers : killer[k].pc \in {"kill", "wait"} /\ Cmd(k) = Nobody

\* The next generation, of this process or of the next one.
NextGeneration(left) ==
    /\ gen < MaxGeneration /\ gen' = gen + 1
    /\ loop' = [left EXCEPT ![gen + 1] = [NoLoop EXCEPT !.pc = "check", !.keep = TRUE]]

StartModule ==
    /\ killer["stop"].pc = "done"
    /\ NextGeneration(loop)
    /\ killer' = [killer EXCEPT !["stop"] = NotKilling]
    /\ UNCHANGED <<cmd, procs, port>>

\* The agent dies and is started again: the processes live on.
ExporterRestarts ==
    /\ NextGeneration([g \in Generations |-> NoLoop])
    /\ cmd' = [g \in Generations |-> Nobody]
    /\ killer' = [k \in Killers |-> NotKilling]
    /\ UNCHANGED <<procs, port>>

----------------------------------------------------------------------------
(* The processes.                                                          *)

Bind ==
    /\ port = Nobody /\ \E p \in procs : port' = p
    /\ UNCHANGED <<gen, loop, cmd, killer, procs>>

PortTaken ==
    /\ port # Nobody
    /\ \E p \in procs \ {port} : Survive(procs \ {p})
    /\ UNCHANGED <<gen, loop, cmd, killer>>

Dies ==
    /\ \E p \in procs : Survive(procs \ {p})
    /\ UNCHANGED <<gen, loop, cmd, killer>>

ExporterEvent == MemoryExceeded \/ Dies \/ \E g \in Generations : StartFails(g)
LoopStep(g) ==
    \/ LoopEnds(g) \/ KeepsOn(g) \/ ListProcs(g) \/ KillOrphan(g)
    \/ StartProc(g) \/ AssignCmd(g) \/ WaitProc(g)
KillerStep(k) ==
    Kill(k) \/ WaitKilled(k) \/ ClearCmd(k) \/ (k = "watch" /\ WatchOn)
ExporterStep ==
    \/ \E g \in Generations : LoopStep(g)
    \/ \E k \in Killers : KillerStep(k)
    \/ Bind \/ PortTaken

----------------------------------------------------------------------------
ExporterTypeOK ==
    /\ gen \in Generations
    /\ loop \in [Generations -> [pc : {"none", "check", "list", "start", "assign", "wait", "done", "failed"},
                                 keep : BOOLEAN, proc : Proc \union {Nobody},
                                 found : SUBSET Proc]]
    /\ cmd \in [Generations -> Proc \union {Nobody}]
    /\ killer \in [Killers -> [pc : {"idle", "kill", "wait", "clear", "done"},
                               gen : Generations \union {0}]]
    /\ \A k \in Killers : killer[k].pc # "idle" => killer[k].gen \in Generations
    /\ procs \subseteq Proc /\ port \in Proc \union {Nobody}

(* In the end the process of the last generation runs, alone and with the   *)
(* port, whatever the goroutines, processes and killers of the generations  *)
(* before and of a crashed agent have left behind; unless the program could *)
(* not be started (procMainLoop, listen_managedexporter.go 219-288).        *)
ExporterServes ==
    <>[]( \/ loop[gen].pc = "failed"
          \/ port # Nobody /\ port.gen = gen /\ procs = {port} )
=============================================================================
