----------------------------- MODULE Background -----------------------------
(***************************************************************************)
(* What runs beside the checks: the log with its rotation and the managed  *)
(* exporters.  A reload takes both through the same steps: a new logger,   *)
(* the modules of the old configuration stopped, those of the new one      *)
(* started; and a panic of either takes down the other.                    *)
(***************************************************************************)
EXTENDS Logging, ManagedExporter

CONSTANT MaxEvents  \* bound on what happens to the agent

ASSUME BackgroundAssumption == MaxEvents \in Nat

VARIABLE events
vars == <<logVars, exporterVars, events>>

Init == LogInit /\ ExporterInit /\ events = 0

Happens == events < MaxEvents /\ events' = events + 1

Event ==
    /\ Happens
    /\ \/ LogEvent /\ UNCHANGED exporterVars
       \/ ExporterEvent /\ UNCHANGED logVars

Step ==
    /\ \/ LogStep /\ UNCHANGED exporterVars
       \/ ExporterStep /\ UNCHANGED logVars
    /\ UNCHANGED events

\* mainLoop: a reload, while there is another generation to start.
Reload ==
    /\ Happens /\ gen < MaxGeneration
    /\ LogReloads /\ UNCHANGED exporterVars

\* The new logger is there, the old modules are stopped.
StopModules ==
    /\ maker["reload"].pc = "modules"
    /\ StopModule
    /\ UNCHANGED <<logVars, events>>

\* startModules of the new configuration.
StartModules ==
    /\ maker["reload"].pc = "modules"
    /\ StartModule /\ LogReloaded
    /\ UNCHANGED events

Restart == ExporterRestarts /\ LogRestarts
Panic == Panics /\ Restart /\ UNCHANGED events
Crash == Happens /\ Restart

Next == Event \/ Step \/ Reload \/ StopModules \/ StartModules \/ Panic \/ Crash

Spec == Init /\ [][Next]_vars

\* The goroutines of the agent, the timers and the processes go on.
FairSpec ==
    /\ Spec
    /\ WF_vars((Fire \/ Restore) /\ UNCHANGED <<exporterVars, events>>)
    /\ WF_vars(FinalizeWrites /\ UNCHANGED <<exporterVars, events>>)
    /\ \A m \in Makers :
         WF_vars((SetLevel(m) \/ Open(m) \/ Assign(m)) /\ UNCHANGED <<exporterVars, events>>)
    /\ WF_vars((CloseHandle \/ Rename) /\ UNCHANGED <<exporterVars, events>>)
    /\ \A g \in Generations : WF_vars(LoopStep(g) /\ UNCHANGED <<logVars, events>>)
    /\ \A k \in Killers : WF_vars(KillerStep(k) /\ UNCHANGED <<logVars, events>>)
    /\ WF_vars((Bind \/ PortTaken) /\ UNCHANGED <<logVars, events>>)
    /\ WF_vars(StopModules \/ StartModules) /\ WF_vars(Panic)

----------------------------------------------------------------------------
TypeOK == LogTypeOK /\ ExporterTypeOK /\ events \in 0..MaxEvents
=============================================================================
