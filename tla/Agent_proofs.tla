---------------------------- MODULE Agent_proofs ----------------------------
(***************************************************************************)
(* Safety of the agent's life cycle, for any tasks, handlers, ports and    *)
(* configurations, and any number of reloads and clients.                  *)
(*                                                                         *)
(* The properties rest on one inductive invariant of seven parts:          *)
(*                                                                         *)
(*  - TypeOK:         the types;                                           *)
(*  - Phases:         which generation gen, cur and run name at each place *)
(*                    of the main goroutine;                               *)
(*  - ModulesFit:     what the module sets hold there;                     *)
(*  - TasksFit:       only modules of the current task set run;            *)
(*  - SocketsFit:     each socket is held for a module of the current set; *)
(*  - ListenersServe: a visited module is open, a missing one was dropped; *)
(*  - ConnFit:        the generations a connection and its request met.    *)
(*                                                                         *)
(* A part is preserved by the steps of the main goroutine, action by       *)
(* action, and by the steps of the others, which touch little of it.       *)
(***************************************************************************)
EXTENDS Agent, WellFoundedInduction, TLAPS

\* Which generation the counters name at which place of the main goroutine.
Phases ==
    /\ pc = "boot" => gen = 0
    /\ pc \notin {"boot", "exited"} => cur >= 1
    /\ pc \in {"stopTasks", "stopListeners"} => gen = cur + 1
    /\ pc \notin {"stopTasks", "stopListeners"} => gen = cur
    /\ pc \notin {"startTasks", "startListeners", "exited"} => run = cur
    /\ run >= cur - 1 /\ (cur >= 1 => run >= 1)
    /\ pc = "idle" => running = "started"
    /\ pc \in {"haltTasks", "haltListeners", "done"} => running = "stopped"
    /\ \A g \in 1..gen : conf[g] \in Valid

\* The steps of everybody but the main goroutine.
SideStep ==
    \/ StopSend \/ StopReturn
    \/ \E g \in Gen, t \in Task : TaskEnds(g, t)
    \/ \E c \in Conn : ClientStep(c)
    \/ EnvStep

\* What they leave alone: the state of the main goroutine.
mainVars ==
    <<pc, running, gen, conf, cur, run, tmods, lmods, todo, registered>>

\* Signals, clients, ending tasks and other processes do not move the main
\* goroutine nor its module sets.
LEMMA SideKeeps == ASSUME SideStep PROVE UNCHANGED mainVars
<1> USE DEF mainVars, modVars, connOnly
<1>1. CASE StopSend \/ StopReturn
  BY <1>1 DEF StopSend, StopReturn
<1>2. CASE \E g \in Gen, t \in Task : TaskEnds(g, t)
  BY <1>2 DEF TaskEnds
<1>3. CASE \E c \in Conn : ClientStep(c)
  BY <1>3 DEF ClientStep, Accept, Request, Respond, AdminReload, AdminSend, Disconnect
<1>4. CASE EnvStep
  BY <1>4 DEF EnvStep, Deliver, StopCall, EditConfig, ForeignBind, ForeignRelease
<1> QED
  BY <1>1, <1>2, <1>3, <1>4 DEF SideStep

----------------------------------------------------------------------------
(* Phases.                                                                 *)

\* startModules(), stop() and the main loop keep the generations in step.
LEMMA PhasesMain == ASSUME TypeOK, Phases, MainStep PROVE Phases'
<1> USE AgentAssumption DEF TypeOK, Phases, modVars
<1>1. CASE BootOk
  BY <1>1 DEF BootOk, NewRunSet, Gen
<1>2. CASE BootFails
  BY <1>2 DEF BootFails
<1>3. CASE Resume
  BY <1>3 DEF Resume, Take
<1>4. CASE ReloadFails
  BY <1>4 DEF ReloadFails, Take
<1>5. CASE ReloadPanics
  BY <1>5 DEF ReloadPanics, Take
<1>6. CASE ReloadBegins
  BY <1>6 DEF ReloadBegins, Take, NewRunSet, Gen
<1>7. CASE Shutdown
  BY <1>7 DEF Shutdown, Take
<1>8. ASSUME NEW t \in Task, StopTask(t) PROVE Phases'
  BY <1>8 DEF StopTask
<1>9. ASSUME NEW t \in Task, StartTask(t) PROVE Phases'
  BY <1>9 DEF StartTask
<1>10. CASE TasksStopped
  BY <1>10 DEF TasksStopped
<1>11. CASE TasksStarted
  BY <1>11 DEF TasksStarted
<1>12. CASE Assign
  BY <1>12 DEF Assign
<1>13. ASSUME NEW h \in Handler, StopListener(h) PROVE Phases'
  BY <1>13 DEF StopListener
<1>14. ASSUME NEW h \in Handler, StartListener(h) PROVE Phases'
  BY <1>14 DEF StartListener
<1>15. ASSUME NEW h \in Handler, StartListenerFails(h) PROVE Phases'
  BY <1>15 DEF StartListenerFails
<1>16. CASE ListenersStarted
  BY <1>16 DEF ListenersStarted
<1>17. CASE ListenersStopped
  BY <1>17 DEF ListenersStopped
<1> QED
  BY <1>1, <1>2, <1>3, <1>4, <1>5, <1>6, <1>7, <1>8, <1>9, <1>10, <1>11, <1>12,
     <1>13, <1>14, <1>15, <1>16, <1>17 DEF MainStep


----------------------------------------------------------------------------
(* What a step of the main goroutine leaves alone.                         *)

\* Only Start() and Stop() of a task touch its goroutine.
LEMMA TaskFrame ==
    MainStep => task' = task \/ \E t \in Task : StopTask(t) \/ StartTask(t)
  BY DEF MainStep, modVars, BootOk, BootFails, Resume, ReloadFails, ReloadPanics,
     ReloadBegins, NewRunSet, Shutdown, TasksStopped, TasksStarted, Assign,
     StopListener, StartListener, StartListenerFails, ListenersStarted, ListenersStopped

\* Only Start() and Stop() of a listener touch a socket.
LEMMA SockFrame ==
    MainStep => sock' = sock \/ \E h \in Handler : StopListener(h) \/ StartListener(h)
  BY DEF MainStep, modVars, BootOk, BootFails, Resume, ReloadFails, ReloadPanics,
     ReloadBegins, NewRunSet, Shutdown, StopTask, StartTask, TasksStopped, TasksStarted,
     Assign, StartListenerFails, ListenersStarted, ListenersStopped

\* The main goroutine takes from the signal channel and never sends to it.
LEMMA InputFrame ==
    MainStep => /\ UNCHANGED <<file, sent, stopper, conn>>
                /\ sigs' = sigs \/ sigs' = <<>>
  BY DEF MainStep, modVars, BootOk, BootFails, Resume, ReloadFails, ReloadPanics, ReloadBegins, NewRunSet,
     Shutdown, Take, StopTask, StartTask, TasksStopped, TasksStarted, Assign,
     StopListener, StartListener, StartListenerFails, ListenersStarted, ListenersStopped

----------------------------------------------------------------------------
(* Types, in groups that few actions touch together.                       *)

ModuleTypes ==
    /\ pc \in {"boot", "idle", "stopTasks", "stopListeners", "startTasks",
              "startListeners", "haltTasks", "haltListeners", "done", "exited"}
    /\ running \in {"stopped", "pending", "started"}
    /\ gen \in 0..MaxGen /\ cur \in 0..gen /\ run \in 0..cur
    /\ conf \in [Gen -> Config]
    /\ tmods \in [Gen -> SUBSET Task] /\ lmods \in [Gen -> SUBSET Handler]
    /\ todo \subseteq Task \union Handler
    /\ registered \in BOOLEAN

TaskTypes == task \in [Gen -> [Task -> {"none", "run", "stopping", "ended"}]]

SockTypes ==
    sock \in [Port -> {Free, Foreign} \union {Obj(g, h) : g \in Gen, h \in Handler}]

InputTypes ==
    /\ file \in Config
    /\ sigs \in Seq(Signal) /\ Len(sigs) <= 1
    /\ sent \in 0..MaxSignals
    /\ stopper \in {"none", "sending", "waiting", "returned"}

ConnTypes ==
    conn \in [Conn -> [st : ConnState, gen : 0..MaxGen,
                      own : Handler \union {NoPort}, run : 0..MaxGen]]

\* TypeOK is the conjunction of its groups.
LEMMA TypeGroups ==
    TypeOK <=> ModuleTypes /\ TaskTypes /\ SockTypes /\ InputTypes /\ ConnTypes
  BY DEF TypeOK, ModuleTypes, TaskTypes, SockTypes, InputTypes, ConnTypes

\* The types hold before NewAgent.
LEMMA TypesInit == Init => TypeOK
<1> SUFFICES ASSUME Init PROVE TypeOK
  OBVIOUS
<1> USE AgentAssumption DEF Init
<1>1. ModuleTypes
  <2>1. gen \in 0..MaxGen /\ cur \in 0..gen /\ run \in 0..cur
    OBVIOUS
  <2>2. /\ conf \in [Gen -> Config]
        /\ tmods \in [Gen -> SUBSET Task] /\ lmods \in [Gen -> SUBSET Handler]
    OBVIOUS
  <2>3. registered \in BOOLEAN
    OBVIOUS
  <2> QED BY <2>1, <2>2, <2>3 DEF ModuleTypes
<1>2. TaskTypes
  BY DEF TaskTypes
<1>3. SockTypes
  BY DEF SockTypes
<1>4. InputTypes
  BY DEF InputTypes
<1>5. ConnTypes
  BY DEF ConnTypes, NoConn, ConnState
<1> QED
  BY <1>1, <1>2, <1>3, <1>4, <1>5, TypeGroups

\* Types of the module sets under each action of the main goroutine.
LEMMA ModuleTypesMain ==
    ASSUME ModuleTypes, file \in Config, Phases, MainStep
    PROVE  ModuleTypes'
<1> USE AgentAssumption DEF ModuleTypes, Phases, modVars, Gen
<1>1. CASE BootOk
  <2>1. registered' \in BOOLEAN
    BY <1>1, Zenon DEF BootOk, NewRunSet
  <2>2. Bound(file) \subseteq Handler /\ Enabled[file] \subseteq Task
    BY DEF Bound
  <2>3. conf' \in [Gen -> Config]
    BY <1>1 DEF BootOk, NewRunSet
  <2>4. tmods' \in [Gen -> SUBSET Task]
    BY <1>1, <2>2 DEF BootOk, NewRunSet
  <2>5. lmods' \in [Gen -> SUBSET Handler]
    BY <1>1, <2>2 DEF BootOk, NewRunSet
  <2>6. gen' \in 0..MaxGen /\ cur' \in 0..gen' /\ run' \in 0..cur'
    BY <1>1 DEF BootOk, NewRunSet
  <2>7. /\ pc' \in {"startTasks", "stopTasks"} /\ running' \in {"pending", running}
        /\ todo' \in {Enabled[file], todo}
    BY <1>1 DEF BootOk
  <2> QED BY <2>1, <2>2, <2>3, <2>4, <2>5, <2>6, <2>7
<1>2. CASE BootFails
  BY <1>2 DEF BootFails
<1>3. CASE Resume
  BY <1>3 DEF Resume, Take
<1>4. CASE ReloadFails
  BY <1>4 DEF ReloadFails, Take
<1>5. CASE ReloadPanics
  BY <1>5 DEF ReloadPanics, Take
<1>6. CASE ReloadBegins
  <2>1. registered' \in BOOLEAN
    BY <1>6, Zenon DEF ReloadBegins, Take, NewRunSet
  <2>2. Bound(file) \subseteq Handler /\ Enabled[file] \subseteq Task
    BY DEF Bound
  <2>3. conf' \in [Gen -> Config]
    BY <1>6 DEF ReloadBegins, Take, NewRunSet
  <2>4. tmods' \in [Gen -> SUBSET Task]
    BY <1>6, <2>2 DEF ReloadBegins, Take, NewRunSet
  <2>5. lmods' \in [Gen -> SUBSET Handler]
    BY <1>6, <2>2 DEF ReloadBegins, Take, NewRunSet
  <2>6. gen' \in 0..MaxGen /\ cur' \in 0..gen' /\ run' \in 0..cur'
    BY <1>6 DEF ReloadBegins, Take, NewRunSet
  <2>7. /\ pc' \in {"startTasks", "stopTasks"} /\ running' \in {"pending", running}
        /\ todo' \in {Enabled[file], todo}
    BY <1>6 DEF ReloadBegins, Take
  <2> QED BY <2>1, <2>2, <2>3, <2>4, <2>5, <2>6, <2>7
<1>7. CASE Shutdown
  BY <1>7 DEF Shutdown, Take
<1>8. ASSUME NEW t \in Task, StopTask(t) PROVE ModuleTypes'
  BY <1>8 DEF StopTask
<1>9. ASSUME NEW t \in Task, StartTask(t) PROVE ModuleTypes'
  BY <1>9 DEF StartTask
<1>10. CASE TasksStopped
  BY <1>10 DEF TasksStopped
<1>11. CASE TasksStarted
  BY <1>11 DEF TasksStarted
<1>12. CASE Assign
  BY <1>12 DEF Assign
<1>13. ASSUME NEW h \in Handler, StopListener(h) PROVE ModuleTypes'
  BY <1>13 DEF StopListener
<1>14. ASSUME NEW h \in Handler, StartListener(h) PROVE ModuleTypes'
  BY <1>14 DEF StartListener
<1>15. ASSUME NEW h \in Handler, StartListenerFails(h) PROVE ModuleTypes'
  <2>1. CASE cur = 1
    BY <1>15, <2>1 DEF StartListenerFails
  <2>2. CASE cur # 1
    <3>1. /\ pc' = pc /\ todo' = todo \ {h}
          /\ lmods' = [lmods EXCEPT ![cur] = @ \ {h}]
          /\ UNCHANGED <<running, gen, conf, cur, run, tmods, registered>>
      BY <1>15, <2>2 DEF StartListenerFails
    <3>2. lmods' \in [Gen -> SUBSET Handler]
      BY <3>1
    <3> QED BY <3>1, <3>2
  <2> QED BY <2>1, <2>2
<1>16. CASE ListenersStarted
  BY <1>16 DEF ListenersStarted
<1>17. CASE ListenersStopped
  BY <1>17 DEF ListenersStopped
<1> QED
  BY <1>1, <1>2, <1>3, <1>4, <1>5, <1>6, <1>7, <1>8, <1>9, <1>10, <1>11, <1>12,
     <1>13, <1>14, <1>15, <1>16, <1>17 DEF MainStep

\* Types of the task goroutines.
LEMMA TaskTypesMain == ASSUME TaskTypes, cur \in Gen, MainStep PROVE TaskTypes'
<1>1. ASSUME NEW t \in Task, StopTask(t) PROVE TaskTypes'
  BY <1>1 DEF StopTask, TaskTypes
<1>2. ASSUME NEW t \in Task, StartTask(t) PROVE TaskTypes'
  BY <1>2 DEF StartTask, TaskTypes
<1> QED
  BY <1>1, <1>2, TaskFrame DEF TaskTypes

----------------------------------------------------------------------------
(* The object a handler shares.                                            *)

\* Every non-empty set of natural numbers has a least element.
LEMMA LeastNat ==
    ASSUME NEW T, T \subseteq Nat, T # {}
    PROVE  \E x \in T : \A y \in T : x <= y
<1> DEFINE Less == OpToRel(<, Nat)
<1>1. \A x, y \in Nat : x < y => <<x, y>> \in Less
  BY DEF OpToRel
<1>2. IsWellFoundedOn(Less, Nat)
  BY NatLessThanWellFounded
<1> HIDE DEF Less
<1>3. PICK x \in T : \A y \in T : ~ (<<y, x>> \in Less)
  BY <1>2, WFMin
<1>4. \A y \in T : ~(y < x)
  BY <1>1, <1>3
<1> QED BY <1>4

\* The lookup of SharedWebListener finds a handler of the same bind string.
LEMMA OwnerFacts ==
    ASSUME NEW c \in Config, NEW h \in Bound(c)
    PROVE  /\ Owner(c, h) \in Bound(c)
           /\ Bind[c][Owner(c, h)] = Bind[c][h]
           /\ h \in Tcp => Owner(c, h) = h
<1>1. CASE h \in Tcp
  BY <1>1 DEF Owner
<1>2. CASE h \notin Tcp
  <2> DEFINE Same == {k \in Bound(c) : Bind[c][k] = Bind[c][h]}
             First(k) == /\ Bind[c][k] = Bind[c][h]
                         /\ \A j \in Bound(c) :
                               Bind[c][j] = Bind[c][h] => Rank[k] <= Rank[j]
  <2>1. {Rank[k] : k \in Same} \subseteq Nat /\ Rank[h] \in {Rank[k] : k \in Same}
    BY AgentAssumption DEF Bound
  <2>2. PICK x \in {Rank[k] : k \in Same} : \A y \in {Rank[k] : k \in Same} : x <= y
    BY <2>1, LeastNat
  <2>3. PICK k \in Same : Rank[k] = x
    BY <2>2
  <2>4. First(k)
    BY <2>2, <2>3
  <2>5. Owner(c, h) = CHOOSE j \in Bound(c) : First(j)
    BY <1>2 DEF Owner
  <2> HIDE DEF First
  <2>6. Owner(c, h) \in Bound(c) /\ First(Owner(c, h))
    BY <2>3, <2>4, <2>5
  <2> QED BY <1>2, <2>6 DEF First
<1> QED BY <1>1, <1>2

----------------------------------------------------------------------------
(* Module sets.                                                            *)

\* What the module sets hold at which place of the main goroutine.
ModulesFit ==
    /\ \A g \in 1..gen : lmods[g] \subseteq Bound(conf[g])
    /\ pc = "startTasks" => todo \subseteq tmods[cur]
    /\ pc = "startListeners" => todo \subseteq lmods[cur]
    /\ pc \in {"stopListeners", "haltListeners", "done"} => tmods[cur] = {}
    /\ pc = "done" => lmods[cur] = {}
    /\ pc \in {"idle", "startTasks", "startListeners", "stopTasks", "stopListeners"}
          => tmods[gen] = Enabled[conf[gen]]
    /\ pc \in {"startTasks", "stopTasks", "stopListeners"}
          => lmods[gen] = Bound(conf[gen])

\* StopRemove(), startModule() and the assignments of startModules() leave the
\* module sets as ModulesFit says.
LEMMA ModulesFitMain ==
    ASSUME ModuleTypes, file \in Config, Phases, ModulesFit, MainStep
    PROVE  ModulesFit'
<1> USE AgentAssumption DEF ModuleTypes, Phases, ModulesFit, modVars, Gen
<1>1. CASE BootOk
  BY <1>1 DEF BootOk, NewRunSet
<1>2. CASE BootFails
  BY <1>2 DEF BootFails
<1>3. CASE Resume
  BY <1>3 DEF Resume, Take
<1>4. CASE ReloadFails
  BY <1>4 DEF ReloadFails, Take
<1>5. CASE ReloadPanics
  BY <1>5 DEF ReloadPanics, Take
<1>6. CASE ReloadBegins
  BY <1>6 DEF ReloadBegins, Take, NewRunSet
<1>7. CASE Shutdown
  BY <1>7 DEF Shutdown, Take
<1>8. ASSUME NEW t \in Task, StopTask(t) PROVE ModulesFit'
  BY <1>8 DEF StopTask
<1>9. ASSUME NEW t \in Task, StartTask(t) PROVE ModulesFit'
  BY <1>9 DEF StartTask
<1>10. CASE TasksStopped
  BY <1>10 DEF TasksStopped
<1>11. CASE TasksStarted
  BY <1>11 DEF TasksStarted
<1>12. CASE Assign
  BY <1>12 DEF Assign
<1>13. ASSUME NEW h \in Handler, StopListener(h) PROVE ModulesFit'
  BY <1>13 DEF StopListener
<1>14. ASSUME NEW h \in Handler, StartListener(h) PROVE ModulesFit'
  BY <1>14 DEF StartListener
<1>15. ASSUME NEW h \in Handler, StartListenerFails(h) PROVE ModulesFit'
  <2>1. CASE cur = 1
    BY <1>15, <2>1 DEF StartListenerFails
  <2>2. CASE cur # 1
    <3>1. /\ pc = "startListeners" /\ pc' = pc /\ todo' = todo \ {h}
          /\ lmods' = [lmods EXCEPT ![cur] = @ \ {h}]
          /\ UNCHANGED <<running, gen, conf, cur, run, tmods, registered>>
      BY <1>15, <2>2 DEF StartListenerFails
    <3>2. \A g \in 1..gen : lmods'[g] \subseteq lmods[g]
      BY <3>1
    <3>3. todo' \subseteq lmods'[cur]
      BY <3>1
    <3>4. Bound(conf[cur])' = Bound(conf[cur]) /\ \A g \in 1..gen : Bound(conf'[g]) = Bound(conf[g])
      BY <3>1 DEF Bound
    <3> QED BY <3>1, <3>2, <3>3, <3>4
  <2> QED BY <2>1, <2>2
<1>16. CASE ListenersStarted
  BY <1>16 DEF ListenersStarted
<1>17. CASE ListenersStopped
  BY <1>17 DEF ListenersStopped
<1> QED
  BY <1>1, <1>2, <1>3, <1>4, <1>5, <1>6, <1>7, <1>8, <1>9, <1>10, <1>11, <1>12,
     <1>13, <1>14, <1>15, <1>16, <1>17 DEF MainStep

\* A socket is of an existing generation and handler: the owner that the lookup
\* of SharedWebListener finds is a handler.
LEMMA SockTypesMain ==
    ASSUME SockTypes, ModuleTypes, Phases, ModulesFit, MainStep
    PROVE  SockTypes'
<1>1. ASSUME NEW h \in Handler, StopListener(h) PROVE SockTypes'
  <2>1. sock' = sock \/ sock' = [sock EXCEPT ![Bind[conf[cur]][h]] = Free]
    BY <1>1 DEF StopListener
  <2> QED BY <2>1 DEF SockTypes
<1>2. ASSUME NEW h \in Handler, StartListener(h) PROVE SockTypes'
  <2>1. cur \in 1..gen /\ cur \in Gen /\ conf[cur] \in Config /\ h \in Bound(conf[cur])
    BY <1>2 DEF StartListener, ModuleTypes, Phases, ModulesFit, Gen
  <2>2. Owner(conf[cur], h) \in Handler
    BY <2>1, OwnerFacts DEF Bound
  <2>3. Listen(cur, h) \in {Obj(g, k) : g \in Gen, k \in Handler}
    BY <2>1, <2>2 DEF Listen
  <2>4. sock' = [sock EXCEPT ![Bind[conf[cur]][h]] = Listen(cur, h)]
    BY <1>2 DEF StartListener
  <2> DEFINE Who == {Free, Foreign} \union {Obj(g, k) : g \in Gen, k \in Handler}
  <2>5. Listen(cur, h) \in Who /\ sock \in [Port -> Who]
    BY <2>3 DEF SockTypes
  <2> HIDE DEF Who
  <2>6. sock' \in [Port -> Who]
    BY <2>4, <2>5
  <2> QED BY <2>6 DEF SockTypes, Who
<1> QED
  BY <1>1, <1>2, SockFrame DEF SockTypes

----------------------------------------------------------------------------
(* Tasks.                                                                  *)

\* Only modules of the current task set run, and each of them does as soon as
\* ModuleSet.Start has visited it.
TasksFit ==
    /\ \A g \in Gen, t \in Task :
          task[g][t] = "run" => g = cur /\ t \in tmods[cur]
    /\ pc \in {"startTasks", "startListeners", "idle"} =>
          \A t \in tmods[cur] : task[cur][t] = "run" \/ (pc = "startTasks" /\ t \in todo)

\* Stop() comes with the removal from the set, Start() only for its members.
LEMMA TasksFitMain ==
    ASSUME ModuleTypes, TaskTypes, Phases, ModulesFit, TasksFit, MainStep
    PROVE  TasksFit'
<1> USE AgentAssumption DEF ModuleTypes, Phases, ModulesFit, TaskTypes, TasksFit, modVars, Gen
<1>1. CASE BootOk
  BY <1>1 DEF BootOk, NewRunSet
<1>2. CASE BootFails
  BY <1>2 DEF BootFails
<1>3. CASE Resume
  BY <1>3 DEF Resume, Take
<1>4. CASE ReloadFails
  BY <1>4 DEF ReloadFails, Take
<1>5. CASE ReloadPanics
  BY <1>5 DEF ReloadPanics, Take
<1>6. CASE ReloadBegins
  BY <1>6 DEF ReloadBegins, Take, NewRunSet
<1>7. CASE Shutdown
  BY <1>7 DEF Shutdown, Take
<1>8. ASSUME NEW t \in Task, StopTask(t) PROVE TasksFit'
  BY <1>8 DEF StopTask
<1>9. ASSUME NEW t \in Task, StartTask(t) PROVE TasksFit'
  BY <1>9 DEF StartTask
<1>10. CASE TasksStopped
  BY <1>10 DEF TasksStopped
<1>11. CASE TasksStarted
  BY <1>11 DEF TasksStarted
<1>12. CASE Assign
  BY <1>12 DEF Assign
<1>13. ASSUME NEW h \in Handler, StopListener(h) PROVE TasksFit'
  BY <1>13 DEF StopListener
<1>14. ASSUME NEW h \in Handler, StartListener(h) PROVE TasksFit'
  BY <1>14 DEF StartListener
<1>15. ASSUME NEW h \in Handler, StartListenerFails(h) PROVE TasksFit'
  BY <1>15 DEF StartListenerFails
<1>16. CASE ListenersStarted
  BY <1>16 DEF ListenersStarted
<1>17. CASE ListenersStopped
  BY <1>17 DEF ListenersStopped
<1> QED
  BY <1>1, <1>2, <1>3, <1>4, <1>5, <1>6, <1>7, <1>8, <1>9, <1>10, <1>11, <1>12,
     <1>13, <1>14, <1>15, <1>16, <1>17 DEF MainStep

----------------------------------------------------------------------------
(* Sockets.                                                                *)

\* Every port the agent holds is held for a module of the current set.
Held(p) ==
    \E h \in lmods[cur] : Bind[conf[cur]][h] = p /\ sock[p] = Listen(cur, h)

SocketsFit ==
    /\ pc \in {"boot", "done"} => \A p \in Port : sock[p].by # "agent"
    /\ pc \notin {"boot", "done", "exited"} =>
          \A p \in Port : sock[p].by = "agent" => Held(p)
    /\ \A p \in Port : sock[p] = Foreign => p \in ForeignPort

\* Steps that neither move a socket nor remove a listener.
LEMMA SocketsQuiet ==
    ASSUME ModuleTypes, Phases, ModulesFit, SocketsFit, MainStep, sock' = sock,
           \A h \in Handler : ~StartListenerFails(h) /\ ~StopListener(h)
    PROVE  SocketsFit'
<1> USE AgentAssumption DEF ModuleTypes, Phases, ModulesFit, SocketsFit, modVars, Gen
<1>1. CASE BootOk
  BY <1>1 DEF BootOk, NewRunSet
<1>2. CASE BootFails \/ ReloadPanics
  BY <1>2 DEF BootFails, ReloadPanics
<1>3. CASE Assign
  <2>1. \A p \in Port : ~Held(p)
    BY <1>3 DEF Assign, Held
  <2> QED BY <1>3, <2>1 DEF Assign
<1>4. CASE ListenersStopped
  <2>1. \A p \in Port : ~Held(p)
    BY <1>4 DEF ListenersStopped, Held
  <2> QED BY <1>4, <2>1 DEF ListenersStopped
<1>5. CASE ReloadBegins
  <2>1. /\ cur' = cur /\ lmods'[cur] = lmods[cur] /\ conf'[cur] = conf[cur]
        /\ pc = "idle" /\ pc' = "stopTasks"
    BY <1>5 DEF ReloadBegins, NewRunSet, Take
  <2>2. \A p \in Port : Held(p) => Held(p)'
    BY <2>1 DEF Held, Listen
  <2> QED BY <2>1, <2>2
<1>6. CASE ~(BootOk \/ BootFails \/ ReloadPanics \/ Assign \/ ListenersStopped \/ ReloadBegins)
  <2>1. /\ UNCHANGED <<cur, lmods, conf>>
        /\ pc \notin {"boot", "done", "exited"}
        /\ pc' \notin {"boot", "done", "exited"}
    BY <1>6 DEF MainStep, Resume, ReloadFails, Shutdown, Take, StopTask, StartTask,
       TasksStopped, TasksStarted, StartListener, ListenersStarted
  <2>2. \A p \in Port : Held(p)' <=> Held(p)
    BY <2>1 DEF Held, Listen
  <2> QED BY <2>1, <2>2
<1> QED
  BY <1>1, <1>2, <1>3, <1>4, <1>5, <1>6

\* A listener leaves the set only with its socket, and a socket that its
\* object does not hold belongs to another module.
LEMMA SocketsStop ==
    ASSUME ModuleTypes, SockTypes, Phases, ModulesFit, SocketsFit,
           NEW h \in Handler, StopListener(h)
    PROVE  SocketsFit'
<1>1. /\ pc \in {"stopListeners", "haltListeners"} /\ pc' = pc
      /\ cur \in Gen /\ h \in lmods[cur]
      /\ lmods' = [lmods EXCEPT ![cur] = @ \ {h}]
      /\ UNCHANGED <<conf, cur>>
      /\ sock' = IF IsOpen(cur, h)
                 THEN [sock EXCEPT ![Bind[conf[cur]][h]] = Free] ELSE sock
  BY AgentAssumption DEF StopListener, Phases, ModuleTypes, Gen
<1>2. lmods'[cur] = lmods[cur] \ {h}
  BY <1>1 DEF ModuleTypes
<1>3. ASSUME NEW p \in Port, sock'[p].by = "agent" PROVE Held(p)'
  <2>1. sock'[p] = sock[p] /\ ~(Bind[conf[cur]][h] = p /\ IsOpen(cur, h))
    BY <1>1, <1>3 DEF SockTypes, Free
  <2>2. PICK k \in lmods[cur] : Bind[conf[cur]][k] = p /\ sock[p] = Listen(cur, k)
    BY <1>1, <1>3, <2>1 DEF SocketsFit, Held
  <2>3. k # h
    BY <2>1, <2>2 DEF IsOpen
  <2> QED BY <1>1, <1>2, <2>1, <2>2, <2>3 DEF Held, Listen
<1>4. \A p \in Port : sock'[p] = Foreign => sock[p] = Foreign
  BY <1>1 DEF SockTypes, Free, Foreign
<1> QED
  BY <1>1, <1>3, <1>4 DEF SocketsFit

\* A module that cannot bind never held the socket it leaves behind.
LEMMA SocketsDrop ==
    ASSUME ModuleTypes, SockTypes, Phases, ModulesFit, SocketsFit,
           NEW h \in Handler, StartListenerFails(h)
    PROVE  SocketsFit'
<1>1. CASE cur = 1
  BY <1>1 DEF StartListenerFails, SocketsFit
<1>2. CASE cur # 1
  <2>1. /\ pc = "startListeners" /\ pc' = pc /\ cur \in Gen
        /\ lmods' = [lmods EXCEPT ![cur] = @ \ {h}]
        /\ ~IsOpen(cur, h) /\ UNCHANGED <<conf, cur, sock>>
    BY <1>2 DEF StartListenerFails, Phases, ModuleTypes, Gen
  <2>2. lmods'[cur] = lmods[cur] \ {h}
    BY <2>1 DEF ModuleTypes
  <2>3. ASSUME NEW p \in Port, sock[p].by = "agent" PROVE Held(p)'
    <3>1. PICK k \in lmods[cur] : Bind[conf[cur]][k] = p /\ sock[p] = Listen(cur, k)
      BY <2>1, <2>3 DEF SocketsFit, Held
    <3>2. k # h
      BY <2>1, <3>1 DEF IsOpen
    <3> QED BY <2>1, <2>2, <3>1, <3>2 DEF Held, Listen
  <2> QED BY <2>1, <2>3 DEF SocketsFit
<1> QED BY <1>1, <1>2

\* A bound socket belongs to the module that Start() was called for.
LEMMA SocketsStart ==
    ASSUME ModuleTypes, SockTypes, Phases, ModulesFit, SocketsFit,
           NEW h \in Handler, StartListener(h)
    PROVE  SocketsFit'
<1>1. /\ pc = "startListeners" /\ pc' = pc /\ h \in lmods[cur]
      /\ UNCHANGED <<conf, cur, lmods>>
      /\ sock' = [sock EXCEPT ![Bind[conf[cur]][h]] = Listen(cur, h)]
  BY DEF StartListener, ModulesFit
<1>2. ASSUME NEW p \in Port, sock'[p].by = "agent" PROVE Held(p)'
  <2>1. CASE p = Bind[conf[cur]][h]
    BY <1>1, <2>1 DEF SockTypes, Held, Listen
  <2>2. CASE p # Bind[conf[cur]][h]
    <3>1. sock'[p] = sock[p]
      BY <1>1, <2>2 DEF SockTypes
    <3>2. Held(p)
      BY <1>1, <1>2, <3>1 DEF SocketsFit
    <3> QED BY <1>1, <3>1, <3>2 DEF Held, Listen
  <2> QED BY <2>1, <2>2
<1>3. \A p \in Port : sock'[p] = Foreign => sock[p] = Foreign
  BY <1>1 DEF SockTypes, Foreign, Listen, Obj
<1> QED
  BY <1>1, <1>2, <1>3 DEF SocketsFit

\* The three cases together.
LEMMA SocketsFitMain ==
    ASSUME ModuleTypes, SockTypes, Phases, ModulesFit, SocketsFit, MainStep
    PROVE  SocketsFit'
<1>1. CASE \E h \in Handler : StopListener(h) \/ StartListener(h) \/ StartListenerFails(h)
  BY <1>1, SocketsStop, SocketsStart, SocketsDrop
<1>2. CASE ~\E h \in Handler : StopListener(h) \/ StartListener(h) \/ StartListenerFails(h)
  BY <1>2, SocketsQuiet, SockFrame
<1> QED BY <1>1, <1>2

----------------------------------------------------------------------------
(* Listeners that serve.                                                   *)

\* Why a handler of the configuration may have no module.
Dropped(h) ==
    \/ Bind[conf[cur]][h] \in ForeignPort
    \/ \E k \in Bound(conf[cur]) :
          /\ Bind[conf[cur]][k] = Bind[conf[cur]][h]
          /\ Owner(conf[cur], k) # Owner(conf[cur], h)

ListenersServe ==
    pc \in {"startListeners", "idle"} =>
        /\ \A h \in lmods[cur] :
              IsOpen(cur, h) \/ (pc = "startListeners" /\ h \in todo)
        /\ \A h \in Bound(conf[cur]) \ lmods[cur] : Dropped(h)

\* They depend on the configuration in use only.
LEMMA StaticFrame ==
    ASSUME UNCHANGED <<conf, cur>>
    PROVE  /\ Bound(conf[cur])' = Bound(conf[cur])
           /\ \A h \in Handler : Dropped(h)' <=> Dropped(h)
           /\ \A h \in Handler : Listen(cur, h)' = Listen(cur, h)
           /\ UNCHANGED sock => \A h \in Handler : IsOpen(cur, h)' <=> IsOpen(cur, h)
  BY DEF Dropped, Bound, Owner, Listen, IsOpen

\* Two modules of one set that are open on one port use one object.
LEMMA OpenStays ==
    ASSUME ModuleTypes, SockTypes, Phases, ModulesFit,
           NEW h \in Handler, StartListener(h), NEW k \in lmods[cur], IsOpen(cur, k)
    PROVE  IsOpen(cur, k)'
<1>1. /\ UNCHANGED <<conf, cur>> /\ k \in Bound(conf[cur])
      /\ IsOpen(cur, h) \/ sock[Bind[conf[cur]][h]] = Free
      /\ sock' = [sock EXCEPT ![Bind[conf[cur]][h]] = Listen(cur, h)]
      /\ Bind[conf[cur]][k] \in Port
  BY AgentAssumption DEF StartListener, ModulesFit, Phases, ModuleTypes, Bound, Gen
<1>2. Listen(cur, k)' = Listen(cur, k)
  BY <1>1 DEF Listen
<1>3. CASE Bind[conf[cur]][k] = Bind[conf[cur]][h]
  <2>1. sock[Bind[conf[cur]][h]] = Listen(cur, k)
    BY <1>3 DEF IsOpen
  <2>2. Listen(cur, k) # Free
    BY DEF Listen, Obj, Free
  <2>3. Listen(cur, h) = Listen(cur, k)
    BY <1>1, <2>1, <2>2 DEF IsOpen
  <2> QED BY <1>1, <1>2, <1>3, <2>3 DEF SockTypes, IsOpen
<1>4. CASE Bind[conf[cur]][k] # Bind[conf[cur]][h]
  BY <1>1, <1>2, <1>4 DEF SockTypes, IsOpen
<1> QED BY <1>3, <1>4

\* Start() of one module opens its port and closes none.
LEMMA ServeStart ==
    ASSUME ModuleTypes, SockTypes, Phases, ModulesFit, ListenersServe,
           NEW h \in Handler, StartListener(h)
    PROVE  ListenersServe'
<1>1. /\ pc = "startListeners" /\ pc' = pc /\ todo' = todo \ {h}
      /\ UNCHANGED <<conf, cur, lmods>>
      /\ sock' = [sock EXCEPT ![Bind[conf[cur]][h]] = Listen(cur, h)]
      /\ h \in lmods[cur] /\ Bind[conf[cur]][h] \in Port
  BY AgentAssumption DEF StartListener, ModulesFit, Phases, ModuleTypes, Bound, Gen
<1>2. IsOpen(cur, h)'
  BY <1>1 DEF IsOpen, Listen, SockTypes
<1>3. \A k \in lmods[cur] : IsOpen(cur, k) => IsOpen(cur, k)'
  BY OpenStays
<1>4. \A k \in lmods'[cur'] : IsOpen(cur, k)' \/ (pc' = "startListeners" /\ k \in todo')
  BY <1>1, <1>2, <1>3 DEF ListenersServe
<1>5. \A k \in Bound(conf[cur])' \ lmods'[cur'] : Dropped(k)'
  BY <1>1, StaticFrame DEF ListenersServe, Bound
<1> QED
  BY <1>1, <1>4, <1>5 DEF ListenersServe

\* The bind of a module fails because of another process or another object.
LEMMA ServeDrop ==
    ASSUME ModuleTypes, SockTypes, Phases, ModulesFit, SocketsFit, ListenersServe,
           NEW h \in Handler, StartListenerFails(h)
    PROVE  ListenersServe'
<1>1. CASE cur = 1
  BY <1>1 DEF StartListenerFails, ListenersServe
<1>2. CASE cur # 1
  <2>1. /\ pc = "startListeners" /\ pc' = pc /\ todo' = todo \ {h}
        /\ lmods' = [lmods EXCEPT ![cur] = @ \ {h}]
        /\ ~IsOpen(cur, h) /\ sock[Bind[conf[cur]][h]] # Free
        /\ h \in lmods[cur] /\ UNCHANGED <<conf, cur, sock>>
        /\ lmods[cur] \subseteq Bound(conf[cur]) /\ Bind[conf[cur]][h] \in Port
        /\ cur \in Gen
    BY <1>2, AgentAssumption DEF StartListenerFails, ModulesFit, Phases, ModuleTypes, Bound, Gen
  <2>2. lmods'[cur] = lmods[cur] \ {h}
    BY <2>1 DEF ModuleTypes
  <2>3. Dropped(h)
    <3>1. CASE sock[Bind[conf[cur]][h]] = Foreign
      BY <2>1, <3>1 DEF SocketsFit, Dropped
    <3>2. CASE sock[Bind[conf[cur]][h]] # Foreign
      <4>1. sock[Bind[conf[cur]][h]].by = "agent"
        BY <2>1, <3>2 DEF SockTypes, Obj
      <4>2. PICK k \in lmods[cur] : /\ Bind[conf[cur]][k] = Bind[conf[cur]][h]
                                    /\ sock[Bind[conf[cur]][h]] = Listen(cur, k)
        BY <2>1, <4>1 DEF SocketsFit, Held
      <4>3. Owner(conf[cur], k) # Owner(conf[cur], h)
        BY <2>1, <4>2 DEF IsOpen, Listen
      <4> QED BY <2>1, <4>2, <4>3 DEF Dropped
    <3> QED BY <3>1, <3>2
  <2>4. \A k \in Handler : Dropped(k)' <=> Dropped(k)
    BY <2>1 DEF Dropped, Bound, Owner
  <2>5. \A k \in Handler : IsOpen(cur, k)' <=> IsOpen(cur, k)
    BY <2>1 DEF IsOpen, Listen
  <2>6. Bound(conf[cur])' = Bound(conf[cur]) /\ Bound(conf[cur]) \subseteq Handler
    BY <2>1 DEF Bound
  <2>7. \A k \in lmods'[cur'] : IsOpen(cur, k)' \/ (pc' = "startListeners" /\ k \in todo')
    BY <2>1, <2>2, <2>5, <2>6 DEF ListenersServe
  <2>8. \A k \in Bound(conf[cur])' \ lmods'[cur'] : Dropped(k)'
    BY <2>1, <2>2, <2>3, <2>4, <2>6 DEF ListenersServe
  <2> QED BY <2>1, <2>7, <2>8 DEF ListenersServe
<1> QED BY <1>1, <1>2

\* From the first Start() to the next reload every visited module is served.
LEMMA ListenersServeMain ==
    ASSUME ModuleTypes, SockTypes, Phases, ModulesFit, SocketsFit, ListenersServe, MainStep
    PROVE  ListenersServe'
<1>1. CASE \E h \in Handler : StartListener(h) \/ StartListenerFails(h)
  BY <1>1, ServeStart, ServeDrop
<1>2. CASE pc' \notin {"startListeners", "idle"}
  BY <1>2 DEF ListenersServe
<1>3. CASE TasksStarted
  <2>1. /\ pc = "startTasks" /\ todo' = lmods[cur] /\ pc' = "startListeners"
        /\ UNCHANGED <<conf, cur, lmods>>
    BY <1>3 DEF TasksStarted
  <2>2. Bound(conf[cur])' = lmods'[cur']
    BY <2>1 DEF ModulesFit, Phases, Bound
  <2> QED BY <2>1, <2>2 DEF ListenersServe
<1>4. CASE ListenersStarted
  <2>1. /\ pc = "startListeners" /\ todo = {} /\ pc' = "idle"
        /\ UNCHANGED <<conf, cur, lmods, sock>>
    BY <1>4 DEF ListenersStarted
  <2>2. \A h \in Bound(conf[cur]) \union lmods[cur] : h \in Handler
    BY <2>1, AgentAssumption DEF ModuleTypes, Phases, Bound, Gen
  <2> QED BY <2>1, <2>2, StaticFrame DEF ListenersServe
<1>5. CASE Resume \/ ReloadFails
  <2>1. pc = "idle" /\ pc' = pc /\ UNCHANGED <<conf, cur, lmods, sock, todo>>
    BY <1>5 DEF Resume, ReloadFails, Take, modVars
  <2>2. \A h \in Bound(conf[cur]) \union lmods[cur] : h \in Handler
    BY <2>1, AgentAssumption DEF ModuleTypes, Phases, Bound, Gen
  <2> QED BY <2>1, <2>2, StaticFrame DEF ListenersServe
<1>6. CASE ~(Resume \/ ReloadFails \/ ListenersStarted \/ TasksStarted
             \/ \E h \in Handler : StartListener(h) \/ StartListenerFails(h))
  <2>1. pc' \notin {"startListeners", "idle"}
    BY <1>6 DEF MainStep, BootOk, BootFails, ReloadPanics, ReloadBegins, Shutdown,
       StopTask, StartTask, TasksStopped, Assign, StopListener, ListenersStopped
  <2> QED BY <1>2, <2>1
<1> QED BY <1>1, <1>3, <1>4, <1>5, <1>6

----------------------------------------------------------------------------
(* Connections.                                                            *)

\* A connection was accepted by the present generation or an earlier one, and
\* its request met the run set of that generation, the one before, or a later.
ConnFit ==
    \A c \in Conn :
        /\ conn[c].st # "none" => conn[c].gen <= cur
        /\ conn[c].st \in {"busy", "sending"} => conn[c].run >= conn[c].gen - 1

\* Generations are put in place in order.
LEMMA CurGrows == ASSUME ModuleTypes, Phases, MainStep PROVE cur' >= cur
<1>1. CASE BootOk \/ Assign
  BY <1>1 DEF BootOk, Assign, NewRunSet, ModuleTypes, Phases
<1>2. CASE ~(BootOk \/ Assign)
  <2>1. cur' = cur
    BY <1>2 DEF MainStep, modVars, BootFails, Resume, ReloadFails, ReloadPanics,
       ReloadBegins, NewRunSet, Shutdown, StopTask, StartTask, TasksStopped, TasksStarted,
       StopListener, StartListener, StartListenerFails, ListenersStarted, ListenersStopped
  <2> QED BY <2>1 DEF ModuleTypes
<1> QED BY <1>1, <1>2

\* A reload makes the connections older, never younger.
LEMMA ConnFitMain ==
    ASSUME ModuleTypes, ConnTypes, Phases, ConnFit, MainStep
    PROVE  ConnFit'
<1>1. conn' = conn /\ cur' >= cur
  BY InputFrame, CurGrows
<1>2. cur \in Int /\ \A c \in Conn : conn[c].gen \in Int
  BY AgentAssumption DEF ModuleTypes, ConnTypes
<1>3. cur' \in Int
  BY AgentAssumption DEF MainStep, modVars, BootOk, BootFails, Resume, ReloadFails,
     ReloadPanics, ReloadBegins, NewRunSet, Shutdown, StopTask, StartTask, TasksStopped,
     TasksStarted, Assign, StopListener, StartListener, StartListenerFails,
     ListenersStarted, ListenersStopped, ModuleTypes
<1> QED BY <1>1, <1>2, <1>3 DEF ConnFit

\* A connection that changes its state, and perhaps its run set, only.
LEMMA ConnMoves ==
    ASSUME ConnTypes, NEW c \in Conn, NEW s \in ConnState
    PROVE  /\ conn' = [conn EXCEPT ![c].st = s] =>
                /\ ConnTypes'
                /\ conn'[c].st = s /\ conn'[c].gen = conn[c].gen /\ conn'[c].run = conn[c].run
                /\ \A d \in Conn \ {c} : conn'[d] = conn[d]
           /\ \A r \in 0..MaxGen : conn' = [conn EXCEPT ![c].st = s, ![c].run = r] =>
                /\ ConnTypes'
                /\ conn'[c].st = s /\ conn'[c].gen = conn[c].gen /\ conn'[c].run = r
                /\ \A d \in Conn \ {c} : conn'[d] = conn[d]
<1>1. CASE conn' = [conn EXCEPT ![c].st = s]
  BY <1>1 DEF ConnTypes
<1>2. ASSUME NEW r \in 0..MaxGen, conn' = [conn EXCEPT ![c].st = s, ![c].run = r]
      PROVE  /\ ConnTypes'
             /\ conn'[c].st = s /\ conn'[c].gen = conn[c].gen /\ conn'[c].run = r
             /\ \A d \in Conn \ {c} : conn'[d] = conn[d]
  <2> DEFINE mid == [conn EXCEPT ![c].st = s]
  <2>1. conn' = [mid EXCEPT ![c].run = r]
    BY <1>2
  <2>2. /\ mid \in [Conn -> [st : ConnState, gen : 0..MaxGen,
                             own : Handler \union {NoPort}, run : 0..MaxGen]]
        /\ mid[c].st = s /\ mid[c].gen = conn[c].gen
        /\ \A d \in Conn \ {c} : mid[d] = conn[d]
    BY DEF ConnTypes
  <2> HIDE DEF mid
  <2> QED BY <2>1, <2>2 DEF ConnTypes
<1> QED BY <1>1, <1>2

\* What the goroutine of a connection does, action by action.
LEMMA ConnSide ==
    ASSUME ModuleTypes, SockTypes, ConnTypes, Phases, SocketsFit, ConnFit,
           NEW c \in Conn, ClientStep(c)
    PROVE  ConnTypes' /\ ConnFit'
<1> USE AgentAssumption DEF ModuleTypes, SockTypes, ConnTypes, ConnState, ConnFit, connOnly, modVars
<1>1. ASSUME NEW p \in Port, Accept(c, p) PROVE ConnTypes' /\ ConnFit'
  <2>1. PICK h \in Handler : cur \in Gen /\ sock[p] = Obj(cur, h)
    <3>1. pc \notin {"boot", "done", "exited"} /\ sock[p].by = "agent"
      BY <1>1 DEF Accept, Alive
    <3>2. PICK k \in lmods[cur] : sock[p] = Listen(cur, k)
      BY <3>1 DEF SocketsFit, Held
    <3>3. sock[p] = Obj(cur, Owner(conf[cur], k)) /\ cur \in Gen
      BY <3>1, <3>2 DEF Listen, Phases, Gen
    <3>4. sock[p] # Free /\ sock[p] # Foreign
      BY <3>1 DEF Free, Foreign
    <3>5. PICK g \in Gen, h \in Handler : sock[p] = Obj(g, h)
      BY <3>4
    <3>6. g = cur
      BY <3>3, <3>5 DEF Obj
    <3> QED BY <3>3, <3>5, <3>6
  <2>2. /\ UNCHANGED cur
        /\ conn' = [conn EXCEPT ![c] = [st |-> "open", gen |-> cur, own |-> h, run |-> 0]]
    BY <1>1, <2>1 DEF Accept, Obj
  <2> QED BY <2>1, <2>2 DEF Gen
<1>2. CASE Request(c)
  <2>1. /\ UNCHANGED cur /\ conn[c].st = "open" /\ run \in 0..MaxGen /\ run >= cur - 1
    BY <1>2 DEF Request, Phases
  <2>2. conn' = [conn EXCEPT ![c].st = "busy", ![c].run = run]
    BY <1>2 DEF Request
  <2>3. /\ ConnTypes'
        /\ conn'[c].st = "busy" /\ conn'[c].gen = conn[c].gen /\ conn'[c].run = run
        /\ \A d \in Conn \ {c} : conn'[d] = conn[d]
    <3> HIDE DEF ConnTypes
    <3> QED BY <2>1, <2>2, ConnMoves
  <2>4. conn[c].gen \in Int /\ cur \in Int /\ conn[c].gen <= cur
    BY <2>1
  <2>5. ConnFit'
    <3> HIDE DEF ConnTypes, SockTypes
    <3> QED BY <2>1, <2>3, <2>4
  <2> QED BY <2>3, <2>5
<1>3. CASE Respond(c)
  BY <1>3 DEF Respond, NoConn
<1>4. CASE AdminReload(c)
  <2>1. UNCHANGED cur /\ conn[c].st = "busy" /\ conn' = [conn EXCEPT ![c].st = "sending"]
    BY <1>4 DEF AdminReload
  <2>2. /\ ConnTypes'
        /\ conn'[c].st = "sending" /\ conn'[c].gen = conn[c].gen /\ conn'[c].run = conn[c].run
        /\ \A d \in Conn \ {c} : conn'[d] = conn[d]
    <3> HIDE DEF ConnTypes
    <3> QED BY <2>1, ConnMoves
  <2> QED BY <2>1, <2>2
<1>5. CASE AdminSend(c)
  <2>1. UNCHANGED cur /\ conn[c].st = "sending" /\ conn' = [conn EXCEPT ![c].st = "open"]
    BY <1>5 DEF AdminSend
  <2>2. /\ ConnTypes'
        /\ conn'[c].st = "open" /\ conn'[c].gen = conn[c].gen /\ conn'[c].run = conn[c].run
        /\ \A d \in Conn \ {c} : conn'[d] = conn[d]
    <3> HIDE DEF ConnTypes
    <3> QED BY <2>1, ConnMoves
  <2> QED BY <2>1, <2>2
<1>6. CASE Disconnect(c)
  BY <1>6 DEF Disconnect, NoConn
<1> QED
  BY <1>1, <1>2, <1>3, <1>4, <1>5, <1>6 DEF ClientStep
\* And all steps of the others.
LEMMA ConnFitSide ==
    ASSUME ModuleTypes, SockTypes, ConnTypes, Phases, SocketsFit, ConnFit, SideStep
    PROVE  ConnTypes' /\ ConnFit'
<1>1. CASE \E c \in Conn : ClientStep(c)
  BY <1>1, ConnSide
<1>2. CASE ~\E c \in Conn : ClientStep(c)
  <2>1. conn' = conn
    BY <1>2 DEF SideStep, StopSend, StopReturn, TaskEnds, EnvStep, Deliver, StopCall,
       EditConfig, ForeignBind, ForeignRelease
  <2>2. cur' = cur
    BY SideKeeps DEF mainVars
  <2> QED BY <2>1, <2>2 DEF ConnTypes, ConnFit
<1> QED BY <1>1, <1>2

----------------------------------------------------------------------------
(* The steps of the others, on the rest.                                   *)

\* A task that ends was not running any more.
LEMMA TaskSide ==
    ASSUME ModuleTypes, TaskTypes, Phases, TasksFit, SideStep
    PROVE  TaskTypes' /\ TasksFit'
<1>1. UNCHANGED <<cur, tmods, pc, todo>>
  BY SideKeeps DEF mainVars
<1>2. ASSUME NEW g \in Gen, NEW t \in Task, TaskEnds(g, t)
      PROVE  TaskTypes' /\ TasksFit'
  <2>1. TaskTypes'
    BY <1>2 DEF TaskEnds, TaskTypes
  <2>2. \A k \in Gen, u \in Task : task'[k][u] = "run" <=> task[k][u] = "run"
    BY <1>2 DEF TaskEnds, TaskTypes
  <2>3. pc # "boot" /\ pc # "exited" => cur \in Gen /\ tmods[cur] \subseteq Task
    BY AgentAssumption DEF Phases, ModuleTypes, Gen
  <2> QED BY <1>1, <2>1, <2>2, <2>3 DEF TasksFit
<1>3. CASE ~\E g \in Gen, t \in Task : TaskEnds(g, t)
  <2>1. task' = task
    BY <1>3 DEF SideStep, modVars, connOnly, StopSend, StopReturn, ClientStep, Accept,
       Request, Respond, AdminReload, AdminSend, Disconnect, EnvStep, Deliver, StopCall,
       EditConfig, ForeignBind, ForeignRelease
  <2> QED BY <1>1, <2>1 DEF TaskTypes, TasksFit
<1> QED BY <1>2, <1>3

\* Another process takes and leaves free ports only.
LEMMA SockSide ==
    ASSUME ModuleTypes, SockTypes, Phases, ModulesFit, SocketsFit, ListenersServe, SideStep
    PROVE  SockTypes' /\ SocketsFit' /\ ListenersServe'
<1> USE AgentAssumption
<1>1. UNCHANGED <<pc, conf, cur, lmods, todo>>
  BY SideKeeps DEF mainVars
<1>2. \/ sock' = sock
      \/ \E p \in ForeignPort : \/ sock[p] = Free /\ sock' = [sock EXCEPT ![p] = Foreign]
                                \/ sock[p] = Foreign /\ sock' = [sock EXCEPT ![p] = Free]
  BY DEF SideStep, modVars, connOnly, StopSend, StopReturn, TaskEnds, ClientStep, Accept,
     Request, Respond, AdminReload, AdminSend, Disconnect, EnvStep, Deliver, StopCall,
     EditConfig, ForeignBind, ForeignRelease
<1>3. SockTypes'
  <2> DEFINE Who == {Free, Foreign} \union {Obj(g, k) : g \in Gen, k \in Handler}
  <2>1. Free \in Who /\ Foreign \in Who /\ sock \in [Port -> Who]
    BY DEF SockTypes
  <2> HIDE DEF Who
  <2>2. sock' \in [Port -> Who]
    BY <1>2, <2>1
  <2> QED BY <2>2 DEF SockTypes, Who
<1>4. ASSUME NEW p \in Port
      PROVE  /\ sock'[p].by = "agent" <=> sock[p].by = "agent"
             /\ sock[p].by = "agent" => sock'[p] = sock[p]
             /\ sock'[p] = Foreign => sock[p] = Foreign \/ p \in ForeignPort
  <2>1. \/ sock'[p] = sock[p]
        \/ p \in ForeignPort /\ sock[p] \in {Free, Foreign} /\ sock'[p] \in {Free, Foreign}
    BY <1>2 DEF SockTypes
  <2>2. Free.by # "agent" /\ Foreign.by # "agent"
    BY DEF Free, Foreign
  <2> QED BY <2>1, <2>2
<1>5. SocketsFit'
  BY <1>1, <1>4, StaticFrame DEF SocketsFit, Held, Listen
<1>6. ListenersServe'
  <2>1. CASE pc \in {"startListeners", "idle"}
    <3>1. lmods[cur] \subseteq Bound(conf[cur]) /\ cur \in Gen
      BY <2>1 DEF ModuleTypes, Phases, ModulesFit, Gen
    <3>2. \A h \in Bound(conf[cur]) : IsOpen(cur, h) => IsOpen(cur, h)'
      <4>1. \A h \in Bound(conf[cur]) : Bind[conf[cur]][h] \in Port
        BY <3>1 DEF Bound, ModuleTypes
      <4>2. \A h \in Handler : Listen(cur, h).by = "agent"
        BY DEF Listen, Obj
      <4>3. Bound(conf[cur]) \subseteq Handler
        BY DEF Bound
      <4> QED BY <1>1, <1>4, <4>1, <4>2, <4>3 DEF IsOpen, Listen
    <3>3. Bound(conf[cur]) \subseteq Handler
      BY DEF Bound
    <3> QED BY <1>1, <3>1, <3>2, <3>3, StaticFrame DEF ListenersServe
  <2>2. CASE pc \notin {"startListeners", "idle"}
    BY <1>1, <2>2 DEF ListenersServe
  <2> QED BY <2>1, <2>2
<1> QED BY <1>3, <1>5, <1>6
\* The channel holds one signal at most.
LEMMA Channel ==
    /\ <<>> \in Seq(Signal) /\ Len(<<>>) <= 1
    /\ \A s \in Signal : <<s>> \in Seq(Signal) /\ Len(<<s>>) <= 1
  OBVIOUS

\* Senders find the channel empty or drop the signal.
LEMMA InputSide == ASSUME InputTypes, SideStep PROVE InputTypes'
<1> USE AgentAssumption DEF InputTypes, connOnly, modVars
<1>1. CASE StopSend \/ StopReturn
  <2>1. UNCHANGED <<file, sent>> /\ (sigs' = sigs \/ sigs' = <<"INT">>)
        /\ stopper' \in {"waiting", "returned"}
    BY <1>1 DEF StopSend, StopReturn
  <2>2. "INT" \in Signal
    BY DEF Signal
  <2> QED BY <2>1, <2>2, Channel
<1>2. CASE \E g \in Gen, t \in Task : TaskEnds(g, t)
  BY <1>2 DEF TaskEnds
<1>3. ASSUME NEW c \in Conn, ClientStep(c) PROVE InputTypes'
  <2>1. UNCHANGED <<file, stopper>> /\ (sigs' = sigs \/ sigs' = <<"HUP">>)
        /\ (sent' = sent \/ (sent < MaxSignals /\ sent' = sent + 1))
    BY <1>3 DEF ClientStep, Accept, Request, Respond, AdminReload, AdminSend, Disconnect
  <2>2. "HUP" \in Signal
    BY DEF Signal
  <2>3. sent' \in 0..MaxSignals
    BY <2>1
  <2>4. sigs' \in Seq(Signal) /\ Len(sigs') <= 1
    BY <2>1, <2>2, Channel
  <2> QED BY <2>1, <2>3, <2>4
<1>4. CASE EnvStep
  <2>1. ASSUME NEW s \in Signal, Deliver(s) PROVE InputTypes'
    BY <2>1 DEF Deliver
  <2>2. CASE StopCall \/ EditConfig
    BY <2>2 DEF StopCall, EditConfig
  <2>3. CASE \E p \in ForeignPort : ForeignBind(p) \/ ForeignRelease(p)
    BY <2>3 DEF ForeignBind, ForeignRelease
  <2> QED BY <1>4, <2>1, <2>2, <2>3 DEF EnvStep
<1> QED
  BY <1>1, <1>2, <1>3, <1>4 DEF SideStep

----------------------------------------------------------------------------
(* The inductive invariant.                                                *)

IInv == /\ TypeOK /\ Phases /\ ModulesFit /\ TasksFit
        /\ SocketsFit /\ ListenersServe /\ ConnFit

\* The initial states satisfy the inductive invariant.
LEMMA InitIInv == Init => IInv
<1> SUFFICES ASSUME Init PROVE IInv
  OBVIOUS
<1> USE AgentAssumption
<1>1. Phases
  BY DEF Init, Phases
<1>2. ModulesFit
  BY DEF Init, ModulesFit
<1>3. TasksFit
  BY DEF Init, TasksFit
<1>4. SocketsFit
  BY DEF Init, SocketsFit, Free, Foreign
<1>5. ListenersServe
  BY DEF Init, ListenersServe
<1>6. ConnFit
  BY DEF Init, ConnFit, NoConn
<1> QED
  BY <1>1, <1>2, <1>3, <1>4, <1>5, <1>6, TypesInit DEF IInv

\* The steps of the main goroutine preserve it.
LEMMA MainIInv == ASSUME IInv, MainStep PROVE IInv'
<1>1. ModuleTypes /\ TaskTypes /\ SockTypes /\ InputTypes /\ ConnTypes
  BY TypeGroups DEF IInv
<1>2. file \in Config /\ Phases /\ ModulesFit /\ TasksFit /\ SocketsFit
      /\ ListenersServe /\ ConnFit
  BY <1>1 DEF IInv, InputTypes
<1>3. ModuleTypes'
  BY <1>1, <1>2, ModuleTypesMain
<1>4. TaskTypes'
  <2>1. CASE cur \in Gen
    BY <1>1, <2>1, TaskTypesMain
  <2>2. CASE cur \notin Gen
    <3>1. pc \in {"boot", "exited"}
      BY <1>1, <1>2, <2>2, AgentAssumption DEF ModuleTypes, Phases, Gen
    <3>2. task' = task
      BY <3>1, TaskFrame DEF StopTask, StartTask
    <3> QED BY <1>1, <3>2 DEF TaskTypes
  <2> QED BY <2>1, <2>2
<1>5. SockTypes'
  BY <1>1, <1>2, SockTypesMain
<1>6. InputTypes'
  BY <1>1, InputFrame, Channel DEF InputTypes
<1>7. ConnTypes'
  BY <1>1, InputFrame DEF ConnTypes
<1>8. TypeOK'
  <2>1. (ModuleTypes /\ TaskTypes /\ SockTypes /\ InputTypes /\ ConnTypes)' => TypeOK'
    BY DEF TypeOK, ModuleTypes, TaskTypes, SockTypes, InputTypes, ConnTypes
  <2> QED BY <1>3, <1>4, <1>5, <1>6, <1>7, <2>1
<1>9. Phases'
  BY <1>2, PhasesMain DEF IInv
<1>10. ModulesFit'
  BY <1>1, <1>2, ModulesFitMain
<1>11. TasksFit'
  BY <1>1, <1>2, TasksFitMain
<1>12. SocketsFit'
  BY <1>1, <1>2, SocketsFitMain
<1>13. ListenersServe'
  BY <1>1, <1>2, ListenersServeMain
<1>14. ConnFit'
  BY <1>1, <1>2, ConnFitMain
<1> QED
  BY <1>8, <1>9, <1>10, <1>11, <1>12, <1>13, <1>14 DEF IInv

\* And so do the steps of all others.
LEMMA SideIInv == ASSUME IInv, SideStep PROVE IInv'
<1>1. ModuleTypes /\ TaskTypes /\ SockTypes /\ InputTypes /\ ConnTypes
  BY TypeGroups DEF IInv
<1>2. Phases /\ ModulesFit /\ TasksFit /\ SocketsFit /\ ListenersServe /\ ConnFit
  BY DEF IInv
<1>3. UNCHANGED mainVars
  BY SideKeeps
<1>4. ModuleTypes'
  BY <1>1, <1>3 DEF ModuleTypes, mainVars
<1>5. Phases' /\ ModulesFit'
  BY <1>2, <1>3 DEF Phases, ModulesFit, mainVars, Bound
<1>6. TaskTypes' /\ TasksFit'
  BY <1>1, <1>2, TaskSide
<1>7. SockTypes' /\ SocketsFit' /\ ListenersServe'
  BY <1>1, <1>2, SockSide
<1>8. InputTypes'
  BY <1>1, InputSide
<1>9. ConnTypes' /\ ConnFit'
  BY <1>1, <1>2, ConnFitSide
<1>10. TypeOK'
  <2>1. (ModuleTypes /\ TaskTypes /\ SockTypes /\ InputTypes /\ ConnTypes)' => TypeOK'
    BY DEF TypeOK, ModuleTypes, TaskTypes, SockTypes, InputTypes, ConnTypes
  <2> QED BY <1>4, <1>6, <1>7, <1>8, <1>9, <2>1
<1> QED
  BY <1>5, <1>6, <1>7, <1>9, <1>10 DEF IInv

\* And steps that change nothing.
LEMMA StutterIInv == ASSUME IInv, UNCHANGED vars PROVE IInv'
<1> USE DEF vars
<1>1. TypeOK'
  BY DEF IInv, TypeOK
<1>2. Phases' /\ ModulesFit' /\ TasksFit'
  BY DEF IInv, Phases, ModulesFit, TasksFit, Bound
<1>3. SocketsFit' /\ ConnFit'
  BY DEF IInv, SocketsFit, Held, Listen, ConnFit
<1>4. ListenersServe'
  <2>1. pc \in {"startListeners", "idle"} =>
           lmods[cur] \subseteq Bound(conf[cur]) /\ Bound(conf[cur]) \subseteq Handler
    BY AgentAssumption DEF IInv, TypeOK, Phases, ModulesFit, Bound
  <2> QED BY <2>1, StaticFrame DEF IInv, ListenersServe
<1> QED BY <1>1, <1>2, <1>3, <1>4 DEF IInv

\* The inductive invariant holds in every reachable state.
THEOREM AgentInvariant == Spec => []IInv
<1>1. IInv /\ [Next]_vars => IInv'
  BY MainIInv, SideIInv, StutterIInv DEF Next, SideStep
<1> QED
  BY <1>1, InitIInv, PTL DEF Spec
----------------------------------------------------------------------------
(* What follows.                                                           *)

\* The variables of the agent keep their types, whatever the signals, clients
\* and configurations do.
THEOREM TypesHold == Spec => []TypeOK
<1>1. IInv => TypeOK
  BY DEF IInv
<1> QED BY <1>1, AgentInvariant, PTL

\* After startModules() tasks, listeners, config and run set are of one
\* configuration, which Init() accepted.
THEOREM IdleCoherent == Spec => []IdleIsCoherent
<1>1. IInv => IdleIsCoherent
  BY AgentAssumption DEF IInv, Phases, TypeOK, IdleIsCoherent
<1> QED BY <1>1, AgentInvariant, PTL

\* No sequence of reloads, failed binds and shutdown makes the agent lose track
\* of a socket: the module set that StopRemove() empties next holds it.
THEOREM SocketsAreHeld == Spec => []NoLeakedSocket
<1>1. IInv => NoLeakedSocket
  BY DEF IInv, SocketsFit, Held, NoLeakedSocket, Alive
<1> QED BY <1>1, AgentInvariant, PTL

\* A module of the listener set is served on its port, one that is missing was
\* dropped by startModule() for a port that was not free.
THEOREM ListenersAreServed == Spec => []IdleServes
<1>1. IInv => IdleServes
  BY DEF IInv, ListenersServe, Dropped, IdleServes
<1> QED BY <1>1, AgentInvariant, PTL

\* The sharing of Listener objects loses no handler, unless it is the object of
\* the tcp server that is shared.
THEOREM HandlersAreReached == Spec => []StartedIsReachable
<1>1. ASSUME IInv, pc = "idle", NEW h \in lmods[cur]
      PROVE  \/ \E p \in Port : /\ sock[p].by = "agent"
                                /\ h \in Handles(sock[p].gen, sock[p].own)
             \/ h \notin Tcp /\ \E k \in Tcp : Bind[conf[cur]][k] = Bind[conf[cur]][h]
  <2> DEFINE c == conf[cur]
             own == Owner(c, h)
  <2>1. /\ c \in Config /\ h \in Bound(c) /\ IsOpen(cur, h)
        /\ Bound(c) \subseteq Handler
    BY <1>1, AgentAssumption
    DEF IInv, TypeOK, Phases, ModulesFit, ListenersServe, Gen, Bound
  <2>2. own \in Bound(c) /\ Bind[c][own] = Bind[c][h] /\ (h \in Tcp => own = h)
    BY <2>1, OwnerFacts
  <2>3. Bind[c][h] \in Port
    BY <2>1, AgentAssumption DEF Bound
  <2>4. sock[Bind[c][h]] = Obj(cur, own)
    BY <2>1 DEF IsOpen, Listen
  <2>5. /\ sock[Bind[c][h]].by = "agent" /\ sock[Bind[c][h]].gen = cur
        /\ sock[Bind[c][h]].own = own
    BY <2>4 DEF Obj
  <2>6. CASE own \in Tcp
    <3>1. CASE h \in Tcp
      BY <2>2, <2>3, <2>5, <3>1 DEF Handles
    <3>2. CASE h \notin Tcp
      BY <2>2, <2>6, <3>2
    <3> QED BY <3>1, <3>2
  <2>7. CASE own \notin Tcp
    <3>1. h \in Handles(cur, own)
      BY <2>1, <2>2, <2>7 DEF Handles
    <3> QED BY <2>3, <2>5, <3>1
  <2> QED BY <2>6, <2>7
<1>2. IInv => StartedIsReachable
  BY <1>1 DEF StartedIsReachable
<1> QED BY <1>2, AgentInvariant, PTL

\* However slowly the goroutines of stopped tasks end, no task runs twice.
THEOREM TasksRunOnce == Spec => []TaskRunsOnce
<1>1. IInv => TaskRunsOnce
  <2> SUFFICES ASSUME IInv PROVE TaskRunsOnce
    OBVIOUS
  <2>1. \A t \in Task, g, k \in Gen : task[g][t] = "run" /\ task[k][t] = "run" => g = k
    BY DEF IInv, TasksFit
  <2>2. ASSUME pc = "idle", NEW t \in Task
        PROVE  (\E g \in Gen : task[g][t] = "run") <=> t \in Enabled[conf[cur]]
    <3>1. cur \in Gen /\ tmods[cur] = Enabled[conf[cur]]
      BY <2>2, AgentAssumption DEF IInv, TypeOK, Phases, ModulesFit, Gen
    <3>2. t \in tmods[cur] => task[cur][t] = "run"
      BY <2>2 DEF IInv, TasksFit
    <3>3. \A g \in Gen : task[g][t] = "run" => t \in tmods[cur]
      BY DEF IInv, TasksFit
    <3> QED BY <3>1, <3>2, <3>3
  <2> QED BY <2>1, <2>2 DEF TaskRunsOnce
<1> QED BY <1>1, AgentInvariant, PTL

\* A request on a connection of any age never resolves its check in a run set
\* older than the one before its listener's.
THEOREM RequestsMeetRunSet == Spec => []RequestRunSet
<1>1. IInv => RequestRunSet
  BY DEF IInv, ConnFit, RequestRunSet
<1> QED BY <1>1, AgentInvariant, PTL

\* stop() leaves neither a socket nor a running task behind.
THEOREM ShutdownReleases == Spec => []DownMeansReleased
<1>1. IInv => DownMeansReleased
  BY DEF IInv, Phases, ModulesFit, SocketsFit, TasksFit, DownMeansReleased
<1> QED BY <1>1, AgentInvariant, PTL

\* Without managed exporters only the first configuration may end the process.
THEOREM ReloadsNeverExit == Managed = {} => (Spec => ReloadKeepsRunning)
<1> SUFFICES ASSUME Managed = {} PROVE Spec => ReloadKeepsRunning
  OBVIOUS
<1>1. ASSUME IInv, [Next]_vars, pc' = "exited", pc # "exited"
      PROVE  gen <= 1 /\ run = cur /\ pc # "idle"
  <2>1. MainStep
    BY <1>1, SideKeeps DEF Next, SideStep, mainVars, vars
  <2>2. BootFails \/ ReloadPanics \/ \E h \in Handler : StartListenerFails(h)
    BY <1>1, <2>1 DEF MainStep, modVars, BootOk, Resume, ReloadFails, ReloadBegins,
       Take, Shutdown, StopTask, StartTask, TasksStopped, TasksStarted, Assign,
       StopListener, StartListener, ListenersStarted, ListenersStopped
  <2>3. CASE BootFails
    BY <1>1, <2>3 DEF BootFails, IInv, Phases, TypeOK
  <2>4. CASE ReloadPanics
    BY <2>4 DEF ReloadPanics
  <2>5. ASSUME NEW h \in Handler, StartListenerFails(h)
        PROVE  gen <= 1 /\ run = cur /\ pc # "idle"
    BY <1>1, <2>5 DEF StartListenerFails, IInv, Phases, TypeOK
  <2> QED BY <2>2, <2>3, <2>4, <2>5
<1>2. IInv /\ [Next]_vars
        => [pc' = "exited" /\ pc # "exited" => gen <= 1 /\ run = cur /\ pc # "idle"]_vars
  BY <1>1
<1> QED BY <1>2, AgentInvariant, PTL DEF Spec, ReloadKeepsRunning

----------------------------------------------------------------------------
(* The agent implements AgentService.                                      *)

Served == [p \in Port |-> sock[p].gen]

\* A port that the agent does not hold is closed to its clients.
LEMMA ClosedPorts ==
    ASSUME SockTypes, NEW p \in Port, sock[p].by # "agent"
    PROVE  sock[p].gen = 0
  BY DEF SockTypes, Free, Foreign, Obj

\* A step of the main goroutine is a step of AgentService or none.
LEMMA ServiceMain == ASSUME IInv, MainStep PROVE [Service!Next]_<<cur, Served>>
<1>1. SockTypes /\ ModuleTypes /\ Phases /\ ModulesFit /\ SocketsFit
  BY TypeGroups DEF IInv
<1>2. CASE BootOk \/ Assign
  <2>1. \A p \in Port : sock[p].by # "agent"
    BY <1>1, <1>2 DEF BootOk, Assign, SocketsFit, Held
  <2>2. \A p \in Port : Served[p] = 0
    BY <1>1, <2>1, ClosedPorts DEF Served
  <2>3. cur' = cur + 1 /\ sock' = sock
    BY <1>1, <1>2 DEF BootOk, NewRunSet, Assign, Phases, ModuleTypes
  <2>4. Service!Activate
    BY <2>2, <2>3 DEF Service!Activate, Served
  <2> QED BY <2>4 DEF Service!Next
<1>3. ASSUME NEW h \in Handler, StopListener(h)
      PROVE  [Service!Next]_<<cur, Served>>
  <2>1. cur' = cur
    BY <1>3 DEF StopListener
  <2>2. CASE sock' = sock
    BY <2>1, <2>2 DEF Served
  <2>3. CASE sock' # sock
    <3> DEFINE p == Bind[conf[cur]][h]
    <3>1. p \in Port /\ sock' = [sock EXCEPT ![p] = Free]
      BY <1>1, <1>3, <2>3, AgentAssumption DEF StopListener, ModulesFit, Phases, ModuleTypes, Bound, Gen
    <3> HIDE DEF p
    <3>2. Served' = [Served EXCEPT ![p] = 0]
      <4>1. \A q \in Port : sock'[q] = IF q = p THEN Free ELSE sock[q]
        BY <1>1, <3>1 DEF SockTypes
      <4>2. \A q \in Port : sock'[q].gen = IF q = p THEN 0 ELSE sock[q].gen
        BY <4>1 DEF Free
      <4> QED BY <4>2 DEF Served
    <3>3. Service!Close(p)
      BY <2>1, <3>2 DEF Service!Close, Served
    <3> QED BY <3>1, <3>3 DEF Service!Next, Service!Close
  <2> QED BY <2>2, <2>3
<1>4. ASSUME NEW h \in Handler, StartListener(h)
      PROVE  [Service!Next]_<<cur, Served>>
  <2> DEFINE p == Bind[conf[cur]][h]
  <2>1. /\ cur' = cur /\ cur >= 1 /\ p \in Port
        /\ IsOpen(cur, h) \/ sock[p] = Free
        /\ sock' = [sock EXCEPT ![p] = Listen(cur, h)]
    BY <1>1, <1>4, AgentAssumption DEF StartListener, ModulesFit, Phases, ModuleTypes, Bound, Gen
  <2>2. CASE IsOpen(cur, h)
    <3>1. sock' = sock
      BY <1>1, <2>1, <2>2 DEF IsOpen, SockTypes
    <3> QED BY <2>1, <3>1 DEF Served
  <2>3. CASE sock[p] = Free
    <3> HIDE DEF p
    <3>1. Listen(cur, h).gen = cur
      BY DEF Listen, Obj
    <3>2. Served[p] = 0 /\ Served' = [Served EXCEPT ![p] = cur]
      <4>1. \A q \in Port : sock'[q] = IF q = p THEN Listen(cur, h) ELSE sock[q]
        BY <1>1, <2>1 DEF SockTypes
      <4>2. \A q \in Port : sock'[q].gen = IF q = p THEN cur ELSE sock[q].gen
        BY <3>1, <4>1
      <4>3. Served' = [Served EXCEPT ![p] = cur]
        BY <4>2 DEF Served
      <4>4. Served[p] = 0
        BY <2>1, <2>3 DEF Served, Free
      <4> QED BY <4>3, <4>4
    <3>3. Service!Open(p)
      BY <1>1, <2>1, <3>2 DEF Service!Open, Served, ModuleTypes
    <3> QED BY <2>1, <3>3 DEF Service!Next, Service!Open
  <2> QED BY <2>1, <2>2, <2>3
<1>5. CASE ~(BootOk \/ Assign \/ \E h \in Handler : StopListener(h) \/ StartListener(h))
  <2>1. cur' = cur
    BY <1>5 DEF MainStep, modVars, BootFails, Resume, ReloadFails, ReloadPanics,
       ReloadBegins, NewRunSet, Shutdown, StopTask, StartTask, TasksStopped, TasksStarted,
       StartListenerFails, ListenersStarted, ListenersStopped
  <2>2. sock' = sock
    BY <1>5, SockFrame
  <2> QED BY <2>1, <2>2 DEF Served
<1> QED BY <1>2, <1>3, <1>4, <1>5

\* The clients of the service see nothing of the steps of the others.
LEMMA ServiceSide == ASSUME IInv, SideStep PROVE UNCHANGED <<cur, Served>>
<1>1. cur' = cur
  BY SideKeeps DEF mainVars
<1>2. \/ sock' = sock
      \/ \E p \in ForeignPort : \/ sock[p] = Free /\ sock' = [sock EXCEPT ![p] = Foreign]
                                \/ sock[p] = Foreign /\ sock' = [sock EXCEPT ![p] = Free]
  BY DEF SideStep, modVars, connOnly, StopSend, StopReturn, TaskEnds, ClientStep, Accept,
     Request, Respond, AdminReload, AdminSend, Disconnect, EnvStep, Deliver, StopCall,
     EditConfig, ForeignBind, ForeignRelease
<1>3. \A p \in Port : sock'[p].gen = sock[p].gen
  BY <1>2, TypeGroups DEF IInv, SockTypes, Free, Foreign
<1> QED BY <1>1, <1>3 DEF Served

\* To its clients the agent switches from one configuration to the next only
\* while every port is closed, as AgentService says.
THEOREM ImplementsService == Spec => SwitchesCleanly
<1>1. Init => Service!Init
  BY DEF Init, Service!Init, Free
<1>2. IInv /\ [Next]_vars => [Service!Next]_<<cur, Served>>
  <2>1. ASSUME UNCHANGED vars PROVE UNCHANGED <<cur, Served>>
    BY <2>1 DEF vars, Served
  <2> QED BY <2>1, ServiceMain, ServiceSide DEF Next, SideStep
<1> QED
  BY <1>1, <1>2, AgentInvariant, PTL DEF Spec, SwitchesCleanly, Service!Spec, Served

(* What that is worth to a client, proved of AgentService alone and so true of *)
(* the agent that implements it: every open port serves the configuration in   *)
(* force, a port is closed between two configurations, and none is skipped     *)
(* (mainLoop, startModules and stopModules, snclient.go).                      *)
THEOREM PortsAgree ==
    Spec => []Service!OneInForce /\ Service!ClosesBetween /\ Service!OneByOne
<1>1. Service!Init => Service!OneInForce
  BY DEF Service!Init, Service!OneInForce
<1>2. Service!OneInForce /\ [Service!Next]_<<cur, Served>> => Service!OneInForce'
  <2> SUFFICES ASSUME Service!OneInForce, [Service!Next]_<<cur, Served>>
               PROVE Service!OneInForce'
    OBVIOUS
  <2>1. CASE UNCHANGED <<cur, Served>>
    BY <2>1 DEF Service!OneInForce, Served
  <2>2. CASE Service!Activate
    BY <2>2 DEF Service!OneInForce, Service!Activate
  <2>3. CASE \E p \in Port : Service!Open(p) \/ Service!Close(p)
    BY <2>3 DEF Service!OneInForce, Service!Open, Service!Close
  <2> QED BY <2>1, <2>2, <2>3 DEF Service!Next
<1>3. Service!OneInForce /\ [Service!Next]_<<cur, Served>>
        => /\ [\A p \in Port : Served[p] # 0 /\ Served'[p] # 0
                                => Served'[p] = Served[p]]_<<cur, Served>>
           /\ [cur' \in {cur, cur + 1}]_<<cur, Served>>
  <2> SUFFICES ASSUME Service!OneInForce, [Service!Next]_<<cur, Served>>
               PROVE /\ [\A p \in Port : Served[p] # 0 /\ Served'[p] # 0
                                => Served'[p] = Served[p]]_<<cur, Served>>
                     /\ [cur' \in {cur, cur + 1}]_<<cur, Served>>
    OBVIOUS
  <2>1. CASE UNCHANGED <<cur, Served>>
    BY <2>1
  <2>2. CASE Service!Activate
    BY <2>2 DEF Service!OneInForce, Service!Activate, Served
  <2>3. CASE \E p \in Port : Service!Open(p) \/ Service!Close(p)
    BY <2>3 DEF Service!OneInForce, Service!Open, Service!Close, Served
  <2> QED BY <2>1, <2>2, <2>3 DEF Service!Next
<1> QED
  BY <1>1, <1>2, <1>3, ImplementsService, PTL
     DEF SwitchesCleanly, Service!Spec, Service!ClosesBetween, Service!OneByOne, Served
=============================================================================
