------------------------------- MODULE Agent -------------------------------
(***************************************************************************)
(* The life of the agent process: the main goroutine of Run() with its     *)
(* signal channel, the configuration reload that replaces the task and     *)
(* listener modules of one generation by those of the next, the requests   *)
(* that are served meanwhile, and the shutdown.                            *)
(*                                                                         *)
(* A generation is one successful Init(): an AgentRunSet with its config,  *)
(* its tasks and its listeners.  A listening socket is named by the        *)
(* generation and by the handler that created the Listener object, since   *)
(* web handlers on one bind string share one object.                       *)
(***************************************************************************)
EXTENDS Integers, Sequences

CONSTANTS
    Task,       \* names in AvailableTasks
    Handler,    \* names in AvailableListeners
    Rank,       \* Rank[h]: position of h in AvailableListeners
    Tcp,        \* handlers that implement RequestHandlerTCP (nrpe)
    Admin,      \* handlers that offer /api/v1/admin/reload
    Port,       \* bind strings
    NoPort,     \* a handler that the configuration leaves disabled
    Config,     \* contents the configuration files may have
    Valid,      \* those for which Init() returns no error
    Managed,    \* those with a /settings/ManagedExporter/<name> section
    Enabled,    \* Enabled[c]: tasks that c enables
    Bind,       \* Bind[c][h]: port of h in c, or NoPort
    ForeignPort,\* ports some other process may occupy
    Conn,       \* client connections
    MaxGen,     \* bound: configurations loaded in one life of the process
    MaxSignals  \* bound: signals, Stop() calls and admin reload requests

ASSUME AgentAssumption ==
    /\ NoPort \notin Port
    /\ Rank \in [Handler -> Nat]
    /\ \A h, k \in Handler : Rank[h] = Rank[k] => h = k
    /\ Tcp \subseteq Handler
    /\ Admin \subseteq Handler \ Tcp
    /\ Valid \subseteq Config
    /\ Managed \subseteq Config
    /\ Enabled \in [Config -> SUBSET Task]
    /\ Bind \in [Config -> [Handler -> Port \union {NoPort}]]
    /\ ForeignPort \subseteq Port
    /\ MaxSignals \in Nat
    /\ MaxGen \in Nat /\ MaxGen > MaxSignals   \* so the bound never blocks a reload

Gen == 1..MaxGen

\* Who listens on a port: nobody, another process, or the Listener object
\* that handler own of generation gen created.
Free    == [by |-> "free", gen |-> 0, own |-> NoPort]
Foreign == [by |-> "foreign", gen |-> 0, own |-> NoPort]
Obj(g, h) == [by |-> "agent", gen |-> g, own |-> h]

VARIABLES
    pc,        \* where the main goroutine is
    running,   \* Agent.running
    file,      \* what the configuration files contain right now
    gen,       \* number of run sets created so far
    conf,      \* conf[g]: the configuration run set g was read from
    cur,       \* generation of Agent.Tasks, Agent.Listeners and Agent.config
    run,       \* generation of Agent.runSet
    tmods,     \* tmods[g]: names in the task module set of generation g
    lmods,     \* lmods[g]: names in the listener module set of generation g
    todo,      \* modules the loop of ModuleSet.Start has not visited yet
    task,      \* task[g][t]: the goroutine of task t of generation g
    sock,      \* sock[p]: who listens on port p
    registered,\* RegisterModule has seen the managed exporter section
    sigs,      \* osSignalChannel, a channel of capacity one
    sent,      \* number of signals, Stop() calls and admin reloads so far
    stopper,   \* the caller of StopWait()
    conn       \* conn[c]: a client connection and the request on it

modVars  == <<cur, run, tmods, lmods, todo, task>>
vars == <<pc, running, file, gen, conf, cur, run, tmods, lmods, todo, task,
          sock, registered, sigs, sent, stopper, conn>>

Signal == {"HUP", "TERM", "INT", "USR"}

NoConn == [st |-> "none", gen |-> 0, own |-> NoPort, run |-> 0]

----------------------------------------------------------------------------
(* Static structure of a configuration.                                    *)

\* Handlers a configuration enables.
Bound(c) == {h \in Handler : Bind[c][h] # NoPort}

\* The handler whose Listener object h uses.  SharedWebListener looks up the
\* module registered under the bind string, that is the first one in the
\* order of AvailableListeners, be it a web handler or the tcp handler; a tcp
\* handler always makes its own object.
Owner(c, h) ==
    IF h \in Tcp THEN h
    ELSE CHOOSE k \in Bound(c) :
            /\ Bind[c][k] = Bind[c][h]
            /\ \A j \in Bound(c) : Bind[c][j] = Bind[c][h] => Rank[k] <= Rank[j]

\* The open socket of the Listener object that handler h of generation g uses.
Listen(g, h) == Obj(g, Owner(conf[g], h))
IsOpen(g, h) == sock[Bind[conf[g]][h]] = Listen(g, h)

\* A plausible slip: the second handler is not appended to the shared object.
HandlesFirst(g, own) == {own}

\* Start() looks at the first handler of the object only: a tcp object never
\* serves the web handlers that share it.
Handles(g, own) ==
    IF own \in Tcp THEN {own}
    ELSE {h \in Bound(conf[g]) \ Tcp : Owner(conf[g], h) = own}

Alive == pc \notin {"boot", "done", "exited"}

----------------------------------------------------------------------------
Init ==
    /\ pc = "boot" /\ running = "stopped"
    /\ file \in Config
    /\ gen = 0 /\ conf = [g \in Gen |-> file]
    /\ cur = 0 /\ run = 0
    /\ tmods = [g \in Gen |-> {}] /\ lmods = [g \in Gen |-> {}]
    /\ todo = {}
    /\ task = [g \in Gen |-> [t \in Task |-> "none"]]
    /\ sock = [p \in Port |-> Free]
    /\ registered = FALSE
    /\ sigs = <<>> /\ sent = 0 /\ stopper = "none"
    /\ conn = [c \in Conn |-> NoConn]

\* A run set for the present configuration: Init() creates all modules of it.
NewRunSet(g) ==
    /\ gen' = g
    /\ conf' = [conf EXCEPT ![g] = file]
    /\ tmods' = [tmods EXCEPT ![g] = Enabled[file]]
    /\ lmods' = [lmods EXCEPT ![g] = Bound(file)]
    /\ registered' = (registered \/ file \in Managed)

\* NewObj() and the part of Run() before startModules.
BootOk ==
    /\ pc = "boot" /\ file \in Valid
    /\ NewRunSet(1)
    /\ cur' = 1 /\ run' = 1
    /\ todo' = Enabled[file]
    /\ running' = "pending" /\ pc' = "startTasks"
    /\ UNCHANGED <<file, task, sock, sigs, sent, stopper, conn>>

BootFails ==
    /\ pc = "boot" /\ file \notin Valid
    /\ pc' = "exited"
    /\ UNCHANGED <<running, file, gen, conf, modVars, sock, registered, sigs,
                   sent, stopper, conn>>

----------------------------------------------------------------------------
(* Signals and the channel.                                                *)

\* The signal package never blocks: a signal that finds the channel full is
\* dropped.
Deliver(s) ==
    /\ Alive /\ sent < MaxSignals
    /\ sent' = sent + 1
    /\ sigs' = IF sigs = <<>> THEN <<s>> ELSE sigs
    /\ UNCHANGED <<pc, running, file, gen, conf, modVars, sock, registered,
                   stopper, conn>>

\* StopWait(): a blocking send, then IsRunning() is polled.
StopCall ==
    /\ Alive /\ stopper = "none" /\ sent < MaxSignals
    /\ sent' = sent + 1
    /\ stopper' = "sending"
    /\ UNCHANGED <<pc, running, file, gen, conf, modVars, sock, registered,
                   sigs, conn>>

StopSend ==
    /\ Alive /\ stopper = "sending" /\ sigs = <<>>
    /\ sigs' = <<"INT">>
    /\ stopper' = "waiting"
    /\ UNCHANGED <<pc, running, file, gen, conf, modVars, sock, registered,
                   sent, conn>>

StopReturn ==
    /\ stopper = "waiting" /\ running # "started"
    /\ stopper' = "returned"
    /\ UNCHANGED <<pc, running, file, gen, conf, modVars, sock, registered,
                   sigs, sent, conn>>

\* mainSignalHandler() on the signal the main loop takes from the channel.
Take(S) == pc = "idle" /\ sigs # <<>> /\ Head(sigs) \in S /\ sigs' = <<>>

Resume ==
    /\ Take({"USR"})
    /\ UNCHANGED <<pc, running, file, gen, conf, modVars, sock, registered,
                   sent, stopper, conn>>

\* A reload whose Init() fails: logged, everything stays as it is.
ReloadFails ==
    /\ Take({"HUP"}) /\ file \notin Valid
    /\ UNCHANGED <<pc, running, file, gen, conf, modVars, sock, registered,
                   sent, stopper, conn>>

\* RegisterModule panics on a section it has seen before, logPanicExit ends
\* the process.
ReloadPanics ==
    /\ Take({"HUP"}) /\ file \in Valid /\ registered /\ file \in Managed
    /\ pc' = "exited"
    /\ UNCHANGED <<running, file, gen, conf, modVars, sock, registered, sent,
                   stopper, conn>>

ReloadBegins ==
    /\ Take({"HUP"}) /\ file \in Valid /\ ~(registered /\ file \in Managed)
    /\ gen < MaxGen
    /\ NewRunSet(gen + 1)
    /\ pc' = "stopTasks"
    /\ UNCHANGED <<running, file, cur, run, todo, task, sock, sent, stopper,
                   conn>>

\* A plausible slip: while a reload request waits, a shutdown is put off.
ShutdownDeferred ==
    /\ Take({"TERM", "INT"})
    /\ IF \E c \in Conn : conn[c].st \in {"busy", "sending"}
       THEN UNCHANGED <<running, pc>>
       ELSE running' = "stopped" /\ pc' = "haltTasks"
    /\ UNCHANGED <<file, gen, conf, modVars, sock, registered, sent, stopper,
                   conn>>

Shutdown ==
    /\ Take({"TERM", "INT"})
    /\ running' = "stopped" /\ pc' = "haltTasks"
    /\ UNCHANGED <<file, gen, conf, modVars, sock, registered, sent, stopper,
                   conn>>

----------------------------------------------------------------------------
(* startModules() and stop(): the modules, one by one, in map order.       *)

\* A plausible slip: StopRemove() forgets to call Stop() of a task.
StopTaskNoSignal(t) ==
    /\ pc \in {"stopTasks", "haltTasks"} /\ t \in tmods[cur]
    /\ tmods' = [tmods EXCEPT ![cur] = @ \ {t}]
    /\ UNCHANGED <<pc, running, file, gen, conf, cur, run, lmods, todo, task,
                   sock, registered, sigs, sent, stopper, conn>>

\* Stop() of a task signals its goroutine; the goroutine ends later.
StopTask(t) ==
    /\ pc \in {"stopTasks", "haltTasks"} /\ t \in tmods[cur]
    /\ tmods' = [tmods EXCEPT ![cur] = @ \ {t}]
    /\ task' = [task EXCEPT ![cur][t] = IF @ = "run" THEN "stopping" ELSE @]
    /\ UNCHANGED <<pc, running, file, gen, conf, cur, run, lmods, todo, sock,
                   registered, sigs, sent, stopper, conn>>

\* A plausible slip: stop() returns after the tasks.
TasksStoppedOnly ==
    /\ pc \in {"stopTasks", "haltTasks"} /\ tmods[cur] = {}
    /\ pc' = IF pc = "stopTasks" THEN "stopListeners" ELSE "done"
    /\ UNCHANGED <<running, file, gen, conf, modVars, sock, registered, sigs,
                   sent, stopper, conn>>

TasksStopped ==
    /\ pc \in {"stopTasks", "haltTasks"} /\ tmods[cur] = {}
    /\ pc' = IF pc = "stopTasks" THEN "stopListeners" ELSE "haltListeners"
    /\ UNCHANGED <<running, file, gen, conf, modVars, sock, registered, sigs,
                   sent, stopper, conn>>

\* A plausible slip: the module is removed, its socket stays open.
StopListenerLeak(h) ==
    /\ pc \in {"stopListeners", "haltListeners"} /\ h \in lmods[cur]
    /\ lmods' = [lmods EXCEPT ![cur] = @ \ {h}]
    /\ UNCHANGED <<pc, running, file, gen, conf, cur, run, tmods, todo, task,
                   sock, registered, sigs, sent, stopper, conn>>

\* A plausible slip: Stop() waits for the requests on the listener, one of
\* which may be the admin request that waits for this goroutine.
StopListenerWaits(h) ==
    /\ pc \in {"stopListeners", "haltListeners"} /\ h \in lmods[cur]
    /\ \A c \in Conn : conn[c].st = "sending" => conn[c].gen # cur
    /\ lmods' = [lmods EXCEPT ![cur] = @ \ {h}]
    /\ sock' = IF IsOpen(cur, h)
               THEN [sock EXCEPT ![Bind[conf[cur]][h]] = Free] ELSE sock
    /\ UNCHANGED <<pc, running, file, gen, conf, cur, run, tmods, todo, task,
                   registered, sigs, sent, stopper, conn>>

StopListener(h) ==
    /\ pc \in {"stopListeners", "haltListeners"} /\ h \in lmods[cur]
    /\ lmods' = [lmods EXCEPT ![cur] = @ \ {h}]
    /\ sock' = IF IsOpen(cur, h)
               THEN [sock EXCEPT ![Bind[conf[cur]][h]] = Free] ELSE sock
    /\ UNCHANGED <<pc, running, file, gen, conf, cur, run, tmods, todo, task,
                   registered, sigs, sent, stopper, conn>>

\* A plausible slip: the new sets are in place before the old listeners stopped.
AssignEarly ==
    /\ pc = "stopListeners"
    /\ cur' = gen
    /\ todo' = tmods[gen]
    /\ pc' = "startTasks"
    /\ UNCHANGED <<running, file, gen, conf, run, tmods, lmods, task, sock,
                   registered, sigs, sent, stopper, conn>>

\* The new module sets and their config are put in place.
Assign ==
    /\ pc = "stopListeners" /\ lmods[cur] = {}
    /\ cur' = gen
    /\ todo' = tmods[gen]
    /\ pc' = "startTasks"
    /\ UNCHANGED <<running, file, gen, conf, run, tmods, lmods, task, sock,
                   registered, sigs, sent, stopper, conn>>

StartTask(t) ==
    /\ pc = "startTasks" /\ t \in todo
    /\ todo' = todo \ {t}
    /\ task' = [task EXCEPT ![cur][t] = "run"]
    /\ UNCHANGED <<pc, running, file, gen, conf, cur, run, tmods, lmods, sock,
                   registered, sigs, sent, stopper, conn>>

TasksStarted ==
    /\ pc = "startTasks" /\ todo = {}
    /\ todo' = lmods[cur] /\ pc' = "startListeners"
    /\ UNCHANGED <<running, file, gen, conf, cur, run, tmods, lmods, task, sock,
                   registered, sigs, sent, stopper, conn>>

\* Start() of a listener whose object has its socket, or gets it.
StartListener(h) ==
    /\ pc = "startListeners" /\ h \in todo
    /\ IsOpen(cur, h) \/ sock[Bind[conf[cur]][h]] = Free
    /\ sock' = [sock EXCEPT ![Bind[conf[cur]][h]] = Listen(cur, h)]
    /\ todo' = todo \ {h}
    /\ UNCHANGED <<pc, running, file, gen, conf, cur, run, tmods, lmods, task,
                   registered, sigs, sent, stopper, conn>>

\* A plausible slip: the second module of a shared listener binds again.
SharedStartFails(h) ==
    /\ pc = "startListeners" /\ h \in todo
    /\ sock[Bind[conf[cur]][h]] # Free
    /\ todo' = todo \ {h}
    /\ lmods' = [lmods EXCEPT ![cur] = @ \ {h}]
    /\ UNCHANGED <<pc, running, file, gen, conf, cur, run, tmods, task, sock,
                   registered, sigs, sent, stopper, conn>>

\* A plausible slip: the init mode is not looked at.
StartListenerFatal(h) ==
    /\ pc = "startListeners" /\ h \in todo
    /\ ~IsOpen(cur, h) /\ sock[Bind[conf[cur]][h]] # Free
    /\ pc' = "exited"
    /\ UNCHANGED <<running, file, gen, conf, cur, run, tmods, lmods, todo, task,
                   sock, registered, sigs, sent, stopper, conn>>

\* The bind fails: log.Fatalf in the initial mode, else the module is dropped.
StartListenerFails(h) ==
    /\ pc = "startListeners" /\ h \in todo
    /\ ~IsOpen(cur, h) /\ sock[Bind[conf[cur]][h]] # Free
    /\ IF cur = 1
       THEN pc' = "exited" /\ UNCHANGED <<todo, lmods>>
       ELSE /\ todo' = todo \ {h}
            /\ lmods' = [lmods EXCEPT ![cur] = @ \ {h}]
            /\ pc' = pc
    /\ UNCHANGED <<running, file, gen, conf, cur, run, tmods, task, sock,
                   registered, sigs, sent, stopper, conn>>

\* A plausible slip: runSet is not replaced.
ListenersStartedOldSet ==
    /\ pc = "startListeners" /\ todo = {}
    /\ running' = "started" /\ pc' = "idle"
    /\ UNCHANGED <<file, gen, conf, cur, run, tmods, lmods, todo, task, sock,
                   registered, sigs, sent, stopper, conn>>

ListenersStarted ==
    /\ pc = "startListeners" /\ todo = {}
    /\ run' = cur
    /\ running' = "started" /\ pc' = "idle"
    /\ UNCHANGED <<file, gen, conf, cur, tmods, lmods, todo, task, sock,
                   registered, sigs, sent, stopper, conn>>

ListenersStopped ==
    /\ pc = "haltListeners" /\ lmods[cur] = {}
    /\ pc' = "done"
    /\ UNCHANGED <<running, file, gen, conf, modVars, sock, registered, sigs,
                   sent, stopper, conn>>

\* The goroutine of a stopped task sees its stop channel.
TaskEnds(g, t) ==
    /\ task[g][t] = "stopping"
    /\ task' = [task EXCEPT ![g][t] = "ended"]
    /\ UNCHANGED <<pc, running, file, gen, conf, cur, run, tmods, lmods, todo,
                   sock, registered, sigs, sent, stopper, conn>>

----------------------------------------------------------------------------
(* Clients.  Each connection has a goroutine of its own, which survives    *)
(* the listener that accepted it.                                          *)

connOnly == <<pc, running, file, gen, conf, modVars, sock, registered,
              stopper>>

Accept(c, p) ==
    /\ Alive /\ conn[c].st = "none"
    /\ sock[p].by = "agent"
    /\ conn' = [conn EXCEPT ![c] = [st |-> "open", gen |-> sock[p].gen,
                                    own |-> sock[p].own, run |-> 0]]
    /\ UNCHANGED <<connOnly, sigs, sent>>

\* A request resolves its check against the run set of that moment.
Request(c) ==
    /\ Alive /\ conn[c].st = "open"
    /\ conn' = [conn EXCEPT ![c].st = "busy", ![c].run = run]
    /\ UNCHANGED <<connOnly, sigs, sent>>

\* A web connection is kept alive, a tcp connection serves one request.
Respond(c) ==
    /\ Alive /\ conn[c].st = "busy"
    /\ conn' = [conn EXCEPT ![c] =
                  IF @.own \in Tcp THEN NoConn ELSE [@ EXCEPT !.st = "open"]]
    /\ UNCHANGED <<connOnly, sigs, sent>>

\* serveReload() answers, then sends to the channel and may block there.
AdminReload(c) ==
    /\ Alive /\ conn[c].st = "busy" /\ sent < MaxSignals
    /\ Handles(conn[c].gen, conn[c].own) \cap Admin # {}
    /\ sent' = sent + 1
    /\ conn' = [conn EXCEPT ![c].st = "sending"]
    /\ UNCHANGED <<connOnly, sigs>>

AdminSend(c) ==
    /\ Alive /\ conn[c].st = "sending" /\ sigs = <<>>
    /\ sigs' = <<"HUP">>
    /\ conn' = [conn EXCEPT ![c].st = "open"]
    /\ UNCHANGED <<connOnly, sent>>

\* The client goes away, or the idle timeout of the http server does.
Disconnect(c) ==
    /\ Alive /\ conn[c].st = "open"
    /\ conn' = [conn EXCEPT ![c] = NoConn]
    /\ UNCHANGED <<connOnly, sigs, sent>>

----------------------------------------------------------------------------
(* The environment.                                                        *)

EditConfig ==
    /\ Alive
    /\ file' \in Config
    /\ UNCHANGED <<pc, running, gen, conf, modVars, sock, registered, sigs,
                   sent, stopper, conn>>

ForeignBind(p) ==
    /\ sock[p] = Free
    /\ sock' = [sock EXCEPT ![p] = Foreign]
    /\ UNCHANGED <<pc, running, file, gen, conf, modVars, registered, sigs,
                   sent, stopper, conn>>

ForeignRelease(p) ==
    /\ sock[p] = Foreign
    /\ sock' = [sock EXCEPT ![p] = Free]
    /\ UNCHANGED <<pc, running, file, gen, conf, modVars, registered, sigs,
                   sent, stopper, conn>>

----------------------------------------------------------------------------
MainStep ==
    \/ BootOk \/ BootFails
    \/ Resume \/ ReloadFails \/ ReloadPanics \/ ReloadBegins \/ Shutdown
    \/ \E t \in Task : StopTask(t) \/ StartTask(t)
    \/ TasksStopped \/ TasksStarted \/ Assign
    \/ \E h \in Handler : StopListener(h) \/ StartListener(h) \/ StartListenerFails(h)
    \/ ListenersStarted \/ ListenersStopped

ClientStep(c) ==
    \/ \E p \in Port : Accept(c, p)
    \/ Request(c) \/ Respond(c) \/ AdminReload(c) \/ AdminSend(c) \/ Disconnect(c)

EnvStep ==
    \/ \E s \in Signal : Deliver(s)
    \/ StopCall \/ EditConfig
    \/ \E p \in ForeignPort : ForeignBind(p) \/ ForeignRelease(p)

Next ==
    \/ MainStep
    \/ StopSend \/ StopReturn
    \/ \E g \in Gen, t \in Task : TaskEnds(g, t)
    \/ \E c \in Conn : ClientStep(c)
    \/ EnvStep

Spec == Init /\ [][Next]_vars

\* The Go scheduler runs every goroutine that can go on.  A goroutine blocked
\* in a channel send is queued by the channel, hence the strong fairness of
\* the two senders.  Signals, clients, edits and other processes owe nothing.
Fairness ==
    /\ WF_vars(MainStep)
    /\ SF_vars(StopSend) /\ WF_vars(StopReturn)
    /\ \A g \in Gen, t \in Task : WF_vars(TaskEnds(g, t))
    /\ \A c \in Conn : SF_vars(AdminSend(c))

FairSpec == Spec /\ Fairness
----------------------------------------------------------------------------
(* Properties.                                                             *)

ConnState == {"none", "open", "busy", "sending"}

\* The types of the variables; no listener of an unknown generation.
TypeOK ==
    /\ pc \in {"boot", "idle", "stopTasks", "stopListeners", "startTasks",
              "startListeners", "haltTasks", "haltListeners", "done", "exited"}
    /\ running \in {"stopped", "pending", "started"}
    /\ file \in Config
    /\ gen \in 0..MaxGen /\ cur \in 0..gen /\ run \in 0..cur
    /\ conf \in [Gen -> Config]
    /\ tmods \in [Gen -> SUBSET Task] /\ lmods \in [Gen -> SUBSET Handler]
    /\ todo \subseteq Task \union Handler
    /\ task \in [Gen -> [Task -> {"none", "run", "stopping", "ended"}]]
    /\ sock \in [Port -> {Free, Foreign} \union {Obj(g, h) : g \in Gen, h \in Handler}]
    /\ registered \in BOOLEAN
    /\ sigs \in Seq(Signal) /\ Len(sigs) <= 1
    /\ sent \in 0..MaxSignals
    /\ stopper \in {"none", "sending", "waiting", "returned"}
    /\ conn \in [Conn -> [st : ConnState, gen : 0..MaxGen,
                          own : Handler \union {NoPort}, run : 0..MaxGen]]

\* startModules() leaves tasks, listeners, config and aliases of one and the
\* same configuration, the last one that was loaded without an error.
IdleIsCoherent ==
    pc = "idle" => /\ cur = gen /\ run = gen /\ running = "started"
                   /\ conf[gen] \in Valid

\* Every socket of the agent belongs to a module that the next StopRemove()
\* of the current listener set reaches, so no port stays bound for ever.
NoLeakedSocket ==
    Alive => \A p \in Port : sock[p].by = "agent" =>
        \E h \in lmods[cur] : Bind[conf[cur]][h] = p /\ sock[p] = Listen(cur, h)

\* In the idle agent each module of the listener set is served on its port,
\* and an enabled handler is missing only where its port could be taken: by
\* another process or by a second Listener object on the same bind string.
IdleServes ==
    pc = "idle" =>
        /\ \A h \in lmods[cur] : IsOpen(cur, h)
        /\ \A h \in Bound(conf[cur]) \ lmods[cur] :
              \/ Bind[conf[cur]][h] \in ForeignPort
              \/ \E k \in Bound(conf[cur]) :
                    /\ Bind[conf[cur]][k] = Bind[conf[cur]][h]
                    /\ Owner(conf[cur], k) # Owner(conf[cur], h)

\* A module that was started answers: its handler is one of those its socket
\* dispatches to.  The one way to start a handler that nobody can reach is to
\* give it the bind string of the tcp server, whose object it then shares.
StartedIsReachable ==
    pc = "idle" => \A h \in lmods[cur] :
        \/ \E p \in Port : /\ sock[p].by = "agent"
                           /\ h \in Handles(sock[p].gen, sock[p].own)
        \/ h \notin Tcp /\ \E k \in Tcp : Bind[conf[cur]][k] = Bind[conf[cur]][h]

\* A task never runs twice because of a reload, and the idle agent runs
\* exactly the tasks of its configuration.
TaskRunsOnce ==
    /\ \A t \in Task : \A g, k \in Gen :
          task[g][t] = "run" /\ task[k][t] = "run" => g = k
    /\ pc = "idle" =>
          \A t \in Task : (\E g \in Gen : task[g][t] = "run")
                           <=> t \in Enabled[conf[cur]]

\* Agent.runSet is assigned after the new listeners were started: a request
\* may meet the aliases of the configuration before the one its listener was
\* opened for, never of an older one, however long its connection lives.
RequestRunSet ==
    \A c \in Conn : conn[c].st \in {"busy", "sending"} =>
        conn[c].run >= conn[c].gen - 1

\* A completed shutdown has released every port and stopped every task.
DownMeansReleased ==
    pc = "done" =>
        /\ running = "stopped"
        /\ \A p \in Port : sock[p].by # "agent"
        /\ \A g \in Gen, t \in Task : task[g][t] # "run"

\* module.go: "when reloading the config, keep running and log an error".
\* Only the first configuration may end the process.
ReloadKeepsRunning ==
    [][pc' = "exited" /\ pc # "exited" => gen <= 1 /\ run = cur /\ pc # "idle"]_vars

\* The reload as the clients see it: the agent implements AgentService, so the
\* ports of two configurations are never open together and the switch happens
\* only when startModules() has closed every port of the old one.
Service == INSTANCE AgentService
               WITH active <- cur, svc <- [p \in Port |-> sock[p].gen]
SwitchesCleanly == Service!Spec

\* A Stop() call ends the agent, whatever reloads come first.
StopIsObeyed == stopper = "sending" ~> pc \in {"done", "exited"}

\* An admin reload is never stuck in its send: neither by other signals nor
\* by a reload that closes the listener the request came through.
AdminReloadSent ==
    \A c \in Conn : conn[c].st = "sending" ~>
                       (conn[c].st # "sending" \/ pc \in {"done", "exited"})

\* A started reload ends with the new configuration in use.
ReloadCompletes ==
    \A g \in Gen : gen = g ~> (run >= g \/ pc \in {"done", "exited"})

=============================================================================
