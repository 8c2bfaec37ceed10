----------------------------- MODULE ChecksProc -----------------------------
(***************************************************************************)
(* check_process, check_service for Linux and for Windows, check_tasksched. *)
(* env holds the processes, units, services or tasks of the system.        *)
(***************************************************************************)
EXTENDS ChecksDisk

Lit(kw, op, v) == <<W(kw), W(op), Q(v)>>
Grouped(a, op, b) == a \o <<W(op)>> \o b
Bracket(a) == <<Open>> \o a \o <<Close>>
Plain(name, tname, v, cd) == Metric(name, tname, v, cd.warn, cd.crit, {})
\* A metric without thresholds.
Bare(name, v) == Metric(name, "", v, <<>>, <<>>, {})

----------------------------------------------------------------------------
(* check_process                                                           *)

ProcessBuild(os) ==
    LET state == IF os = "windows"
                 THEN (Text("running") :> Text("started")) @@ (Text("stop") :> Text("stopped"))
                 ELSE (Text("started") :> Text("running")) @@ (Text("stopped") :> Text("stop"))
    IN [Blank EXCEPT !.name = "check_process", !.emptyState = 2,
          !.args = [process |-> Arg("list", TRUE)],
          !.alias = ("state" :> state),
          !.defWarn = <<W("count"), W("="), N(0, "")>>,
          !.defCrit = Lit("state", "=", "stopped") \o
                      <<W("or"), W("count"), W("="), N(0, "")>>,
          !.attr = Units({"rss", "virtual", "pagefile"}, "byte")
                   @@ Units({"cpu"}, "percent") @@ Units({"cpu_seconds"}, "duration")
                   @@ Units({"creation"}, "date")]

\* convertStatusChar: the words of other systems are told to be unknown.
ConvertStatusChar(letter) ==
    IF letter \in {"idle", "lock", "running", "sleep", "stop", "wait", "zombie", "blocked"}
    THEN letter ELSE "unknown"

\* fetchProcs.  A process may be gone when it is asked for its details, and
\* a check program that just started is not counted.
Youth == 3000  \* ms
FetchProcs(cd, env) ==
    LET asked == WordsOf(cd, {"process"})
        Wanted(p) == asked = {} \/ "*" \in asked \/ p.exe \in asked
        Counted(p) == Wanted(p) /\
            (env.os = "windows" \/ (~(p.checker /\ p.age < Youth) /\ ~p.gone))
        State(p) == IF env.os # "windows" THEN ConvertStatusChar(p.state)
                    ELSE IF p.threads > 0 THEN "started" ELSE "stopped"
        E(p) == [exe |-> Text(p.exe), process |-> Text(p.exe), state |-> Text(State(p)),
                 rss |-> Num(p.rss), virtual |-> Num(p.virtual), cpu |-> Num(p.cpu),
                 creation |-> Num(Now - (p.age \div 1000))]
        kept == SelectSeq(env.procs, Counted)
    IN [i \in DOMAIN kept |-> E(kept[i])]

ProcessGather(cd, env, pre) ==
    LET list == Filter(cd.filter, FetchProcs(cd, env))
        Sum(k) == Num(FoldLeft(LAMBDA n, e : n + e[k].n, 0, list))
        wide == Given(cd, "process") # <<>> \/ cd.filter # <<>>
        some == SelectSeq(<<"rss", "virtual", "cpu">>,
                          LAMBDA k : wide \/ HasThreshold(cd, k))
    IN IF ~env.listable THEN Fail(cd, "process list")
       ELSE [cd EXCEPT !.list = list,
              !.details = [k \in {"rss", "virtual", "cpu"} |-> Sum(k)],
              !.metrics = <<Plain("count", "", Num(Len(list)), cd)>> \o
                          [i \in DOMAIN some |-> Plain(some[i], "", Sum(some[i]), cd)]]

----------------------------------------------------------------------------
(* check_service, what both systems share.  A service of env is            *)
(* [name, display, state, start, active, preset, pids, tasks, ok].         *)

\* addProcMetrics: a pid without a process ends it before anything is set.
ProcMetrics(env, svc) ==
    IF svc.pids = {} \/ \E p \in svc.pids : p \notin DOMAIN env.pids THEN << >>
    ELSE LET Sum(k) == MapThenFoldSet(+, 0, LAMBDA p : env.pids[p][k],
                                      LAMBDA s : CHOOSE x \in s : TRUE, svc.pids)
             oldest == Greatest({env.pids[p].age : p \in svc.pids})
         IN [rss |-> Num(Sum("rss")), vms |-> Num(Sum("vms")), cpu |-> Num(Sum("cpu")),
             age |-> Num(oldest)]

\* addServiceMetrics
ServiceMetrics(cd, name, state, e) ==
    LET Needed(k) == HasThreshold(cd, k) \/ Given(cd, "service") # <<>>
        One(k) == IF Has(e, k) /\ IsNum(e[k])
                  THEN <<Plain(name \o " " \o k, k, e[k], cd)>>
                  ELSE <<Bare(name \o " " \o k, Text("U"))>>
        memory == IF Needed("rss") \/ Needed("vms") THEN One("rss") \o One("vms") ELSE <<>>
    IN (IF HasThreshold(cd, "state") THEN <<Bare(name, state)>> ELSE <<>>)
       \o memory
       \o (IF Needed("cpu") THEN One("cpu") ELSE <<>>)
       \o (IF Has(e, "tasks") /\ Needed("tasks") THEN
             <<Plain(name \o " tasks", "tasks",
                     IF IsNum(e.tasks) THEN e.tasks ELSE Num(0), cd)>> ELSE <<>>)

\* isRequired: names are compared without case, lower maps them.
IsRequired(cd, env, e, pre) ==
    LET L(t) == IF t \in DOMAIN env.lower THEN env.lower[t] ELSE t
        asked == {L(s) : s \in WordsOf(cd, {"service"})}
        excluded == {L(s) : s \in WordsOf(cd, {"exclude"})}
        mine == {L(e.name.s), L(e.desc.s)}
    IN /\ \A m \in mine, x \in excluded : m # x /\ <<x, m>> \notin Holds
       /\ \/ "*" \in asked
          \/ /\ asked # {} => mine \intersect asked # {}
             /\ Admitted(cd, e, pre)

\* addService
AddService(cd, env, e, state, pre) ==
    IF ~IsRequired(cd, env, e, pre) THEN cd
    ELSE [cd EXCEPT !.list = Append(@, e),
            !.metrics = @ \o (IF HasThreshold(cd, "count") THEN <<>>
                              ELSE ServiceMetrics(cd, e.name.s, state, e))]

----------------------------------------------------------------------------
(* check_service on Linux: units of systemd.                               *)

UnitStates ==
    ("inactive (dead)" :> "stopped") @@ ("activating (start)" :> "starting") @@
    ("active (exited)" :> "oneshot") @@ ("active (running)" :> "running") @@
    ("failed" :> "stopped")
SvcState(s) == IF s \in DOMAIN UnitStates THEN UnitStates[s] ELSE "unknown"
SvcStateFloat(s) ==
    CASE s = "stopped" -> 1 [] s = "starting" -> 2 [] s = "oneshot" -> 3
      [] s = "running" -> 4 [] s = "static" -> 5 [] OTHER -> 0

LinuxBad ==
    Bracket(<<W("state"), W("not"), W("in"), Open, Q("running"), Comma, Q("oneshot"),
              Comma, Q("static"), Close, W("||")>> \o Lit("active", "=", "failed"))
LinuxServiceBuild ==
    [Blank EXCEPT !.name = "check_service", !.emptyState = 3,
        !.args = [service |-> [Arg("list", TRUE) EXCEPT !.crit = LinuxBad],
                  exclude |-> Arg("list", FALSE)],
        !.alias = ("state" :> (Text("started") :> Text("running"))),
        !.defFilter = <<W("active"), W("!="), W("inactive")>>,
        !.defCrit = LinuxBad \o <<W("&&")>> \o Lit("preset", "!=", "disabled"),
        !.attr = Units({"rss", "vms"}, "byte") @@ Units({"cpu"}, "percent")
                 @@ Units({"age"}, "duration")]

\* parseSystemCtlStatus, then the numbers of the main processes.
UnitEntry(env, svc) ==
    LET state == IF svc.static THEN "static" ELSE SvcState(svc.state)
        base == [name |-> Text(svc.name), service |-> Text(svc.name),
                 desc |-> Text(svc.display), active |-> Text(svc.active),
                 state |-> Text(state), preset |-> Text(svc.preset),
                 created |-> Text(""), age |-> Text(""), rss |-> Text(""),
                 vms |-> Text(""), cpu |-> Text(""),
                 tasks |-> IF svc.tasks = -1 THEN Text("") ELSE Num(svc.tasks)]
    IN (IF state = "running" THEN ProcMetrics(env, svc) ELSE << >>) @@ base

\* addServiceByName: systemctl knows the exact name only.
FindUnit(env, name) ==
    LET L(t) == IF t \in DOMAIN env.lower THEN env.lower[t] ELSE t
        exact == {i \in DOMAIN env.services : env.services[i].name = name}
        other == {i \in DOMAIN env.services : L(env.services[i].name) = L(name)}
    IN IF exact # {} THEN exact ELSE other

LinuxServiceGather(cd, env, pre) ==
    LET words == Given(cd, "service")
        asked == WordsOf(cd, {"service"})
        excluded == WordsOf(cd, {"exclude"})
        Add(acc, i) ==
            LET e == UnitEntry(env, env.services[i])
            IN AddService(acc, env, e, Num(SvcStateFloat(e.state.s)), pre)
        Listed(i) == \A x \in excluded : x # env.services[i].name
                                         /\ <<x, env.services[i].name>> \notin Holds
        every == SelectSeq([i \in DOMAIN env.services |-> i], Listed)
        all == IF words = <<>> \/ "*" \in asked THEN FoldLeft(Add, cd, every) ELSE cd
        One(acc, t) ==
            IF Failed(acc) \/ t.w = "*" \/ \E i \in DOMAIN acc.list : acc.list[i].name.s = t.w
            THEN acc
            ELSE IF t.w \in env.nasty THEN Fail(acc, "nasty characters")
            ELSE IF FindUnit(env, t.w) = {} THEN Fail(acc, "could not find service")
            ELSE Add(acc, Least(FindUnit(env, t.w)))
    IN IF ~env.listable /\ (words = <<>> \/ "*" \in asked)
       THEN Fail(cd, "failed to fetch service list")
       ELSE FoldLeft(One, all, words)

----------------------------------------------------------------------------
(* check_service on Windows: services of the service control manager.      *)

StateNumbers == ("stopped" :> 1) @@ ("starting" :> 2) @@ ("stopping" :> 3) @@
    ("running" :> 4) @@ ("continuing" :> 5) @@ ("pausing" :> 6) @@ ("paused" :> 7)
WinState(s) == IF s \in DOMAIN StateNumbers THEN s ELSE "unknown"
WinStartType(start, delayed) == IF start = "auto" /\ delayed THEN "delayed" ELSE start

WindowsServiceBuild ==
    LET bad == Lit("state", "!=", "running")
    IN [Blank EXCEPT !.name = "check_service", !.emptyState = 3,
          !.args = [service |-> [Arg("list", TRUE) EXCEPT !.warn = bad, !.crit = bad],
                    exclude |-> Arg("list", FALSE)],
          !.alias = ("state" :> (Text("started") :> Text("running"))),
          !.colAlias = ("name" :> <<"name", "display">>),
          !.defFilter = <<W("none")>>,
          !.defCrit = bad \o <<W("&&")>> \o Lit("start_type", "=", "auto"),
          !.defWarn = bad \o <<W("&&")>> \o Lit("start_type", "=", "delayed"),
          !.attr = Units({"rss", "vms"}, "byte") @@ Units({"cpu"}, "percent")
                   @@ Units({"age"}, "duration")]

WindowsEntry(env, svc) ==
    (IF svc.state = "running" THEN ProcMetrics(env, svc) ELSE << >>) @@
    [name |-> Text(svc.name), service |-> Text(svc.name),
     state |-> Text(WinState(svc.state)), display |-> Text(svc.display),
     desc |-> Text(svc.display), delayed |-> Num(IF svc.delayed THEN 1 ELSE 0),
     start_type |-> Text(WinStartType(svc.start, svc.delayed))]

\* FindService: the name, then the display name.
FindService(env, name) ==
    LET L(t) == IF t \in DOMAIN env.lower THEN env.lower[t] ELSE t
    IN {i \in DOMAIN env.services :
          L(name) \in {L(env.services[i].name), L(env.services[i].display)}}

\* A service asked for by another name keeps the name it was asked for.
WindowsServiceGather(cd, env, pre) ==
    LET words == Given(cd, "service")
        asked == WordsOf(cd, {"service"})
        excluded == WordsOf(cd, {"exclude"})
        Add(acc, name, i) ==
            LET svc == env.services[i]
                e == [WindowsEntry(env, svc) EXCEPT !.name = Text(name)]
            IN IF ~svc.ok THEN (IF words = <<>> THEN acc ELSE Fail(acc, "service status"))
               ELSE AddService(acc, env, e, Num(IF svc.state \in DOMAIN StateNumbers
                                                THEN StateNumbers[svc.state] ELSE 0), pre)
        Each(acc, svc) ==
            IF Failed(acc) \/ \E x \in excluded : x = svc.name \/ <<x, svc.name>> \in Holds
            THEN acc
            ELSE Add(acc, svc.name, Least(FindService(env, svc.name)))
        all == IF words = <<>> \/ "*" \in asked THEN FoldLeft(Each, cd, env.services) ELSE cd
        One(acc, t) ==
            IF Failed(acc) \/ t.w = "*"
               \/ \E i \in DOMAIN acc.list : t.w \in {acc.list[i].name.s, acc.list[i].display.s}
            THEN acc
            ELSE IF FindService(env, t.w) = {} THEN Fail(acc, "failed to open service")
            ELSE Add(acc, t.w, Least(FindService(env, t.w)))
    IN IF ~env.listable THEN Fail(cd, "failed to open service handler")
       ELSE FoldLeft(One, all, words)

ServiceBuild(os) == IF os = "windows" THEN WindowsServiceBuild ELSE LinuxServiceBuild
ServiceGather(cd, env, pre) ==
    IF env.os = "windows" THEN WindowsServiceGather(cd, env, pre)
    ELSE LinuxServiceGather(cd, env, pre)

----------------------------------------------------------------------------
(* check_tasksched, for Windows.  The script selects by title and folder;  *)
(* a result code is the position in the list of known codes or itself.     *)

TaskschedBuild ==
    [Blank EXCEPT !.name = "check_tasksched", !.emptyState = 3,
        !.args = [k \in {"title", "folder"} |-> Arg("text", FALSE)]
                 @@ [k \in {"recursive", "hidden"} |-> Arg("bool", FALSE)],
        !.defFilter = <<W("enabled"), W("="), W("true")>>,
        !.defCrit = <<W("exit_code"), W("<"), N(0, "")>>,
        !.defWarn = <<W("exit_code"), W("!="), N(0, "")>>,
        !.attr = Units({"enabled", "has_run", "hidden"}, "bool")
                 @@ Units({"most_recent_run_time"}, "date")]

\* TaskResult.exitCode: an unsigned number.
TaskCodes == <<"success", "ready", "running", "disabled", "not run", "no more runs">>
TaskExitCode(t) ==
    IF \E i \in DOMAIN TaskCodes : TaskCodes[i] = t.result
    THEN (CHOOSE i \in DOMAIN TaskCodes : TaskCodes[i] = t.result) - 1 ELSE t.code

Bool(b) == Text(IF b THEN "true" ELSE "false")
TaskEntry(t) ==
    [title |-> Text(t.title), folder |-> Text(t.folder), enabled |-> Bool(t.enabled),
     hidden |-> Bool(t.hidden), has_run |-> Bool(t.lastRun # 0),
     exit_code |-> Num(TaskExitCode(t)), missed_runs |-> Num(t.missed),
     most_recent_run_time |-> Num(t.lastRun)]

\* addTasks.  A condition on the title overrides empty-state=, the user's too.
TaskschedGather(cd, env, pre) ==
    LET title == WordOr(cd, "title", "*")
        Selected(t) == /\ title = "*" \/ t.title = title
                       /\ t.hidden => IsOn(cd, "hidden", FALSE)
                       /\ \/ WordOr(cd, "folder", "\\") \in {"\\", t.folder}
                          \/ IsOn(cd, "recursive", TRUE) /\ t.parent = WordOr(cd, "folder", "\\")
        kept == SelectSeq(env.tasks, Selected)
        named == \/ title # "*" \/ HasThreshold(cd, "title")
                 \/ HasThresholdCond(cd.filter, "title")
    IN IF env.os # "windows" THEN Fail(cd, "windows only")
       ELSE IF title \in env.nasty THEN Fail(cd, "blacklisted runes")
       ELSE IF ~env.listable THEN Fail(cd, "getting scheduled tasks failed")
       ELSE [cd EXCEPT !.list = [i \in DOMAIN kept |-> TaskEntry(kept[i])],
                       !.emptyState = IF named THEN 3 ELSE @]
=============================================================================
