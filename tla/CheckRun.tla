------------------------------ MODULE CheckRun ------------------------------
(***************************************************************************)
(* One call of a built-in check, from its arguments to its state.  A call  *)
(* is [check, args, env, missing]: the arguments, what the system answers  *)
(* and whether everything that is asked for does not exist.  A second      *)
(* answer is found along with it for reference: that of a check which does *)
(* not try its entries against the filter before they are complete.        *)
(***************************************************************************)
EXTENDS CheckMulti

CONSTANT Families   \* sequence of the calls of each check

VARIABLES
    call, phase,
    parsed,       \* the CheckData after ParseArgs
    cd, result,   \* after the check itself, and its answer
    whole, slow   \* the same for reference
vars == <<call, phase, parsed, cd, result, whole, slow>>

NoResult == [err |-> "", state |-> 3, list |-> <<>>, macros |-> << >>,
             details |-> << >>, metrics |-> <<>>]

Build(c) ==
    CASE c.check = "check_files" -> FilesBuild
      [] c.check = "check_drivesize" -> DrivesizeBuild
      [] c.check = "check_mount" -> MountBuild
      [] c.check = "check_drive_io" -> DriveIoBuild
      [] c.check = "check_process" -> ProcessBuild(c.env.os)
      [] c.check = "check_service" -> ServiceBuild(c.env.os)
      [] c.check = "check_tasksched" -> TaskschedBuild
      [] c.check = "check_cpu" -> CPUBuild
      [] c.check = "check_cpu_utilization" -> CPUUtilizationBuild
      [] c.check = "check_load" -> LoadBuild
      [] c.check = "check_memory" -> MemoryBuild
      [] c.check = "check_swap_io" -> SwapIOBuild
      [] c.check = "check_pagefile" -> PagefileBuild
      [] c.check = "check_temperature" -> TemperatureBuild
      [] c.check = "check_uptime" -> UptimeBuild
      [] c.check = "check_kernel_stats" -> KernelStatsBuild
      [] c.check = "check_os_version" -> OSVersionBuild
      [] c.check = "check_os_updates" -> OSUpdatesBuild
      [] c.check = "check_mailq" -> MailqBuild
      [] c.check = "check_omd" -> OMDBuild
      [] c.check = "check_connections" -> ConnectionsBuild
      [] c.check = "check_network" -> NetworkBuild
      [] c.check = "check_ntp_offset" -> NtpBuild
      [] c.check = "check_ping" -> PingBuild
      [] c.check = "check_eventlog" -> EventlogBuild
      [] c.check = "check_wmi" -> WmiBuild
      [] c.check = "check_pdh" -> PdhBuild
      [] c.check = "check_snclient_version" -> VersionBuild
      [] c.check = "check_index" -> IndexBuild
      [] c.check = "check_multi" -> MultiBuild

Gathered(c, d, pre) ==
    CASE c.check = "check_files" -> FilesGather(d, c.env, pre)
      [] c.check = "check_drivesize" -> DrivesizeGather(d, c.env, pre)
      [] c.check = "check_mount" -> MountGather(d, c.env, pre)
      [] c.check = "check_drive_io" -> DriveIoGather(d, c.env, pre)
      [] c.check = "check_process" -> ProcessGather(d, c.env, pre)
      [] c.check = "check_service" -> ServiceGather(d, c.env, pre)
      [] c.check = "check_tasksched" -> TaskschedGather(d, c.env, pre)
      [] c.check = "check_cpu" -> CPUGather(d, c.env, pre)
      [] c.check = "check_cpu_utilization" -> CPUUtilizationGather(d, c.env, pre)
      [] c.check = "check_load" -> LoadGather(d, c.env, pre)
      [] c.check = "check_memory" -> MemoryGather(d, c.env, pre)
      [] c.check = "check_swap_io" -> SwapIOGather(d, c.env, pre)
      [] c.check = "check_pagefile" -> PagefileGather(d, c.env, pre)
      [] c.check = "check_temperature" -> TemperatureGather(d, c.env, pre)
      [] c.check = "check_uptime" -> UptimeGather(d, c.env, pre)
      [] c.check = "check_kernel_stats" -> KernelStatsGather(d, c.env, pre)
      [] c.check = "check_os_version" -> OSVersionGather(d, c.env, pre)
      [] c.check = "check_os_updates" -> OSUpdatesGather(d, c.env, pre)
      [] c.check = "check_mailq" -> MailqGather(d, c.env, pre)
      [] c.check = "check_omd" -> OMDGather(d, c.env, pre)
      [] c.check = "check_connections" -> ConnectionsGather(d, c.env, pre)
      [] c.check = "check_network" -> NetworkGather(d, c.env, pre)
      [] c.check = "check_ntp_offset" -> NtpGather(d, c.env, pre)
      [] c.check = "check_ping" -> PingGather(d, c.env, pre)
      [] c.check = "check_eventlog" -> EventlogGather(d, c.env, pre)
      [] c.check = "check_wmi" -> WmiGather(d, c.env, pre)
      [] c.check = "check_pdh" -> PdhGather(d, c.env, pre)
      [] c.check = "check_snclient_version" -> VersionGather(d, c.env, pre)
      [] c.check = "check_index" -> IndexGather(d, c.env, pre)
      [] c.check = "check_multi" -> MultiGather(d, c.env, pre)

Init ==
    /\ \E i \in DOMAIN Families :
         LET f == Families[i]
         IN \E s \in f.select, c \in f.filter, t \in f.threshold, e \in f.envs :
              call = [check |-> f.check, args |-> s \o c \o t, env |-> e,
                      missing |-> f.missing]
    /\ phase = "called"
    /\ parsed = Blank
    /\ cd = Blank /\ whole = Blank
    /\ result = NoResult /\ slow = NoResult

Parse ==
    /\ phase = "called"
    /\ parsed' = ParseArgs(Build(call), call.args)
    /\ cd' = parsed'
    /\ phase' = "parsed"
    /\ UNCHANGED <<call, result, whole, slow>>

\* Help and an argument that is refused both answer UNKNOWN.
Refuse ==
    /\ phase = "parsed"
    /\ Failed(cd) \/ cd.help
    /\ result' = [NoResult EXCEPT !.err = cd.err]
    /\ phase' = "refused"
    /\ UNCHANGED <<call, parsed, cd, whole, slow>>

Collect(by) == cd' = by[TRUE] /\ whole' = by[FALSE]
Gather ==
    /\ phase = "parsed"
    /\ ~Failed(cd) /\ ~cd.help
    /\ Collect([pre \in BOOLEAN |-> Gathered(call, cd, pre)])
    /\ phase' = "gathered"
    /\ UNCHANGED <<call, parsed, result, slow>>

Conclude(by) == result' = by[TRUE] /\ slow' = by[FALSE]
Judge ==
    /\ phase = "gathered"
    /\ Conclude([pre \in BOOLEAN |-> Finalize(IF pre THEN cd ELSE whole)])
    /\ phase' = "done"
    /\ UNCHANGED <<call, parsed, cd, whole>>

Next == Parse \/ Refuse \/ Gather \/ Judge
Spec == Init /\ [][Next]_vars

----------------------------------------------------------------------------
Judged == phase = "done" /\ result.err = ""

(* Nothing that is worse than OK is lost between the entries, the metrics   *)
(* and the state the caller gets: the state is at least that of each entry  *)
(* and of each metric (Finalize, checkdata.go 162-304).  Where a metric of  *)
(* the entry is not OK either, it has replaced the state of its entry.  An  *)
(* inventory only lists what there is.                                      *)
NoProblemHidden == Judged /\ ~cd.inventory => HidesNothing(cd, result)

(* Trying an incomplete entry against the filter saves work and changes     *)
(* nothing: the answer is the one of a check that collects everything and   *)
(* filters at the end (MatchMapCondition, checkdata.go).  The total of      *)
(* check_drivesize is left out: it has the drives whose details are known;  *)
(* so is a check that fails on details nobody asked for.  The metrics of an *)
(* entry that is dropped early are not judged.  check_pdh is left out too:  *)
(* its entries become another one after they were tried.                    *)
PrecheckSound ==
    Judged /\ call.check # "check_pdh" /\ "total" \notin cd.supplied =>
        (slow.err = "" => result.list = slow.list /\ result.state <= slow.state)

(* A check that was asked for something which does not exist never says OK, *)
(* unless the caller chose the state of an empty result.                    *)
MissingIsReported ==
    phase = "done" /\ call.missing /\ ~cd.emptyStateSet => result.state # 0

(* The ranges in the performance data alert for the values the conditions   *)
(* alert for, in lists of simple comparisons (ThresholdString,              *)
(* condition.go 1147-1345).                                                 *)
RangesAgree ==
    LET Simple(c, names) == /\ c.group = <<>> /\ c.kw \in names /\ IsNum(c.val)
                            /\ c.op \in {">", ">=", "<", "<="} /\ c.val.n > 0
        Agree(m, list) ==
            LET names == {m.name, m.tname} \ {""}
                range == ThresholdString(names, list)
            IN (/\ IsNum(m.val) /\ m.val.n >= 0 /\ range.form # "inside"
                /\ \A i \in DOMAIN list : Simple(list[i], names))
               => RangeAlerts(range, m.val.n) = AnyMatch(MetricData(m), list)
    IN phase = "done" => \A m \in Range(cd.metrics) : Agree(m, m.warn) /\ Agree(m, m.crit)

\* What can be reached from root by names and links; a link leads to the end
\* of all links, or with direct only to what it names itself.
Leads(fs, p, direct) == IF direct THEN fs[p].target ELSE EndOf(fs, p, LinkFuel)
Reached(fs, root, follow, direct) ==
    LET Links(S) == IF ~follow THEN {}
                    ELSE {Leads(fs, p, direct) : p \in {q \in S : fs[q].type = "link"}}
        Under(S) == {p \in DOMAIN fs : /\ Len(p) > 1 /\ Front(p) \in S
                                       /\ fs[Front(p)].type = "dir" /\ fs[Front(p)].ok}
    IN FoldLeft(LAMBDA S, p : S \union {q \in Links(S) : At(fs, q).type = "dir"} \union Under(S),
                {root}, [n \in 1..Cardinality(DOMAIN fs) |-> n])

(* A walk without a filter, of a tree not deeper than its limit, lists all  *)
(* nodes below its root that names and links to directories lead to,        *)
(* through loops and links that cross, and nothing that they do not lead to *)
(* but the links where max-depth ends; no path twice; with                  *)
(* add-files-only-once no node twice but by links to it, each of which has  *)
(* an entry; and a loop ends by the default of max-depth, never by the time *)
(* limit (Check, walk, handleSymlink and addFile, check_files.go 160-514).  *)
(* What is only behind a link to a link, and the file a root links to, need *)
(* not be listed: the code resolves one level of a link (338-350), although *)
(* the description of follow-symlinks (88) makes no exception.              *)
WalkIsComplete ==
    LET fs == call.env.fs
        follow == IsOn(cd, "follow-symlinks", TRUE)
        cp == call.env.paths[cd.given["paths"][1].w]
        ViaLink == follow /\ fs[cp].type = "link"
        Root(direct) == IF ViaLink THEN Leads(fs, cp, direct) ELSE cp
        Inode(p) == IF follow THEN Stat(fs, p).inode ELSE fs[p].inode
        Nodes(direct) == {Inode(p) : p \in Reached(fs, Root(direct), follow, direct)}
        top == IF At(fs, Root(FALSE)).type = "dir" THEN {Inode(Root(FALSE))} ELSE {}
        promised == IF ViaLink /\ At(fs, Root(TRUE)).type # "dir" THEN {} ELSE Nodes(TRUE)
        listed == {e.inode.n : e \in Range(result.list)}
        Ends(e) == e.is_symlink = Text("true") /\ GetDepth(e.path.p, cp) = FollowDepth
        real == SelectSeq(result.list, LAMBDA e : e.is_symlink = Text("false"))
    IN /\ phase = "done" /\ call.check = "check_files" /\ "max-depth" \notin cd.supplied
          => result.err # "canceled"
       /\ Judged /\ call.check = "check_files" /\ cd.filter = <<>> /\ ~call.missing
          /\ {"max-depth", "pattern"} \intersect cd.supplied = {}
          /\ Len(cd.given["paths"]) = 1
          => /\ promised \ top \subseteq listed
             /\ \A e \in Range(result.list) : Ends(e) \/ e.inode.n \in top \union Nodes(FALSE)
             /\ Cardinality({e.path : e \in Range(result.list)}) = Len(result.list)
             /\ IsOn(cd, "add-files-only-once", FALSE)
                => Cardinality({e.inode : e \in Range(real)}) = Len(real)

(* A critical threshold for one drive replaces the general ones for that    *)
(* drive, on its entry and on its metrics, and for no other drive           *)
(* (blacklistConditionsNotUsingKeywordIfKeywordIsActive, condition.go, and  *)
(* processMetricsWithSpecializedKeyword, checkdata.go).                     *)
SpecificThresholdWins ==
    LET crit == Range(parsed.crit)
        Own(e) == e.drive.s \o " used_pct"
        Alarms(c, e) == Match((Own(e) :> e.used_pct) @@ e, c)[1]
        Meant(e) == {c \in crit : \/ Permits(<<c>>, "drive", e) \/ Own(e) \in KeywordsOf(c)}
        InForce(e) == IF Meant(e) = {} THEN crit ELSE Meant(e)
        Weaker(e) == \E m \in Range(cd.metrics) : Concerns(m, e) /\ MetricState(cd, m) = 1
    IN Judged /\ call.check = "check_drivesize" =>
         \A i \in DOMAIN result.list :
            LET e == result.list[i]
            IN Has(e, "used_pct") /\ e.drive # Text("total") =>
                 LET alarm == \E c \in InForce(e) : Alarms(c, e)
                 IN (StateOf(e) = 2 => alarm) /\ (alarm => StateOf(e) = 2 \/ Weaker(e))

(* What the filter of check_eventlog keeps is never withheld by the query   *)
(* it is turned into: the event is listed, or hidden behind an earlier one  *)
(* that has the same unique index (buildFilterQueryWhereLine,               *)
(* check_eventlog_query_windows.go).                                        *)
MatchingEventsFound ==
    LET logs == call.env.logs
        asked == WordsOf(cd, {"file", "log"})
        unique == WordOr(cd, "unique-index", "1") # "0"
        InRange(ev) == ev.age <= call.env.ranges[WordOr(cd, "scan-range", "24h")]
        Meant(f, i) == /\ MatchMapCondition(cd.filter, EventEntry(f, logs[f][i]), FALSE)
                       /\ InRange(logs[f][i])
        Listed(e) == \E x \in Range(result.list) :
                        x.log = e.log /\ x.id = e.id /\ x.level = e.level /\ x.message = e.message
        Behind(f, i) == \E j \in 1..(i - 1) : /\ logs[f][j].id = logs[f][i].id
                                              /\ logs[f][j].source = logs[f][i].source
    IN Judged /\ call.check = "check_eventlog" /\ "event-codes" \notin cd.supplied =>
         \A f \in (IF asked = {} THEN DOMAIN logs ELSE asked) : \A i \in DOMAIN logs[f] :
            Meant(f, i) => Listed(EventEntry(f, logs[f][i])) \/ (unique /\ Behind(f, i))

\* What a command stands for: the names of all that is to be run, in order,
\* and "endless" where configurations or aliases call each other.
RECURSIVE MeantBy(_, _, _, _)
MeantBy(env, c, viaAlias, fuel) ==
    LET kind == GetCheck(env, c.name, viaAlias)
        own == ParseArgs(MultiBuild, c.args)
        children == ChildChecks(own, env, WordOr(own, "config", ""))
    IN IF fuel = 0 THEN <<"endless">>
       ELSE CASE kind = "alias" ->
                   LET a == env.aliases[c.name]
                   IN MeantBy(env, [name |-> a.command, args |-> AliasArgs(a, c.args)],
                              TRUE, fuel - 1)
              [] kind = "multi" ->
                   FlattenSeq([i \in DOMAIN children |->
                                 MeantBy(env, children[i], FALSE, fuel - 1)])
              [] OTHER -> <<c.name>>

MultiDone == phase = "done" /\ call.check = "check_multi"
\* Without thresholds and filters of the caller or of the configuration.
PlainArgs(args) == \A i \in DOMAIN args : args[i].key \in {"command", "config", "var"}
PlainMulti ==
    LET env == call.env
        inline == Given(parsed, "command")
    IN /\ PlainArgs(call.args)
       /\ \A i \in DOMAIN inline : PlainArgs(inline[i].val.args)
       /\ \A a \in DOMAIN env.aliases : PlainArgs(env.aliases[a].args)
       /\ \A n \in DOMAIN env.configs : \A i \in DOMAIN env.configs[n].checks :
             PlainArgs(env.configs[n].checks[i].args)

(* Nothing gets lost on the way up through nested check_multis, aliases and *)
(* scripts: the state is at least that of every command that was run, and   *)
(* OK means that everything that is configured was run in time, whatever    *)
(* time limits, limits of the number of checks, loops and unknown commands  *)
(* were met (executeChildChecks and runChildCheck, check_multi.go, runCheck *)
(* and fixReturnCodes, snclient.go).                                        *)
MultiIsHonest ==
    MultiDone /\ PlainMulti =>
        LET run == cd.ran
            names == [i \in DOMAIN run.log |-> run.log[i].name]
            meant == MeantBy(call.env, [name |-> "check_multi", args |-> call.args], TRUE, 9)
        IN /\ \A i \in DOMAIN run.log : run.log[i].state <= result.state
           /\ result.state = 0 => names = meant /\ run.now < call.env.timeout

(* However the configurations call each other, no call runs more children   *)
(* than max checks allows, and it ends by its time limit, but for the one   *)
(* command that is on its way then (incrementCheckMultiCounter and the      *)
(* contexts of Check and runCheck).                                         *)
MultiIsBounded ==
    MultiDone =>
        LET run == cd.ran
            late == {call.env.builtins[b].takes : b \in DOMAIN call.env.builtins}
                    \union {call.env.wraps[w].dies : w \in DOMAIN call.env.wraps}
                    \union {call.env.programs[q].dies : q \in DOMAIN call.env.programs}
        IN /\ run.ran <= call.env.maxChecks
           /\ \E l \in late : run.now <= call.env.timeout + l
=============================================================================
